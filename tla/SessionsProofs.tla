--------------------------- MODULE SessionsProofs ---------------------------
(***************************************************************************)
(* Sessions for any number of browsers, of concurrent requests and of      *)
(* token and link rows: no family of refresh tokens forks, what is spent   *)
(* stays spent, and a logout or a reset ends the sessions it knew of.      *)
(***************************************************************************)
EXTENDS Sessions, FiniteSetTheorems, NaturalsInduction, TLAPS

Kinds == {"none", "register", "resend", "forgot", "login", "verify", "reset",
          "refresh", "logout"}
Stages == {"idle", "insert", "issue", "mail", "user", "links", "revoking",
           "linking", "rotate", "rotated", "set", "clear"}
Purposes == {"none", "password_reset", "email_verification"}
States == {"none", "unsent", "mailed", "closed"}

UserShape  == [exists : BOOLEAN, verified : BOOLEAN, pw : Nat, sv : Nat]
TokenShape == [family : Token \cup {0}, consumed : BOOLEAN, over : BOOLEAN]
LinkShape  == [purpose : Purposes, state : States]
Jar == [access : Nat \cup {None}, refresh : Token \cup {None}]
ReqShape == [kind : Kinds, from : Browser \cup {None}, arg : Nat \cup {None},
             at : Stages, sv : Nat \cup {None}, want : SUBSET Rows, got : Jar,
             seen : SUBSET Rows]

\* Every variable keeps its shape.
ShapesOK ==
    /\ user \in UserShape
    /\ token \in [Token -> TokenShape]
    /\ link \in [Link -> LinkShape]
    /\ cookie \in [Browser -> Jar]
    /\ req \in [Conn -> ReqShape]
    /\ lock \in [Rows -> Conn \cup {None}]

\* The stages of a request that has a transaction open.
Holding == {"user", "revoking", "links", "linking", "rotated"}
LocksOK == \A r \in Rows : lock[r] # None => req[lock[r]].at \in Holding

\* Families, cookies and answers name tokens that were issued.
NamesOK ==
    /\ \A t \in Token : token[t].family \in Issued \cup {0}
    /\ \A b \in Browser : cookie[b].refresh \in Issued \cup {None}
    /\ \A c \in Conn : req[c].got.refresh \in Issued \cup {None}

\* Links and verifications are those of an account that exists.
AccountOK ==
    /\ user.verified => user.exists
    /\ \A l \in Link : link[l] # NoLink => user.exists
    /\ \A c \in Conn : At(c, {"register"}, "issue") => user.exists

\* Which requests come through which stage.
StageOK(c) ==
    /\ req[c].at = "issue" => req[c].kind \in {"register", "login"}
    /\ req[c].at \in {"rotate", "rotated"} => req[c].kind = "refresh"
    /\ req[c].at = "user" => req[c].kind \in {"verify", "reset", "logout"}
    /\ req[c].at = "links" => req[c].kind = "verify"
    /\ req[c].at = "linking" => req[c].kind \in {"verify", "reset"}
    /\ req[c].at = "revoking" => req[c].kind \in {"reset", "logout", "refresh"}

\* The token a rotation is about to consume is locked and still usable.
RotationOK(c) ==
    /\ req[c].at \in {"rotate", "rotated"} => req[c].arg \in Issued
    /\ req[c].at = "rotated" => /\ lock[<<"token", req[c].arg>>] = c
                                /\ req[c].arg \in Live(token)

\* The link a verification or a reset uses is locked and still open.
LinkOK(c) ==
    /\ /\ req[c].kind \in {"verify", "reset"}
       /\ req[c].at \in {"user", "links", "revoking", "linking"}
       => /\ req[c].arg \in Link /\ lock[<<"link", req[c].arg>>] = c
          /\ link[req[c].arg] \notin {NoLink, Closed}
    /\ \A l \in Link : <<"link", l>> \in req[c].want => link[l] # NoLink

\* What a logout or a reset knew of when it was sent is closed already or
\* among the rows it is going to close.
SeenOK(c) ==
    req[c].kind \in {"logout", "reset"} =>
       /\ \A t \in Token : <<"token", t>> \in req[c].seen =>
             /\ t \in Issued
             /\ req[c].at \in {"revoking", "linking"} =>
                   <<"token", t>> \in req[c].want \/ token[t].over
       /\ \A l \in Link : <<"link", l>> \in req[c].seen =>
             \/ link[l] = Closed
             \/ req[c].at \in {"user", "revoking"}
                /\ link[l].purpose = "password_reset"
             \/ req[c].at = "linking" /\ <<"link", l>> \in req[c].want

RequestOK(c) == StageOK(c) /\ RotationOK(c) /\ LinkOK(c) /\ SeenOK(c)

\* The bounds leave room for the rows the requests in progress will insert.
Issuers == {c \in Conn : \/ req[c].at \in {"rotate", "rotated"}
                         \/ At(c, {"login"}, "issue")}
Registrants == {c \in Conn : req[c].kind = "register"
                             /\ req[c].at \in {"insert", "issue"}}
FreeTokens == Token \ Issued
FreeLinks  == {l \in Link : link[l] = NoLink}
RoomOK == /\ Cardinality(FreeTokens) >= Cardinality(Issuers)
          /\ Cardinality(FreeLinks) >= Cardinality(Registrants)

SessionsIInv ==
    /\ ShapesOK /\ LocksOK /\ NamesOK /\ AccountOK /\ RoomOK
    /\ \A c \in Conn : RequestOK(c)
    /\ OneHeadPerFamily
-----------------------------------------------------------------------------
\* Rows are told apart by their table and key.
LEMMA RowsApart ==
    /\ UserRow \in Rows
    /\ \A t \in Token : <<"token", t>> \in Rows /\ <<"token", t>> # UserRow
    /\ \A l \in Link : <<"link", l>> \in Rows /\ <<"link", l>> # UserRow
    /\ \A t \in Token, l \in Link : <<"token", t>> # <<"link", l>>
    /\ \A s, t \in Token : <<"token", s>> = <<"token", t>> => s = t
    /\ \A s, t \in Link : <<"link", s>> = <<"link", t>> => s = t
  BY DEF Rows, UserRow

\* The rows of a set of tokens or links.
LEMMA RowSets ==
    /\ \A S \in SUBSET Token, t \in Token :
          <<"token", t>> \in TokenRows(S) <=> t \in S
    /\ \A S \in SUBSET Link, l \in Link :
          <<"link", l>> \in LinkRows(S) <=> l \in S
    /\ \A S \in SUBSET Token, l \in Link : <<"link", l>> \notin TokenRows(S)
    /\ \A S \in SUBSET Link, t \in Token : <<"token", t>> \notin LinkRows(S)
    /\ \A S \in SUBSET Token : TokenRows(S) \subseteq Rows
    /\ \A S \in SUBSET Link : LinkRows(S) \subseteq Rows
  BY DEF Rows, TokenRows, LinkRows

\* A non-empty set of naturals has a least element.
LEMMA LeastNatural ==
    ASSUME NEW S \in SUBSET Nat, S # {}
    PROVE  \E m \in S : \A k \in S : m <= k
<1> DEFINE Less == {ss \in Nat \X Nat : ss[1] < ss[2]}
<1>1. IsWellFoundedOn(Less, Nat)
  BY NatLessThanWellFounded DEF OpToRel
<1>2. PICK m \in S : \A k \in S : ~(<<k, m>> \in Less)
  <2> HIDE DEF Less
  <2> QED
    BY <1>1, WFMin
<1>3. ASSUME NEW k \in S PROVE m <= k
  <2>1. m \in Nat /\ k \in Nat /\ ~(k < m)
    BY <1>2, <1>3
  <2> QED
    BY <2>1
<1> QED
  BY <1>3

\* A row is still free for a new token: NewToken is such a row.
LEMMA NewTokenFree == FreeTokens # {} => NewToken \in FreeTokens
<1> SUFFICES ASSUME FreeTokens # {} PROVE NewToken \in FreeTokens
  OBVIOUS
<1>1. Token \subseteq Nat \ {0} /\ FreeTokens \subseteq Nat
  BY SessionsAssumption DEF Token, FreeTokens
<1>2. PICK m \in FreeTokens : \A k \in FreeTokens : m <= k
  BY <1>1, LeastNatural
<1>3. m - 1 \in Issued \cup {0}
  BY <1>1, <1>2, SessionsAssumption DEF FreeTokens, Token
<1>4. \E t \in Token : t \notin Issued /\ t - 1 \in Issued \cup {0}
  BY <1>2, <1>3 DEF FreeTokens
<1> QED
  BY <1>4 DEF NewToken, FreeTokens

\* A row is still free for a new link: NewLink is such a row.
LEMMA NewLinkFree == FreeLinks # {} => NewLink \in FreeLinks
<1> SUFFICES ASSUME FreeLinks # {} PROVE NewLink \in FreeLinks
  OBVIOUS
<1>1. Link \subseteq Nat \ {0} /\ FreeLinks \subseteq Nat
  BY SessionsAssumption DEF Link, FreeLinks
<1>2. PICK m \in FreeLinks : \A k \in FreeLinks : m <= k
  BY <1>1, LeastNatural
<1>3. m = 1 \/ link[m - 1] # NoLink
  BY <1>1, <1>2, SessionsAssumption DEF FreeLinks, Link
<1>4. \E l \in Link : link[l] = NoLink /\ (l = 1 \/ link[l - 1] # NoLink)
  BY <1>2, <1>3 DEF FreeLinks
<1> QED
  BY <1>4 DEF NewLink, FreeLinks

\* Removing the element a member of S takes keeps room for the others.
LEMMA OneTakesOne ==
    ASSUME NEW F, IsFiniteSet(F), NEW S, IsFiniteSet(S),
           Cardinality(F) >= Cardinality(S), NEW x \in F, NEW c \in S
    PROVE  Cardinality(F \ {x}) >= Cardinality(S \ {c})
<1>1. Cardinality(F) \in Nat /\ Cardinality(S) \in Nat
  BY FS_CardinalityType
<1>2. Cardinality(F \ {x}) = Cardinality(F) - 1
  BY FS_RemoveElement
<1>3. Cardinality(S \ {c}) = Cardinality(S) - 1
  BY FS_RemoveElement
<1> QED
  BY <1>1, <1>2, <1>3

\* The sets that RoomOK counts are finite.
LEMMA FiniteRoom ==
    /\ IsFiniteSet(FreeTokens) /\ IsFiniteSet(FreeLinks)
    /\ IsFiniteSet(Issuers) /\ IsFiniteSet(Registrants) /\ IsFiniteSet(Conn)
<1>1. IsFiniteSet(Token) /\ IsFiniteSet(Link) /\ IsFiniteSet(Conn)
  BY SessionsAssumption, FS_Interval DEF Token, Link
<1>2. /\ FreeTokens \in SUBSET Token /\ FreeLinks \in SUBSET Link
      /\ Issuers \in SUBSET Conn /\ Registrants \in SUBSET Conn
  BY DEF FreeTokens, FreeLinks, Issuers, Registrants
<1> QED
  BY <1>1, <1>2, FS_Subset
-----------------------------------------------------------------------------
\* A step of request c changes no other request.
Alone(c) == /\ req' \in [Conn -> ReqShape]
            /\ \A d \in Conn \ {c} : req'[d] = req[d]

\* It takes free rows and gives back its own, all of them when it ends.
LocksMove(c) ==
    /\ lock' \in [Rows -> Conn \cup {None}]
    /\ \A r \in Rows : /\ lock[r] \notin {c, None} => lock'[r] = lock[r]
                       /\ lock'[r] \in {lock[r], c, None}
                       /\ lock'[r] = c => req'[c].at \in Holding

\* What a step leaves to a request d that does not take it: its row, its
\* locks, the rows it has locked, and what was closed.
Respects(d) ==
    /\ req'[d] = req[d]
    /\ \A r \in Rows : lock[r] = d => lock'[r] = d
    /\ \A t \in Token :
          /\ token[t].family # 0 => token'[t].family # 0
          /\ token[t].family # 0 /\ token[t].over => token'[t].over
          /\ lock[<<"token", t>>] = d /\ t \in Live(token)
             => t \in Live(token')
    /\ \A l \in Link :
          /\ link[l] # NoLink => link'[l] # NoLink
          /\ link[l] = Closed => link'[l] = Closed
          /\ link[l].purpose = "password_reset" =>
                link'[l].purpose = "password_reset" \/ link'[l] = Closed
          /\ lock[<<"link", l>>] = d /\ link[l] # Closed => link'[l] # Closed

\* Such a step keeps what the invariant says of d.
LEMMA OthersKept ==
    ASSUME SessionsIInv, NEW d \in Conn, Respects(d)
    PROVE  RequestOK(d)'
<1>1. RequestOK(d) /\ req'[d] = req[d]
  BY DEF SessionsIInv, Respects
<1>2. StageOK(d)'
  BY <1>1 DEF RequestOK, StageOK
<1>3. RotationOK(d)'
  BY <1>1, RowsApart DEF RequestOK, RotationOK, Respects, Issued, Live
<1>4. LinkOK(d)'
  BY <1>1, RowsApart DEF RequestOK, LinkOK, Respects
<1>5. SeenOK(d)'
  BY <1>1 DEF RequestOK, SeenOK, Respects, Issued
<1> QED
  BY <1>2, <1>3, <1>4, <1>5 DEF RequestOK

\* Locks stay with transactions in progress, and others keep theirs.
LEMMA LocksKept ==
    ASSUME SessionsIInv, NEW c \in Conn, Alone(c), LocksMove(c)
    PROVE  /\ LocksOK'
           /\ \A d \in Conn \ {c}, r \in Rows : lock[r] = d => lock'[r] = d
<1> USE SessionsAssumption
<1>1. ASSUME NEW r \in Rows, lock'[r] # None
      PROVE  req'[lock'[r]].at \in Holding
  <2>1. CASE lock'[r] = c
    BY <2>1 DEF LocksMove
  <2>2. CASE lock'[r] # c
    <3>1. lock'[r] = lock[r] /\ lock[r] \in Conn \ {c}
      BY <1>1, <2>2 DEF LocksMove, SessionsIInv, ShapesOK
    <3> QED
      BY <1>1, <3>1 DEF Alone, SessionsIInv, LocksOK
  <2> QED
    BY <2>1, <2>2
<1> QED
  BY <1>1 DEF LocksOK, LocksMove

\* The end of a transaction gives back its locks and no other.
LEMMA ReleaseMoves ==
    ASSUME SessionsIInv, NEW c \in Conn, lock' = Unlocked(c)
    PROVE  LocksMove(c)
  BY SessionsAssumption DEF SessionsIInv, ShapesOK, Unlocked, LocksMove

\* A step that keeps the locks, and its transaction open if it was.
LEMMA NoLockMoves ==
    ASSUME SessionsIInv, NEW c \in Conn, UNCHANGED lock,
           req[c].at \in Holding => req'[c].at \in Holding
    PROVE  LocksMove(c)
  BY SessionsAssumption DEF SessionsIInv, ShapesOK, LocksOK, LocksMove

\* No row is inserted, and a request that will insert one came when there was
\* room for every request.
LEMMA RoomKept ==
    ASSUME SessionsIInv, NEW c \in Conn, Alone(c),
           FreeTokens' = FreeTokens, FreeLinks' = FreeLinks,
           c \in Issuers' => TokensLeft \/ c \in Issuers,
           c \in Registrants' => LinksLeft \/ c \in Registrants
    PROVE  RoomOK'
<1>2. /\ Issuers' \subseteq Conn /\ Issuers' \subseteq Issuers \cup {c}
      /\ Registrants' \subseteq Conn
      /\ Registrants' \subseteq Registrants \cup {c}
  BY DEF Alone, Issuers, Registrants, At
<1>3. Cardinality(FreeTokens) >= Cardinality(Issuers')
  <2>1. CASE Issuers' \subseteq Issuers
    <3>1. Cardinality(Issuers') <= Cardinality(Issuers)
          /\ Cardinality(Issuers') \in Nat
      BY <2>1, FiniteRoom, FS_Subset, FS_CardinalityType
    <3> QED
      BY <3>1, FiniteRoom, FS_CardinalityType DEF SessionsIInv, RoomOK
  <2>2. CASE TokensLeft
    <3>1. Cardinality(Issuers') <= Cardinality(Conn)
          /\ Cardinality(Issuers') \in Nat
      BY <1>2, FiniteRoom, FS_Subset, FS_CardinalityType
    <3> QED
      BY <2>2, <3>1, FiniteRoom, FS_CardinalityType
      DEF TokensLeft, FreeTokens
  <2> QED
    BY <1>2, <2>1, <2>2
<1>4. Cardinality(FreeLinks) >= Cardinality(Registrants')
  <2>1. CASE Registrants' \subseteq Registrants
    <3>1. Cardinality(Registrants') <= Cardinality(Registrants)
          /\ Cardinality(Registrants') \in Nat
      BY <2>1, FiniteRoom, FS_Subset, FS_CardinalityType
    <3> QED
      BY <3>1, FiniteRoom, FS_CardinalityType DEF SessionsIInv, RoomOK
  <2>2. CASE LinksLeft
    <3>1. Cardinality(Registrants') <= Cardinality(Conn)
          /\ Cardinality(Registrants') \in Nat
      BY <1>2, FiniteRoom, FS_Subset, FS_CardinalityType
    <3> QED
      BY <2>2, <3>1, FiniteRoom, FS_CardinalityType DEF LinksLeft, FreeLinks
  <2> QED
    BY <1>2, <2>1, <2>2
<1> QED
  BY <1>3, <1>4 DEF RoomOK

\* Links are mailed or closed; one that is closed is locked by c or by nobody.
LinksMove(c) ==
    /\ link' \in [Link -> LinkShape]
    /\ \A l \in Link :
          \/ link'[l] = link[l]
          \/ /\ link[l] # NoLink /\ link'[l] = Closed
             /\ lock[<<"link", l>>] \in {None, c}
          \/ /\ link[l] \notin {NoLink, Closed}
             /\ link'[l] \notin {NoLink, Closed}
             /\ link'[l].purpose = link[l].purpose

\* Tokens are revoked; one that is still usable is locked by c or by nobody.
TokensMove(c) ==
    /\ token' \in [Token -> TokenShape]
    /\ \A t \in Token : /\ token'[t].family = token[t].family
                        /\ token'[t].consumed = token[t].consumed
                        /\ token[t].over => token'[t].over
                        /\ lock[<<"token", t>>] \notin {None, c}
                           => token'[t] = token[t]

\* Steps that insert no row.
LEMMA RowStep ==
    ASSUME SessionsIInv, NEW c \in Conn, Alone(c), LocksMove(c),
           LinksMove(c), TokensMove(c),
           cookie' \in [Browser -> Jar],
           \A b \in Browser : cookie'[b].refresh \in Issued \cup {None},
           user' \in UserShape, user.exists => user'.exists,
           user'.verified => user'.exists,
           req'[c].got.refresh \in Issued \cup {None},
           c \in Issuers' => TokensLeft \/ c \in Issuers,
           c \in Registrants' => LinksLeft \/ c \in Registrants,
           At(c, {"register"}, "issue")' => user'.exists,
           RequestOK(c)'
    PROVE  SessionsIInv'
<1>1. ShapesOK'
  BY DEF SessionsIInv, ShapesOK, Alone, LocksMove, LinksMove, TokensMove
<1>2. LocksOK' /\ \A d \in Conn \ {c}, r \in Rows : lock[r] = d => lock'[r] = d
  BY LocksKept
<1>3. Issued' = Issued /\ FreeTokens' = FreeTokens
  BY DEF TokensMove, Issued, FreeTokens
<1>4. \A l \in Link : link'[l] = NoLink <=> link[l] = NoLink
  <2>1. NoLink # Closed
    BY DEF NoLink, Closed
  <2> QED
    BY <2>1 DEF LinksMove
<1>5. FreeLinks' = FreeLinks
  BY <1>4 DEF FreeLinks
<1>6. NamesOK'
  BY <1>3 DEF SessionsIInv, NamesOK, Alone, TokensMove
<1>7. AccountOK'
  BY <1>4 DEF SessionsIInv, AccountOK, Alone, At
<1>8. RoomOK'
  BY <1>3, <1>5, RoomKept
<1>9. ASSUME NEW d \in Conn \ {c} PROVE Respects(d)
  <2>1. /\ req'[d] = req[d] /\ d \notin {None, c}
        /\ \A r \in Rows : lock[r] = d => lock'[r] = d
    BY <1>2, SessionsAssumption DEF Alone
  <2>2. ASSUME NEW t \in Token
        PROVE  /\ token[t].family # 0 => token'[t].family # 0
               /\ token[t].over => token'[t].over
               /\ lock[<<"token", t>>] = d /\ t \in Live(token)
                  => t \in Live(token')
    BY <2>1 DEF TokensMove, Live
  <2>3. ASSUME NEW l \in Link
        PROVE  /\ link[l] # NoLink => link'[l] # NoLink
               /\ link[l] = Closed => link'[l] = Closed
               /\ link[l].purpose = "password_reset" =>
                     link'[l].purpose = "password_reset" \/ link'[l] = Closed
               /\ lock[<<"link", l>>] = d /\ link[l] # Closed
                  => link'[l] # Closed
    BY <1>4, <2>1 DEF LinksMove
  <2> QED
    BY <2>1, <2>2, <2>3 DEF Respects
<1>10. \A d \in Conn : RequestOK(d)'
  BY <1>9, OthersKept
<1>11. OneHeadPerFamily'
  <2>1. Live(token') \subseteq Live(token)
    BY DEF Live, TokensMove
  <2> QED
    BY <2>1 DEF SessionsIInv, OneHeadPerFamily, TokensMove, Live
<1> QED
  BY <1>1, <1>2, <1>6, <1>7, <1>8, <1>10, <1>11 DEF SessionsIInv

\* Steps that change requests and locks only, or create the account.
LEMMA QuietStep ==
    ASSUME SessionsIInv, NEW c \in Conn, Alone(c), LocksMove(c),
           UNCHANGED <<token, link, cookie>>,
           user' \in UserShape, user.exists => user'.exists,
           user'.verified <=> user.verified,
           req'[c].got.refresh \in Issued \cup {None},
           c \in Issuers' => TokensLeft \/ c \in Issuers,
           c \in Registrants' => LinksLeft \/ c \in Registrants,
           At(c, {"register"}, "issue")' => user'.exists,
           RequestOK(c)'
    PROVE  SessionsIInv'
<1>1. LinksMove(c) /\ TokensMove(c)
  BY DEF SessionsIInv, ShapesOK, LinksMove, TokensMove
<1>2. /\ cookie' \in [Browser -> Jar]
      /\ user'.verified => user'.exists
      /\ \A b \in Browser : cookie'[b].refresh \in Issued \cup {None}
  BY DEF SessionsIInv, ShapesOK, NamesOK, AccountOK
<1> QED
  BY <1>1, <1>2, RowStep
-----------------------------------------------------------------------------
\* What a logout or a reset knows of when it is sent.
Known == TokenRows(Live(token)) \cup LinkRows(OpenLinks("password_reset"))

\* What a request has just after it was sent.
LEMMA Started ==
    ASSUME SessionsIInv, NEW c \in Conn, NEW b \in Browser, NEW kind \in Kinds,
           NEW at \in Stages, NEW arg \in Nat \cup {None},
           NEW sv \in Nat \cup {None}, Start(c, b, kind, at, arg, sv)
    PROVE  /\ Alone(c) /\ UNCHANGED <<user, token, cookie>> /\ req[c] = Idle
           /\ req'[c].kind = kind /\ req'[c].at = at /\ req'[c].arg = arg
           /\ req'[c].want = {} /\ req'[c].got = NoCookies
           /\ kind \in {"logout", "reset"} => req'[c].seen = Known
           /\ kind \notin {"logout", "reset"} => req'[c].seen = {}
<1> DEFINE known == IF kind \notin {"logout", "reset"} THEN {} ELSE Known
           new == [Idle EXCEPT !.kind = kind, !.from = b, !.at = at,
                               !.arg = arg, !.sv = sv, !.seen = known]
<1>1. /\ req' = [req EXCEPT ![c] = new] /\ req[c] = Idle
      /\ UNCHANGED <<user, token, cookie>>
  BY DEF Start, Known
<1>2. known \subseteq Rows
  <2>1. /\ Live(token) \in SUBSET Token
        /\ OpenLinks("password_reset") \in SUBSET Link
    BY DEF Live, OpenLinks
  <2> QED
    BY <2>1, RowSets DEF Known
<1>3. NoCookies \in Jar
  BY DEF NoCookies, Jar
<1> HIDE DEF known
<1>4. /\ new.kind = kind /\ new.at = at /\ new.arg = arg /\ new.want = {}
      /\ new.got = NoCookies /\ new.seen = known /\ new \in ReqShape
  BY <1>2, <1>3 DEF Idle, ReqShape
<1> HIDE DEF new
<1>5. Alone(c) /\ req'[c] = new
  BY <1>1, <1>4 DEF SessionsIInv, ShapesOK, Alone
<1> QED
  BY <1>1, <1>4, <1>5 DEF known

\* A row of what a logout or a reset knows of is a live token or an open link.
LEMMA KnownRows ==
    /\ \A t \in Token :
          <<"token", t>> \in Known => t \in Issued
    /\ \A l \in Link :
          <<"link", l>> \in Known => link[l].purpose = "password_reset"
<1>1. /\ Live(token) \in SUBSET Token
      /\ OpenLinks("password_reset") \in SUBSET Link
  BY DEF Live, OpenLinks
<1>2. Live(token) \subseteq Issued
  BY DEF Live, Issued
<1> QED
  BY <1>1, <1>2, RowSets DEF Known, OpenLinks

\* register, login, refresh and logout are sent: no row is written.
LEMMA SendQuiet ==
    ASSUME SessionsIInv, NEW c \in Conn, NEW b \in Browser,
           \/ SendRegister(c, b) \/ SendLogin(c, b) \/ SendCall(c, b)
           \/ SendRefresh(c, b) \/ SendLogout(c, b)
    PROVE  SessionsIInv'
<1>1. /\ user \in UserShape /\ user.sv \in Nat
      /\ cookie[b].refresh \in Issued \cup {None}
      /\ cookie[b].refresh \in Token \cup {None} /\ Token \subseteq Nat
  BY SessionsAssumption
  DEF SessionsIInv, ShapesOK, NamesOK, Jar, UserShape, Token
<1>2. PICK kind \in {"register", "login", "refresh", "logout"},
           at \in Stages, arg \in Nat \cup {None}, sv \in Nat \cup {None} :
        /\ Start(c, b, kind, at, arg, sv) /\ UNCHANGED <<link, lock>>
        /\ kind = "register" => at = "insert" /\ LinksLeft
        /\ kind = "login" => at = "issue" /\ TokensLeft
        /\ kind = "refresh" => at = "rotate" /\ TokensLeft /\ arg \in Issued
        /\ kind = "logout" => at = "user"
  <2>1. CASE SendRegister(c, b)
    BY <2>1 DEF SendRegister, Stages
  <2>2. CASE SendLogin(c, b)
    BY <1>1, <2>2 DEF SendLogin, Stages
  <2>3. CASE SendCall(c, b) \/ SendRefresh(c, b)
    <3>1. Start(c, b, "refresh", "rotate", cookie[b].refresh, None)
          /\ UNCHANGED <<link, lock>> /\ TokensLeft /\ cookie[b].refresh # None
      BY <2>3 DEF SendCall, SendRefresh
    <3> QED
      BY <1>1, <3>1 DEF Stages
  <2>4. CASE SendLogout(c, b)
    BY <2>4 DEF SendLogout, Stages
  <2> QED
    BY <2>1, <2>2, <2>3, <2>4
<1>3. /\ Alone(c) /\ UNCHANGED <<user, token, cookie>> /\ req[c] = Idle
      /\ req'[c].kind = kind /\ req'[c].at = at /\ req'[c].arg = arg
      /\ req'[c].want = {} /\ req'[c].got = NoCookies
      /\ kind \in {"logout", "reset"} => req'[c].seen = Known
      /\ kind \notin {"logout", "reset"} => req'[c].seen = {}
  <2>1. kind \in Kinds
    BY DEF Kinds
  <2> QED
    BY <1>2, <2>1, Started
<1>4. LocksMove(c)
  BY <1>2, <1>3, NoLockMoves DEF Idle, Holding
<1>5. RequestOK(c)'
  <2>1. StageOK(c)' /\ RotationOK(c)' /\ LinkOK(c)'
    BY <1>2, <1>3 DEF StageOK, RotationOK, LinkOK, Issued
  <2>2. SeenOK(c)'
    BY <1>2, <1>3, KnownRows DEF SeenOK, Issued
  <2> QED
    BY <2>1, <2>2 DEF RequestOK
<1>6. /\ c \in Issuers' => TokensLeft
      /\ c \in Registrants' => LinksLeft
      /\ ~At(c, {"register"}, "issue")'
      /\ req'[c].got.refresh = None
  BY <1>2, <1>3 DEF Issuers, Registrants, At, NoCookies
<1> QED
  BY <1>1, <1>2, <1>3, <1>4, <1>5, <1>6, QuietStep

\* A mailed link is opened: its row is locked, and still open.
LEMMA SendLinkOK ==
    ASSUME SessionsIInv, NEW c \in Conn, NEW b \in Browser, SendLink(c, b)
    PROVE  SessionsIInv'
<1>1. PICK l \in Link, kind \in {"verify", "reset"} :
        /\ link[l].state = "mailed" /\ lock[<<"link", l>>] = None
        /\ Start(c, b, kind, "user", l, None)
        /\ lock' = [lock EXCEPT ![<<"link", l>>] = c] /\ UNCHANGED link
  BY DEF SendLink
<1>2. Link \subseteq Nat
  BY SessionsAssumption DEF Link
<1>3. /\ Alone(c) /\ UNCHANGED <<user, token, cookie>> /\ req[c] = Idle
      /\ req'[c].kind = kind /\ req'[c].at = "user" /\ req'[c].arg = l
      /\ req'[c].want = {} /\ req'[c].got = NoCookies
      /\ kind \in {"logout", "reset"} => req'[c].seen = Known
      /\ kind \notin {"logout", "reset"} => req'[c].seen = {}
  <2>1. kind \in Kinds /\ "user" \in Stages
    BY DEF Kinds, Stages
  <2> QED
    BY <1>1, <1>2, <2>1, Started
<1>4. <<"link", l>> \in Rows /\ lock \in [Rows -> Conn \cup {None}]
  BY RowsApart DEF SessionsIInv, ShapesOK
<1>5. LocksMove(c)
  BY <1>1, <1>3, <1>4 DEF LocksMove, Holding
<1>6. RequestOK(c)'
  <2>1. StageOK(c)' /\ RotationOK(c)'
    BY <1>3 DEF StageOK, RotationOK
  <2>2. link[l] \notin {NoLink, Closed}
    BY <1>1 DEF NoLink, Closed
  <2>3. LinkOK(c)'
    BY <1>1, <1>3, <1>4, <2>2 DEF LinkOK
  <2>4. SeenOK(c)'
    BY <1>1, <1>3, KnownRows DEF SeenOK, Issued
  <2> QED
    BY <2>1, <2>3, <2>4 DEF RequestOK
<1>7. /\ c \notin Issuers' /\ c \notin Registrants'
      /\ ~At(c, {"register"}, "issue")' /\ req'[c].got.refresh = None
  BY <1>3 DEF Issuers, Registrants, At, NoCookies
<1>8. user \in UserShape
  BY DEF SessionsIInv, ShapesOK
<1> QED
  BY <1>1, <1>3, <1>5, <1>6, <1>7, <1>8, QuietStep

\* A link row is inserted for a request that found room, or comes when there
\* is room for all.
LEMMA LinkAdded ==
    ASSUME SessionsIInv, NEW c \in Conn, NEW purpose \in Purposes \ {"none"},
           link' = [link EXCEPT ![NewLink] =
                      [purpose |-> purpose, state |-> "unsent"]],
           Alone(c), UNCHANGED <<user, token, cookie, lock>>, user.exists,
           c \in Registrants \/ LinksLeft,
           req[c].at \notin Holding, c \in Issuers' => c \in Issuers,
           req'[c].at = "mail", req'[c].kind \notin {"logout", "reset"},
           \A l \in Link : <<"link", l>> \in req'[c].want => link[l] # NoLink,
           req'[c].got.refresh \in Issued \cup {None}
    PROVE  SessionsIInv'
<1> DEFINE new == [purpose |-> purpose, state |-> "unsent"]
<1>1. NewLink \in FreeLinks
  <2>1. Cardinality(FreeLinks) >= 1
    <3>1. CASE c \in Registrants
      <4>1. Cardinality(Registrants) # 0 /\ Cardinality(Registrants) \in Nat
        BY <3>1, FiniteRoom, FS_EmptySet, FS_CardinalityType
      <4> QED
        BY <4>1, FiniteRoom, FS_CardinalityType DEF SessionsIInv, RoomOK
    <3>2. CASE LinksLeft
      <4>1. Cardinality(Conn) # 0 /\ Cardinality(Conn) \in Nat
        BY FiniteRoom, FS_EmptySet, FS_CardinalityType
      <4> QED
        BY <3>2, <4>1, FiniteRoom, FS_CardinalityType DEF LinksLeft, FreeLinks
    <3> QED
      BY <3>1, <3>2
  <2> QED
    BY <2>1, FiniteRoom, FS_EmptySet, NewLinkFree
<1>2. /\ NewLink \in Link /\ link[NewLink] = NoLink
      /\ link \in [Link -> LinkShape] /\ new \in LinkShape
      /\ new # NoLink /\ new # Closed
  BY <1>1
  DEF FreeLinks, SessionsIInv, ShapesOK, LinkShape, States, NoLink, Closed
<1> HIDE DEF new
<1>3. /\ link' \in [Link -> LinkShape] /\ link'[NewLink] = new
      /\ \A l \in Link \ {NewLink} : link'[l] = link[l]
  BY <1>2 DEF new
<1>4. ShapesOK'
  BY <1>3 DEF SessionsIInv, ShapesOK, Alone
<1>5. LocksMove(c) /\ LocksOK'
  BY NoLockMoves, LocksKept
<1>6. NamesOK' /\ OneHeadPerFamily'
  BY DEF SessionsIInv, NamesOK, OneHeadPerFamily, Live, Issued, Alone
<1>7. AccountOK'
  BY DEF SessionsIInv, AccountOK, Alone, At
<1>8. RoomOK'
  <2>1. /\ FreeTokens' = FreeTokens /\ FreeLinks' = FreeLinks \ {NewLink}
    BY <1>2, <1>3 DEF FreeTokens, FreeLinks, Issued
  <2>2. Issuers' \subseteq Issuers /\ Registrants' \subseteq Registrants \ {c}
        /\ Registrants' \subseteq Conn \ {c}
    BY DEF Alone, Issuers, Registrants, At
  <2>3. Cardinality(FreeTokens) >= Cardinality(Issuers')
    <3>1. Cardinality(Issuers') <= Cardinality(Issuers)
          /\ Cardinality(Issuers') \in Nat
      BY <2>2, FiniteRoom, FS_Subset, FS_CardinalityType
    <3> QED
      BY <3>1, FiniteRoom, FS_CardinalityType DEF SessionsIInv, RoomOK
  <2>4. PICK S \in {Registrants, Conn} :
          /\ c \in S /\ IsFiniteSet(S) /\ Registrants' \subseteq S \ {c}
          /\ Cardinality(FreeLinks) >= Cardinality(S)
    <3>1. CASE c \in Registrants
      BY <2>2, <3>1, FiniteRoom DEF SessionsIInv, RoomOK
    <3>2. CASE LinksLeft
      BY <2>2, <3>2, FiniteRoom DEF LinksLeft, FreeLinks
    <3> QED
      BY <3>1, <3>2
  <2>5. Cardinality(FreeLinks \ {NewLink}) >= Cardinality(S \ {c})
    BY <1>1, <2>4, FiniteRoom, OneTakesOne
  <2>6. /\ Cardinality(Registrants') <= Cardinality(S \ {c})
        /\ Cardinality(Registrants') \in Nat /\ Cardinality(S \ {c}) \in Nat
        /\ Cardinality(FreeLinks \ {NewLink}) \in Nat
    <3>1. IsFiniteSet(S \ {c}) /\ IsFiniteSet(FreeLinks \ {NewLink})
      BY <2>4, FiniteRoom, FS_RemoveElement
    <3> QED
      BY <2>4, <3>1, FS_Subset, FS_CardinalityType
  <2> QED
    BY <2>1, <2>3, <2>5, <2>6 DEF RoomOK
<1>9. \A d \in Conn \ {c} : Respects(d)
  <2>1. \A d \in Conn \ {c} : req'[d] = req[d]
    BY DEF Alone
  <2>2. link[NewLink].purpose # "password_reset"
    BY <1>2 DEF NoLink
  <2> QED
    BY <1>2, <1>3, <2>1, <2>2 DEF Respects, Live, NoLink, Closed
<1>10. RequestOK(c)'
  <2>1. \A l \in Link : <<"link", l>> \in req'[c].want => link'[l] # NoLink
    BY <1>2, <1>3
  <2> QED
    BY <2>1 DEF RequestOK, StageOK, RotationOK, LinkOK, SeenOK
<1>11. \A d \in Conn : RequestOK(d)'
  BY <1>9, <1>10, OthersKept
<1> QED
  BY <1>4, <1>5, <1>6, <1>7, <1>8, <1>11 DEF SessionsIInv

\* resend-verification and forgot-password insert their link at once.
LEMMA SendMailOK ==
    ASSUME SessionsIInv, NEW c \in Conn, NEW b \in Browser,
           SendResend(c, b) \/ SendForgot(c, b)
    PROVE  SessionsIInv'
<1>1. PICK kind \in {"resend", "forgot"} :
        /\ LinksLeft /\ user.exists /\ Start(c, b, kind, "mail", NewLink, None)
        /\ AddLink(kind) /\ UNCHANGED lock
  BY DEF SendResend, SendForgot
<1>2. NewLink \in Nat
  <2>1. Cardinality(FreeLinks) # 0
    <3>1. Cardinality(Conn) # 0 /\ Cardinality(Conn) \in Nat
      BY FiniteRoom, FS_EmptySet, FS_CardinalityType
    <3> QED
      BY <1>1, <3>1, FiniteRoom, FS_CardinalityType DEF LinksLeft, FreeLinks
  <2> QED
    BY <2>1, FiniteRoom, FS_EmptySet, NewLinkFree, SessionsAssumption
    DEF FreeLinks, Link
<1>3. /\ Alone(c) /\ UNCHANGED <<user, token, cookie>> /\ req[c] = Idle
      /\ req'[c].kind = kind /\ req'[c].at = "mail" /\ req'[c].want = {}
      /\ req'[c].got = NoCookies /\ req'[c].seen = {}
  <2>1. kind \in Kinds /\ "mail" \in Stages
    BY DEF Kinds, Stages
  <2> QED
    BY <1>1, <1>2, <2>1, Started
<1>4. Purpose(kind) \in Purposes \ {"none"}
  BY DEF Purpose, Purposes
<1>5. /\ req[c].at \notin Holding /\ c \notin Issuers'
      /\ req'[c].got.refresh = None
  BY <1>3 DEF Idle, Holding, Issuers, At, NoCookies
<1> QED
  BY <1>1, <1>3, <1>4, <1>5, LinkAdded DEF AddLink
-----------------------------------------------------------------------------
\* The response is on its way and the transaction is over.
LEMMA Answered ==
    ASSUME SessionsIInv, NEW c \in Conn, NEW what \in {"set", "clear"},
           NEW got \in Jar, Answer(c, what, got)
    PROVE  /\ Alone(c) /\ LocksMove(c) /\ RequestOK(c)'
           /\ req'[c].at = what /\ req'[c].got = got
           /\ c \notin Issuers' /\ c \notin Registrants'
<1> DEFINE new == [Idle EXCEPT !.kind = req[c].kind, !.from = req[c].from,
                               !.at = what, !.got = got]
<1>1. req' = [req EXCEPT ![c] = new] /\ lock' = Unlocked(c)
  BY DEF Answer
<1>2. req[c] \in ReqShape /\ req \in [Conn -> ReqShape]
  BY DEF SessionsIInv, ShapesOK
<1>3. /\ new.at = what /\ new.got = got /\ new.want = {} /\ new.seen = {}
      /\ new \in ReqShape
  BY <1>2 DEF Idle, ReqShape, Stages
<1> HIDE DEF new
<1>4. Alone(c) /\ req'[c] = new
  BY <1>1, <1>2, <1>3 DEF Alone
<1>5. LocksMove(c)
  BY <1>1, ReleaseMoves
<1>6. RequestOK(c)'
  BY <1>3, <1>4 DEF RequestOK, StageOK, RotationOK, LinkOK, SeenOK
<1> QED
  BY <1>3, <1>4, <1>5, <1>6 DEF Issuers, Registrants, At

\* The request ends and changes no cookie.
LEMMA Finished ==
    ASSUME SessionsIInv, NEW c \in Conn, req' = [req EXCEPT ![c] = Idle]
    PROVE  /\ Alone(c) /\ RequestOK(c)'
           /\ req'[c].at = "idle" /\ req'[c].got.refresh = None
           /\ c \notin Issuers' /\ c \notin Registrants'
           /\ ~At(c, {"register"}, "issue")'
<1>1. /\ Idle \in ReqShape /\ Idle.at = "idle" /\ Idle.got.refresh = None
      /\ Idle.want = {} /\ Idle.seen = {} /\ Idle.kind = "none"
  BY DEF Idle, ReqShape, Stages, Kinds, Jar, NoCookies
<1>2. req'[c] = Idle /\ Alone(c)
  BY <1>1 DEF SessionsIInv, ShapesOK, Alone
<1>3. RequestOK(c)'
  BY <1>1, <1>2 DEF RequestOK, StageOK, RotationOK, LinkOK, SeenOK
<1> QED
  BY <1>1, <1>2, <1>3 DEF Issuers, Registrants, At

\* A request is rolled back, or ends there.
LEMMA EndStep ==
    ASSUME SessionsIInv, NEW c \in Conn,
           Done(c) \/ Answer(c, "clear", NoCookies),
           UNCHANGED <<user, token, link, cookie>>
    PROVE  SessionsIInv'
<1>1. user \in UserShape /\ NoCookies \in Jar /\ NoCookies.refresh = None
  BY DEF SessionsIInv, ShapesOK, NoCookies, Jar
<1>2. CASE Done(c)
  <2>1. /\ Alone(c) /\ RequestOK(c)' /\ req'[c].got.refresh = None
        /\ c \notin Issuers' /\ c \notin Registrants'
        /\ ~At(c, {"register"}, "issue")'
    BY <1>2, Finished DEF Done
  <2>2. LocksMove(c)
    BY <1>2, ReleaseMoves DEF Done
  <2> QED
    BY <1>1, <2>1, <2>2, QuietStep
<1>3. CASE Answer(c, "clear", NoCookies)
  <2>1. /\ Alone(c) /\ LocksMove(c) /\ RequestOK(c)'
        /\ req'[c].at = "clear" /\ req'[c].got = NoCookies
        /\ c \notin Issuers' /\ c \notin Registrants'
    BY <1>1, <1>3, Answered
  <2>2. ~At(c, {"register"}, "issue")'
    BY <2>1 DEF At
  <2> QED
    BY <1>1, <2>1, <2>2, QuietStep
<1> QED
  BY <1>2, <1>3

\* A deadlock victim, a statement that fails, an answer that is lost.
LEMMA FaultOK ==
    ASSUME SessionsIInv, NEW c \in Conn, Victim(c) \/ Fault(c)
    PROVE  SessionsIInv'
<1>1. CASE RollBack(c)
  BY <1>1, EndStep DEF RollBack
<1>2. CASE /\ req[c].at \in {"set", "clear"}
           /\ req' = [req EXCEPT ![c] = Idle]
           /\ UNCHANGED <<user, token, link, cookie, lock>>
  <2>1. /\ Alone(c) /\ RequestOK(c)' /\ req'[c].got.refresh = None
        /\ c \notin Issuers' /\ c \notin Registrants'
        /\ ~At(c, {"register"}, "issue")'
    BY <1>2, Finished
  <2>2. LocksMove(c) /\ user \in UserShape
    BY <1>2, NoLockMoves DEF Holding, SessionsIInv, ShapesOK
  <2> QED
    BY <1>2, <2>1, <2>2, QuietStep
<1> QED
  BY <1>1, <1>2 DEF Victim, Fault

\* The browser applies the cookies of an answer.
LEMMA ReceiveOK ==
    ASSUME SessionsIInv, NEW c \in Conn, Receive(c)
    PROVE  SessionsIInv'
<1>1. /\ req[c].at \in {"set", "clear"} /\ req' = [req EXCEPT ![c] = Idle]
      /\ cookie' = [cookie EXCEPT ![req[c].from] = req[c].got]
      /\ UNCHANGED <<user, token, link, lock>>
  BY DEF Receive
<1>2. /\ Alone(c) /\ RequestOK(c)' /\ req'[c].got.refresh = None
      /\ c \notin Issuers' /\ c \notin Registrants'
      /\ ~At(c, {"register"}, "issue")'
  BY <1>1, Finished
<1>3. LocksMove(c) /\ LinksMove(c) /\ TokensMove(c)
  BY <1>1, NoLockMoves
  DEF Holding, SessionsIInv, ShapesOK, LinksMove, TokensMove
<1>4. /\ cookie' \in [Browser -> Jar]
      /\ \A b \in Browser : cookie'[b].refresh \in Issued \cup {None}
  BY <1>1 DEF SessionsIInv, ShapesOK, NamesOK, ReqShape
<1>5. /\ user' \in UserShape
      /\ user'.verified => user'.exists
  BY <1>1 DEF SessionsIInv, ShapesOK, AccountOK
<1> QED
  BY <1>1, <1>2, <1>3, <1>4, <1>5, RowStep

\* The account is created, or a second registration of it ends.
LEMMA InsertOK ==
    ASSUME SessionsIInv, NEW c \in Conn, Insert(c)
    PROVE  SessionsIInv'
<1>1. /\ At(c, {"register"}, "insert") /\ user' = [user EXCEPT !.exists = TRUE]
      /\ IF user.exists THEN Done(c) ELSE Next(c, "issue") /\ UNCHANGED lock
      /\ UNCHANGED <<token, link, cookie>>
  BY DEF Insert
<1>2. /\ user' \in UserShape /\ user'.exists /\ user'.verified = user.verified
  BY <1>1 DEF SessionsIInv, ShapesOK, UserShape
<1>3. CASE Done(c)
  <2>1. /\ Alone(c) /\ RequestOK(c)' /\ req'[c].got.refresh = None
        /\ c \notin Issuers' /\ c \notin Registrants'
    BY <1>3, Finished DEF Done
  <2>2. LocksMove(c)
    BY <1>3, ReleaseMoves DEF Done
  <2> QED
    BY <1>1, <1>2, <2>1, <2>2, QuietStep
<1>4. CASE Next(c, "issue") /\ UNCHANGED lock
  <2>1. /\ Alone(c) /\ req'[c] = [req[c] EXCEPT !.at = "issue"]
        /\ req[c] \in ReqShape
    BY <1>4 DEF Next, SessionsIInv, ShapesOK, ReqShape, Stages, Alone
  <2>2. /\ req'[c].at = "issue" /\ req'[c].kind = "register"
        /\ req'[c].got = req[c].got /\ req'[c].want = req[c].want
    BY <1>1, <2>1 DEF ReqShape, At
  <2>3. LocksMove(c)
    BY <1>1, <1>4, NoLockMoves DEF At, Holding
  <2>4. RequestOK(c)'
    BY <1>1, <2>2
    DEF SessionsIInv, RequestOK, StageOK, RotationOK, LinkOK, SeenOK
  <2>5. /\ c \notin Issuers' /\ c \in Registrants
        /\ req'[c].got.refresh \in Issued \cup {None}
    BY <1>1, <2>2 DEF Issuers, Registrants, At, SessionsIInv, NamesOK
  <2> QED
    BY <1>1, <1>2, <2>1, <2>3, <2>4, <2>5, QuietStep
<1> QED
  BY <1>1, <1>3, <1>4

\* The link of a new account.
LEMMA IssueLinkOK ==
    ASSUME SessionsIInv, NEW c \in Conn, IssueLink(c)
    PROVE  SessionsIInv'
<1> DEFINE new == [req[c] EXCEPT !.at = "mail", !.arg = NewLink]
<1>1. /\ At(c, {"register"}, "issue") /\ AddLink("register")
      /\ req' = [req EXCEPT ![c].at = "mail", ![c].arg = NewLink]
      /\ UNCHANGED <<user, token, cookie, lock>>
  BY DEF IssueLink
<1>2. c \in Registrants /\ user.exists
  BY <1>1 DEF Registrants, At, SessionsIInv, AccountOK
<1>3. NewLink \in Nat
  <2>1. Cardinality(FreeLinks) # 0
    <3>1. Cardinality(Registrants) # 0 /\ Cardinality(Registrants) \in Nat
      BY <1>2, FiniteRoom, FS_EmptySet, FS_CardinalityType
    <3> QED
      BY <3>1, FiniteRoom, FS_CardinalityType DEF SessionsIInv, RoomOK
  <2> QED
    BY <2>1, FiniteRoom, FS_EmptySet, NewLinkFree, SessionsAssumption
    DEF FreeLinks, Link
<1>4. req[c] \in ReqShape /\ req \in [Conn -> ReqShape]
  BY DEF SessionsIInv, ShapesOK
<1>5. /\ new \in ReqShape /\ new.at = "mail" /\ new.kind = "register"
      /\ new.want = req[c].want /\ new.seen = req[c].seen
      /\ new.got = req[c].got /\ req' = [req EXCEPT ![c] = new]
  BY <1>1, <1>3, <1>4 DEF ReqShape, Stages, At
<1> HIDE DEF new
<1>6. Alone(c) /\ req'[c] = new
  BY <1>4, <1>5 DEF Alone
<1>7. Purpose("register") \in Purposes \ {"none"}
  BY DEF Purpose, Purposes
<1>8. \A l \in Link : <<"link", l>> \in req'[c].want => link[l] # NoLink
  BY <1>5, <1>6 DEF SessionsIInv, RequestOK, LinkOK
<1>9. /\ req'[c].got.refresh \in Issued \cup {None}
      /\ req[c].at \notin Holding /\ c \notin Issuers'
  BY <1>1, <1>5, <1>6 DEF SessionsIInv, NamesOK, At, Holding, Issuers
<1> QED
  BY <1>1, <1>2, <1>5, <1>6, <1>7, <1>8, <1>9, LinkAdded DEF AddLink

\* The mail of a link is sent or lost; a link closed meanwhile stays closed.
LEMMA MailOK ==
    ASSUME SessionsIInv, NEW c \in Conn, Mail(c)
    PROVE  SessionsIInv'
<1>1. /\ \/ link' = [link EXCEPT ![req[c].arg].state =
                                   IF @ = "unsent" THEN "mailed" ELSE @]
         \/ UNCHANGED link
      /\ req' = [req EXCEPT ![c] = Idle] /\ lock' = Unlocked(c)
      /\ UNCHANGED <<user, token, cookie>>
  BY DEF Mail, Done
<1>2. link \in [Link -> LinkShape]
  BY DEF SessionsIInv, ShapesOK
<1>3. \A l \in Link :
         \/ link'[l] = link[l]
         \/ link[l].state = "unsent"
            /\ link'[l] = [link[l] EXCEPT !.state = "mailed"]
  BY <1>1, <1>2 DEF LinkShape
<1>4. link' \in [Link -> LinkShape]
  BY <1>1, <1>2 DEF LinkShape, States
<1>5. LinksMove(c)
  BY <1>2, <1>3, <1>4 DEF LinksMove, LinkShape, NoLink, Closed
<1>6. TokensMove(c)
  BY <1>1 DEF TokensMove, SessionsIInv, ShapesOK
<1>7. /\ Alone(c) /\ RequestOK(c)' /\ req'[c].got.refresh = None
      /\ c \notin Issuers' /\ c \notin Registrants'
      /\ ~At(c, {"register"}, "issue")'
  BY <1>1, Finished
<1>8. LocksMove(c)
  BY <1>1, ReleaseMoves
<1>9. /\ cookie' \in [Browser -> Jar] /\ user' \in UserShape
      /\ \A b \in Browser : cookie'[b].refresh \in Issued \cup {None}
      /\ user.exists => user'.exists
  BY <1>1 DEF SessionsIInv, ShapesOK, NamesOK
<1>10. user'.verified => user'.exists
  BY <1>1 DEF SessionsIInv, AccountOK
<1> QED
  BY <1>5, <1>6, <1>7, <1>8, <1>9, <1>10, RowStep
-----------------------------------------------------------------------------
\* The users row is locked, and the UPDATE of refresh_tokens fixes its rows.
LEMMA LockUserOK ==
    ASSUME SessionsIInv, NEW c \in Conn, LockUser(c)
    PROVE  SessionsIInv'
<1> DEFINE at == IF req[c].kind = "verify" THEN "links" ELSE "revoking"
           want == IF req[c].kind = "verify" THEN {}
                   ELSE TokenRows(RevokeTargets(c))
           new == [req[c] EXCEPT !.at = at, !.want = want]
<1>1. /\ req[c].at = "user" /\ lock[UserRow] \in {None, c}
      /\ lock' = [lock EXCEPT ![UserRow] = c]
      /\ UNCHANGED <<user, token, link, cookie>>
  BY DEF LockUser, Lock
<1>2. /\ req[c] \in ReqShape /\ req \in [Conn -> ReqShape]
      /\ lock \in [Rows -> Conn \cup {None}] /\ user \in UserShape
  BY DEF SessionsIInv, ShapesOK
<1>3. /\ RequestOK(c) /\ req[c].kind \in {"verify", "reset", "logout"}
  BY <1>1 DEF SessionsIInv, RequestOK, StageOK
<1>4. req' = [req EXCEPT ![c] = new]
  BY <1>2 DEF LockUser
<1>5. RevokeTargets(c) \in SUBSET Token
  BY DEF RevokeTargets, Issued
<1>6. /\ want \subseteq Rows
      /\ \A l \in Link : <<"link", l>> \notin want
      /\ req[c].kind # "verify" =>
            \A t \in Issued : <<"token", t>> \in want \/ token[t].over
  <2>1. \A t \in Issued : t \in RevokeTargets(c) \/ token[t].over
    BY DEF RevokeTargets
  <2>2. Issued \subseteq Token
    BY DEF Issued
  <2> QED
    BY <1>5, <2>1, <2>2, RowSets
<1> HIDE DEF want
<1>7. /\ new \in ReqShape /\ new.at = at /\ new.want = want
      /\ new.kind = req[c].kind /\ new.arg = req[c].arg
      /\ new.seen = req[c].seen /\ new.got = req[c].got
  BY <1>2, <1>6 DEF ReqShape, Stages
<1> HIDE DEF new
<1>8. Alone(c) /\ req'[c] = new
  BY <1>2, <1>4, <1>7 DEF Alone
<1>9. LocksMove(c)
  BY <1>1, <1>2, <1>7, <1>8, RowsApart DEF LocksMove, Holding
<1>10. RequestOK(c)'
  <2>1. StageOK(c)' /\ RotationOK(c)'
    BY <1>3, <1>7, <1>8 DEF StageOK, RotationOK
  <2>2. LinkOK(c)'
    BY <1>1, <1>2, <1>3, <1>6, <1>7, <1>8, RowsApart DEF RequestOK, LinkOK
  <2>3. SeenOK(c)'
    BY <1>1, <1>3, <1>6, <1>7, <1>8 DEF RequestOK, SeenOK, Issued
  <2> QED
    BY <2>1, <2>2, <2>3 DEF RequestOK
<1>11. /\ c \notin Issuers' /\ c \notin Registrants'
       /\ ~At(c, {"register"}, "issue")'
       /\ req'[c].got.refresh \in Issued \cup {None}
  BY <1>3, <1>7, <1>8 DEF Issuers, Registrants, At, SessionsIInv, NamesOK
<1> QED
  BY <1>1, <1>2, <1>8, <1>9, <1>10, <1>11, QuietStep

\* The UPDATE of the links fixes its rows: all of them were inserted.
LEMMA SupersedeOK ==
    ASSUME SessionsIInv, NEW c \in Conn, Supersede(c)
    PROVE  SessionsIInv'
<1> DEFINE open == LinkRows(OpenLinks(Purpose(req[c].kind)))
           new == [req[c] EXCEPT !.at = "linking", !.want = @ \cup open]
<1>1. /\ \/ req[c].at = "links"
         \/ req[c].at = "revoking" /\ req[c].kind = "reset"
      /\ UNCHANGED <<user, token, link, cookie, lock>>
  BY DEF Supersede
<1>2. /\ req[c] \in ReqShape /\ req \in [Conn -> ReqShape]
      /\ user \in UserShape
  BY DEF SessionsIInv, ShapesOK
<1>3. /\ RequestOK(c) /\ req[c].kind \in {"verify", "reset"}
  BY <1>1 DEF SessionsIInv, RequestOK, StageOK
<1>4. req' = [req EXCEPT ![c] = new]
  BY <1>2 DEF Supersede
<1>5. /\ open \subseteq Rows
      /\ \A l \in Link : <<"link", l>> \in open
                         <=> link[l].purpose = Purpose(req[c].kind)
      /\ \A t \in Token : <<"token", t>> \notin open
      /\ Purpose(req[c].kind) # "none"
      /\ req[c].kind = "reset" => Purpose(req[c].kind) = "password_reset"
  <2>1. OpenLinks(Purpose(req[c].kind)) \in SUBSET Link
    BY DEF OpenLinks
  <2>2. /\ Purpose(req[c].kind) # "none"
        /\ req[c].kind = "reset" => Purpose(req[c].kind) = "password_reset"
    BY DEF Purpose
  <2> QED
    BY <2>1, <2>2, RowSets DEF OpenLinks
<1> HIDE DEF open
<1>6. /\ new \in ReqShape /\ new.at = "linking"
      /\ new.want = req[c].want \cup open
      /\ new.kind = req[c].kind /\ new.arg = req[c].arg
      /\ new.seen = req[c].seen /\ new.got = req[c].got
  BY <1>2, <1>5 DEF ReqShape, Stages
<1> HIDE DEF new
<1>7. Alone(c) /\ req'[c] = new
  BY <1>2, <1>4, <1>6 DEF Alone
<1>8. LocksMove(c)
  BY <1>1, <1>6, <1>7, NoLockMoves DEF Holding
<1>9. RequestOK(c)'
  <2>1. StageOK(c)' /\ RotationOK(c)'
    BY <1>3, <1>6, <1>7 DEF StageOK, RotationOK
  <2>2. LinkOK(c)'
    BY <1>1, <1>3, <1>5, <1>6, <1>7 DEF RequestOK, LinkOK, NoLink
  <2>3. SeenOK(c)'
    <3>1. CASE req[c].kind = "verify"
      BY <1>6, <1>7, <3>1 DEF SeenOK
    <3>2. CASE req[c].kind = "reset"
      <4>1. req[c].at = "revoking"
        BY <1>1, <1>3, <3>2 DEF RequestOK, StageOK
      <4>2. \A t \in Token : <<"token", t>> \in req[c].seen =>
               t \in Issued /\ (<<"token", t>> \in new.want \/ token[t].over)
        BY <1>3, <1>6, <3>2, <4>1 DEF RequestOK, SeenOK
      <4>3. \A l \in Link : <<"link", l>> \in req[c].seen =>
               link[l] = Closed \/ <<"link", l>> \in new.want
        BY <1>3, <1>5, <1>6, <3>2, <4>1 DEF RequestOK, SeenOK
      <4> QED
        BY <1>1, <1>6, <1>7, <4>2, <4>3 DEF SeenOK, Issued
    <3> QED
      BY <1>3, <3>1, <3>2
  <2> QED
    BY <2>1, <2>2, <2>3 DEF RequestOK
<1>10. /\ c \notin Issuers' /\ c \notin Registrants'
       /\ ~At(c, {"register"}, "issue")'
       /\ req'[c].got.refresh \in Issued \cup {None}
  BY <1>3, <1>6, <1>7 DEF Issuers, Registrants, At, SessionsIInv, NamesOK
<1> QED
  BY <1>1, <1>2, <1>7, <1>8, <1>9, <1>10, QuietStep

\* Rows are locked for an UPDATE.
LEMMA LockTargetsOK ==
    ASSUME SessionsIInv, NEW c \in Conn, LockTargets(c)
    PROVE  SessionsIInv'
<1>1. /\ req[c].at \in {"revoking", "linking"}
      /\ lock' = [r \in Rows |-> IF r \in req[c].want /\ lock[r] = None
                                 THEN c ELSE lock[r]]
      /\ UNCHANGED <<user, token, link, cookie, req>>
  BY DEF LockTargets
<1>2. /\ lock \in [Rows -> Conn \cup {None}] /\ user \in UserShape
      /\ RequestOK(c) /\ req \in [Conn -> ReqShape]
  BY DEF SessionsIInv, ShapesOK
<1>3. Alone(c)
  BY <1>1, <1>2 DEF Alone
<1>4. LocksMove(c)
  BY <1>1, <1>2 DEF LocksMove, Holding
<1>5. RequestOK(c)'
  BY <1>1, <1>2, RowsApart
  DEF RequestOK, StageOK, RotationOK, LinkOK, SeenOK, Issued
<1>6. /\ c \notin Issuers' /\ c \notin Registrants'
      /\ ~At(c, {"register"}, "issue")'
      /\ req'[c].got.refresh \in Issued \cup {None}
  BY <1>1 DEF Issuers, Registrants, At, SessionsIInv, NamesOK
<1> QED
  BY <1>1, <1>2, <1>3, <1>4, <1>5, <1>6, QuietStep

\* The COMMIT of a transaction that ends sessions: it revokes and closes rows
\* it has locked.
LEMMA CommitEffect ==
    ASSUME SessionsIInv, NEW c \in Conn, Commit(c)
    PROVE  /\ req[c].at = IF req[c].kind \in {"verify", "reset"}
                          THEN "linking" ELSE "revoking"
           /\ LinksMove(c) /\ TokensMove(c) /\ UNCHANGED cookie
           /\ user' \in UserShape /\ user'.exists = user.exists
           /\ user'.verified => user.verified \/ req[c].kind = "verify"
           /\ \A t \in Token :
                 <<"token", t>> \in req[c].want \/ token[t].over
                 => token'[t].over
           /\ \A l \in Link :
                 <<"link", l>> \in req[c].want \/ link[l] = Closed
                 => link'[l] = Closed
           /\ req[c].kind = "verify" => Done(c)
           /\ req[c].kind # "verify" => Answer(c, "clear", NoCookies)
<1>1. /\ req[c].at = IF req[c].kind \in {"verify", "reset"}
                     THEN "linking" ELSE "revoking"
      /\ \A r \in req[c].want : lock[r] = c
      /\ token' = Revoked(c) /\ UNCHANGED cookie
      /\ req[c].kind = "verify" => Done(c)
      /\ req[c].kind # "verify" => Answer(c, "clear", NoCookies)
  BY DEF Commit
<1>2. link' = [l \in Link |->
                 IF \/ <<"link", l>> \in req[c].want
                    \/ l = req[c].arg /\ req[c].kind \in {"verify", "reset"}
                 THEN Closed ELSE link[l]]
  BY DEF Commit
<1>3. user' = [user EXCEPT
                 !.sv = IF req[c].kind \in {"logout", "reset"} THEN @ + 1
                                                               ELSE @,
                 !.pw = IF req[c].kind = "reset" THEN @ + 1 ELSE @,
                 !.verified = @ \/ req[c].kind = "verify"]
  BY DEF Commit
<1>4. /\ link \in [Link -> LinkShape] /\ token \in [Token -> TokenShape]
      /\ user \in UserShape /\ RequestOK(c)
  BY DEF SessionsIInv, ShapesOK
<1>5. Closed \in LinkShape
  BY DEF Closed, LinkShape, Purposes, States
<1>6. LinksMove(c)
  <2>1. link' \in [Link -> LinkShape]
    BY <1>2, <1>4, <1>5
  <2>2. ASSUME NEW l \in Link, link'[l] # link[l]
        PROVE  link[l] # NoLink /\ link'[l] = Closed /\ lock[<<"link", l>>] = c
    BY <1>1, <1>2, <1>4, <2>2 DEF RequestOK, LinkOK
  <2> QED
    BY <2>1, <2>2 DEF LinksMove
<1>7. /\ token' \in [Token -> TokenShape]
      /\ \A t \in Token : /\ token'[t].family = token[t].family
                          /\ token'[t].consumed = token[t].consumed
  BY <1>1, <1>4 DEF Revoked, TokenShape
<1>8. \A t \in Token :
         /\ token'[t].over <=> token[t].over \/ <<"token", t>> \in req[c].want
         /\ <<"token", t>> \notin req[c].want => token'[t] = token[t]
  BY <1>1, <1>4 DEF Revoked, TokenShape
<1>9. TokensMove(c)
  BY <1>1, <1>7, <1>8, SessionsAssumption DEF TokensMove
<1>10. /\ user' \in UserShape /\ user'.exists = user.exists
       /\ user'.verified => user.verified \/ req[c].kind = "verify"
  <2> DEFINE sv == IF req[c].kind \in {"logout", "reset"} THEN user.sv + 1
                                                          ELSE user.sv
             pw == IF req[c].kind = "reset" THEN user.pw + 1 ELSE user.pw
             verified == user.verified \/ req[c].kind = "verify"
  <2>1. user' = [user EXCEPT !.sv = sv, !.pw = pw, !.verified = verified]
    BY <1>3, <1>4 DEF UserShape
  <2>2. sv \in Nat /\ pw \in Nat /\ verified \in BOOLEAN
    BY <1>4 DEF UserShape
  <2>3. verified => user.verified \/ req[c].kind = "verify"
    OBVIOUS
  <2> HIDE DEF sv, pw, verified
  <2> QED
    BY <1>4, <2>1, <2>2, <2>3 DEF UserShape
<1> QED
  BY <1>1, <1>2, <1>6, <1>8, <1>9, <1>10

LEMMA CommitOK ==
    ASSUME SessionsIInv, NEW c \in Conn, Commit(c)
    PROVE  SessionsIInv'
<1>1. /\ LinksMove(c) /\ TokensMove(c) /\ UNCHANGED cookie
      /\ user' \in UserShape /\ user'.exists = user.exists
      /\ user'.verified => user.verified \/ req[c].kind = "verify"
      /\ Done(c) \/ Answer(c, "clear", NoCookies)
      /\ req[c].kind = "verify" => req[c].at = "linking"
  BY CommitEffect
<1>2. user'.verified => user'.exists
  <2>1. req[c].kind = "verify" => user.exists
    BY <1>1 DEF SessionsIInv, RequestOK, LinkOK, AccountOK
  <2> QED
    BY <1>1, <2>1 DEF SessionsIInv, AccountOK
<1>3. /\ Alone(c) /\ LocksMove(c) /\ RequestOK(c)'
      /\ c \notin Issuers' /\ c \notin Registrants'
      /\ ~At(c, {"register"}, "issue")' /\ req'[c].got.refresh = None
  <2>1. CASE Done(c)
    BY <2>1, Finished, ReleaseMoves DEF Done
  <2>2. CASE Answer(c, "clear", NoCookies)
    <3>1. NoCookies \in Jar /\ NoCookies.refresh = None
      BY DEF NoCookies, Jar
    <3>2. /\ Alone(c) /\ LocksMove(c) /\ RequestOK(c)'
          /\ req'[c].at = "clear" /\ req'[c].got = NoCookies
          /\ c \notin Issuers' /\ c \notin Registrants'
      BY <2>2, <3>1, Answered
    <3> QED
      BY <3>1, <3>2 DEF At
  <2> QED
    BY <1>1, <2>1, <2>2
<1>4. /\ cookie' \in [Browser -> Jar]
      /\ \A b \in Browser : cookie'[b].refresh \in Issued \cup {None}
  BY <1>1 DEF SessionsIInv, ShapesOK, NamesOK
<1> QED
  BY <1>1, <1>2, <1>3, <1>4, RowStep
-----------------------------------------------------------------------------
\* A refresh token is inserted for a request that found room: it opens a
\* family, or takes the place of the only usable token of its family.
LEMMA TokenAdded ==
    ASSUME SessionsIInv, NEW c \in Conn, NEW f \in Issued \cup {NewToken},
           c \in Issuers, NewToken \in FreeTokens, NEW sv \in Nat \cup {None},
           Answer(c, "set", Signed(sv, NewToken)),
           UNCHANGED <<user, link, cookie>>,
           token' \in [Token -> TokenShape],
           token'[NewToken] = [NoToken EXCEPT !.family = f],
           \A t \in Token \ {NewToken} :
              /\ token'[t].family = token[t].family
              /\ token'[t].over <=> token[t].over
              /\ token[t].consumed => token'[t].consumed
              /\ lock[<<"token", t>>] # c => token'[t] = token[t]
              /\ t \in Live(token) /\ token[t].family = f => token'[t].consumed
    PROVE  SessionsIInv'
<1> DEFINE n == NewToken
<1>1. /\ n \in Token /\ n \notin Issued /\ n \in Nat \ {0}
      /\ token'[n].family = f /\ f # 0
  <2>1. Token \subseteq Nat \ {0} /\ Issued \subseteq Token
    BY SessionsAssumption DEF Token, Issued
  <2> QED
    BY <2>1 DEF FreeTokens, NoToken
<1> HIDE DEF n
<1>2. /\ Issued' = Issued \cup {n} /\ FreeTokens' = FreeTokens \ {n}
      /\ FreeLinks' = FreeLinks
  <2>1. \A t \in Token : token'[t].family # 0 <=> token[t].family # 0 \/ t = n
    BY <1>1 DEF n
  <2>2. Issued' = Issued \cup {n} /\ FreeLinks' = FreeLinks
    BY <1>1, <2>1 DEF Issued, FreeLinks
  <2> QED
    BY <2>2 DEF FreeTokens
<1>3. Signed(sv, n) \in Jar /\ Signed(sv, n).refresh = n
  BY <1>1 DEF Signed, Jar
<1>4. /\ Alone(c) /\ LocksMove(c) /\ RequestOK(c)'
      /\ req'[c].at = "set" /\ req'[c].got = Signed(sv, n)
      /\ c \notin Issuers' /\ c \notin Registrants'
  BY <1>3, Answered DEF n
<1>5. ShapesOK'
  BY <1>4 DEF SessionsIInv, ShapesOK, Alone, LocksMove
<1>6. LocksOK' /\ \A d \in Conn \ {c}, r \in Rows : lock[r] = d => lock'[r] = d
  BY <1>4, LocksKept
<1>7. NamesOK'
  <2>1. \A t \in Token : token'[t].family \in Issued' \cup {0}
    BY <1>1, <1>2 DEF SessionsIInv, NamesOK, n
  <2>2. \A b \in Browser : cookie'[b].refresh \in Issued' \cup {None}
    BY <1>2 DEF SessionsIInv, NamesOK
  <2>3. \A d \in Conn : req'[d].got.refresh \in Issued' \cup {None}
    BY <1>2, <1>3, <1>4 DEF SessionsIInv, NamesOK, Alone
  <2> QED
    BY <2>1, <2>2, <2>3 DEF NamesOK
<1>8. AccountOK'
  BY <1>4 DEF SessionsIInv, AccountOK, Alone, At
<1>9. RoomOK'
  <2>1. /\ Issuers' \subseteq Issuers \ {c}
        /\ Registrants' \subseteq Registrants
    BY <1>4 DEF Alone, Issuers, Registrants, At
  <2>2. Cardinality(FreeTokens \ {n}) >= Cardinality(Issuers \ {c})
    BY FiniteRoom, OneTakesOne DEF SessionsIInv, RoomOK, n
  <2>3. /\ Cardinality(Issuers') <= Cardinality(Issuers \ {c})
        /\ Cardinality(Issuers') \in Nat /\ Cardinality(Issuers \ {c}) \in Nat
        /\ Cardinality(FreeTokens \ {n}) \in Nat
    <3>1. IsFiniteSet(Issuers \ {c}) /\ IsFiniteSet(FreeTokens \ {n})
      BY FiniteRoom, FS_RemoveElement
    <3> QED
      BY <2>1, <3>1, FS_Subset, FS_CardinalityType
  <2>4. /\ Cardinality(Registrants') <= Cardinality(Registrants)
        /\ Cardinality(Registrants') \in Nat
        /\ Cardinality(Registrants) \in Nat /\ Cardinality(FreeLinks) \in Nat
    BY <2>1, FiniteRoom, FS_Subset, FS_CardinalityType
  <2>5. Cardinality(FreeLinks) >= Cardinality(Registrants)
    BY DEF SessionsIInv, RoomOK
  <2> QED
    BY <1>2, <2>2, <2>3, <2>4, <2>5 DEF RoomOK
<1>10. ASSUME NEW d \in Conn \ {c} PROVE Respects(d)
  <2>1. /\ req'[d] = req[d]
        /\ \A r \in Rows : lock[r] = d => lock'[r] = d
    BY <1>4, <1>6 DEF Alone
  <2>2. ASSUME NEW t \in Token
        PROVE  /\ token[t].family # 0 => token'[t].family # 0
               /\ token[t].family # 0 /\ token[t].over => token'[t].over
               /\ lock[<<"token", t>>] = d /\ t \in Live(token)
                  => t \in Live(token')
    <3>1. CASE t = n
      BY <1>1, <3>1 DEF Issued, Live
    <3>2. CASE t # n
      BY <3>2 DEF Live, n
    <3> QED
      BY <3>1, <3>2
  <2> QED
    BY <2>1, <2>2 DEF Respects
<1>11. \A d \in Conn : RequestOK(d)'
  BY <1>4, <1>10, OthersKept
<1>12. OneHeadPerFamily'
  <2>1. \A t \in Token \ {n} : t \in Live(token') =>
           t \in Live(token) /\ token'[t].family = token[t].family
                             /\ token[t].family # f
    BY DEF Live, n
  <2> QED
    BY <1>1, <2>1 DEF SessionsIInv, OneHeadPerFamily, Live
<1> QED
  BY <1>5, <1>6, <1>7, <1>8, <1>9, <1>11, <1>12 DEF SessionsIInv

\* Room for a request is room for its token.
LEMMA IssuerFinds ==
    ASSUME SessionsIInv, NEW c \in Issuers
    PROVE  NewToken \in FreeTokens
<1>1. Cardinality(Issuers) # 0 /\ Cardinality(Issuers) \in Nat
  BY FiniteRoom, FS_EmptySet, FS_CardinalityType
<1>2. Cardinality(FreeTokens) # 0
  BY <1>1, FiniteRoom, FS_CardinalityType DEF SessionsIInv, RoomOK
<1> QED
  BY <1>2, FiniteRoom, FS_EmptySet, NewTokenFree

\* A login starts a family of its own.
LEMMA IssueTokenOK ==
    ASSUME SessionsIInv, NEW c \in Conn, IssueToken(c)
    PROVE  SessionsIInv'
<1> DEFINE n == NewToken
           new == [NoToken EXCEPT !.family = n]
<1>1. /\ At(c, {"login"}, "issue")
      /\ token' = [token EXCEPT ![n] = new]
      /\ Answer(c, "set", Signed(req[c].sv, n))
      /\ UNCHANGED <<user, link, cookie>>
  BY DEF IssueToken
<1>2. c \in Issuers /\ n \in FreeTokens
  <2>1. c \in Issuers
    BY <1>1 DEF Issuers
  <2> QED
    BY <2>1, IssuerFinds
<1>3. req[c].sv \in Nat \cup {None} /\ token \in [Token -> TokenShape]
  BY DEF SessionsIInv, ShapesOK, ReqShape
<1>4. \A t \in Token : token[t].family # n
  <2>1. n \notin Issued \cup {0}
    BY <1>2, SessionsAssumption DEF FreeTokens, Token
  <2> QED
    BY <2>1 DEF SessionsIInv, NamesOK
<1>5. n \in Token /\ new \in TokenShape
  BY <1>2 DEF FreeTokens, NoToken, TokenShape
<1> HIDE DEF new
<1>6. /\ token' \in [Token -> TokenShape] /\ token'[n] = new
      /\ \A t \in Token \ {n} : token'[t] = token[t]
  BY <1>1, <1>3, <1>5
<1> USE DEF new
<1> QED
  BY <1>1, <1>2, <1>3, <1>4, <1>6, TokenAdded

\* A refresh reads its token under its row lock: it goes on with a usable one,
\* and revokes the family of one that was used before.
LEMMA RotateOK ==
    ASSUME SessionsIInv, NEW c \in Conn, Rotate(c)
    PROVE  SessionsIInv'
<1> DEFINE t == req[c].arg
           family == {f \in Issued : token[f].family = token[t].family
                                     /\ ~token[f].over}
           at == IF token[t].consumed THEN "revoking" ELSE "rotated"
           want == IF token[t].consumed THEN TokenRows(family) ELSE {}
           new == [req[c] EXCEPT !.at = at, !.want = want, !.sv = user.sv]
<1>1. /\ req[c].at = "rotate" /\ UNCHANGED <<user, token, link, cookie>>
  BY DEF Rotate
<1>2. /\ req[c] \in ReqShape /\ req \in [Conn -> ReqShape]
      /\ token \in [Token -> TokenShape] /\ user \in UserShape
      /\ lock \in [Rows -> Conn \cup {None}]
  BY DEF SessionsIInv, ShapesOK
<1>3. RequestOK(c) /\ req[c].kind = "refresh" /\ t \in Issued /\ t \in Token
  BY <1>1 DEF SessionsIInv, RequestOK, StageOK, RotationOK, Issued
<1>4. CASE token[t].over
  BY <1>1, <1>4, EndStep DEF Rotate
<1>5. CASE ~token[t].over
  <2>1. /\ lock[<<"token", t>>] \in {None, c}
        /\ lock' = [lock EXCEPT ![<<"token", t>>] = c]
    BY <1>5 DEF Rotate, Lock
  <2>2. req' = [req EXCEPT ![c] = new]
    BY <1>2, <1>5 DEF Rotate
  <2>3. want \subseteq Rows /\ \A l \in Link : <<"link", l>> \notin want
    <3>1. family \in SUBSET Token
      BY DEF Issued
    <3> QED
      BY <3>1, RowSets
  <2>4. /\ at \in {"revoking", "rotated"}
        /\ at = "rotated" => t \in Live(token)
    BY <1>2, <1>3, <1>5 DEF Live, Issued, TokenShape
  <2> HIDE DEF want, at
  <2>5. /\ new \in ReqShape /\ new.at = at /\ new.want = want
        /\ new.kind = "refresh" /\ new.arg = t /\ new.got = req[c].got
    BY <1>2, <1>3, <2>3, <2>4 DEF ReqShape, Stages, UserShape
  <2> HIDE DEF new
  <2>6. Alone(c) /\ req'[c] = new
    BY <1>2, <2>2, <2>5 DEF Alone
  <2>7. <<"token", t>> \in Rows
    BY <1>3, RowsApart
  <2>8. LocksMove(c)
    BY <1>2, <2>1, <2>4, <2>5, <2>6, <2>7 DEF LocksMove, Holding
  <2>9. RequestOK(c)'
    <3>1. StageOK(c)' /\ LinkOK(c)' /\ SeenOK(c)'
      BY <2>3, <2>4, <2>5, <2>6 DEF StageOK, LinkOK, SeenOK
    <3>2. Issued' = Issued /\ Live(token)' = Live(token)
      BY <1>1 DEF Issued, Live
    <3>3. RotationOK(c)'
      BY <1>2, <1>3, <2>1, <2>4, <2>5, <2>6, <2>7, <3>2 DEF RotationOK
    <3> QED
      BY <3>1, <3>3 DEF RequestOK
  <2>10. /\ c \in Issuers /\ c \notin Registrants'
         /\ ~At(c, {"register"}, "issue")'
         /\ req'[c].got.refresh \in Issued \cup {None}
    BY <1>1, <2>5, <2>6 DEF Issuers, Registrants, At, SessionsIInv, NamesOK
  <2> QED
    BY <1>1, <1>2, <2>6, <2>8, <2>9, <2>10, QuietStep
<1> QED
  BY <1>4, <1>5

\* The next token takes the place of the one that is consumed.
LEMMA CommitRotateOK ==
    ASSUME SessionsIInv, NEW c \in Conn, CommitRotate(c)
    PROVE  SessionsIInv'
<1> DEFINE t == req[c].arg
           n == NewToken
           f == token[t].family
           new == [NoToken EXCEPT !.family = f]
           used == [token[t] EXCEPT !.consumed = TRUE]
<1>1. /\ req[c].at = "rotated"
      /\ token' = [token EXCEPT ![t].consumed = TRUE, ![n] = new]
      /\ Answer(c, "set", Signed(req[c].sv, n))
      /\ UNCHANGED <<user, link, cookie>>
  BY DEF CommitRotate
<1>2. c \in Issuers /\ n \in FreeTokens
  <2>1. c \in Issuers
    BY <1>1 DEF Issuers
  <2> QED
    BY <2>1, IssuerFinds
<1>3. req[c].sv \in Nat \cup {None} /\ token \in [Token -> TokenShape]
  BY DEF SessionsIInv, ShapesOK, ReqShape
<1>4. /\ t \in Issued /\ t \in Token /\ t \in Live(token) /\ t # n
      /\ lock[<<"token", t>>] = c
  BY <1>1, <1>2
  DEF SessionsIInv, RequestOK, RotationOK, Live, Issued, FreeTokens
<1>5. f \in Issued /\ f \in Token
  BY <1>3, <1>4 DEF SessionsIInv, NamesOK, Live, Issued, TokenShape
<1>6. n \in Token /\ new \in TokenShape
  BY <1>2, <1>5 DEF FreeTokens, NoToken, TokenShape
<1>7. /\ used \in TokenShape /\ used.consumed /\ used.family = token[t].family
      /\ used.over = token[t].over
  BY <1>3, <1>4 DEF TokenShape
<1>8. token' = [token EXCEPT ![t] = used, ![n] = new]
  BY <1>1, <1>3, <1>4
<1> HIDE DEF new, used
<1>9. /\ token' \in [Token -> TokenShape] /\ token'[n] = new
      /\ token'[t] = used
      /\ \A s \in Token \ {n, t} : token'[s] = token[s]
  BY <1>3, <1>4, <1>6, <1>7, <1>8
<1>10. \A s \in Live(token) : token[s].family = f => s = t
  BY <1>4 DEF SessionsIInv, OneHeadPerFamily
<1>11. ASSUME NEW s \in Token \ {n}
       PROVE  /\ token'[s].family = token[s].family
              /\ token'[s].over <=> token[s].over
              /\ token[s].consumed => token'[s].consumed
              /\ lock[<<"token", s>>] # c => token'[s] = token[s]
              /\ s \in Live(token) /\ token[s].family = f => token'[s].consumed
  <2> HIDE DEF f
  <2>1. CASE s = t
    BY <1>4, <1>7, <1>9, <2>1
  <2>2. CASE s # t
    BY <1>9, <1>10, <2>2
  <2> QED
    BY <2>1, <2>2
<1>12. token'[n] = [NoToken EXCEPT !.family = f]
  BY <1>9 DEF new
<1> HIDE DEF f, t
<1>13. \A s \in Token \ {NewToken} :
          /\ token'[s].family = token[s].family
          /\ token'[s].over <=> token[s].over
          /\ token[s].consumed => token'[s].consumed
          /\ lock[<<"token", s>>] # c => token'[s] = token[s]
          /\ s \in Live(token) /\ token[s].family = f => token'[s].consumed
  BY <1>11
<1>14. /\ Answer(c, "set", Signed(req[c].sv, NewToken))
       /\ UNCHANGED <<user, link, cookie>>
       /\ c \in Issuers /\ NewToken \in FreeTokens
       /\ req[c].sv \in Nat \cup {None}
       /\ f \in Issued \cup {NewToken}
       /\ token' \in [Token -> TokenShape]
       /\ token'[NewToken] = [NoToken EXCEPT !.family = f]
  BY <1>1, <1>2, <1>3, <1>5, <1>9, <1>12
<1> QED
  BY <1>13, <1>14, TokenAdded

\* An access cookie expires; its refresh token stays in the browser.
LEMMA CookieExpires ==
    ASSUME SessionsIInv, NEW b \in Browser,
           cookie' = [cookie EXCEPT ![b].access = None],
           UNCHANGED <<user, token, link, req, lock>>
    PROVE  SessionsIInv'
<1>1. /\ cookie' \in [Browser -> Jar]
      /\ \A a \in Browser : cookie'[a].refresh = cookie[a].refresh
  BY DEF SessionsIInv, ShapesOK, Jar
<1>2. ShapesOK' /\ LocksOK' /\ AccountOK'
  BY <1>1 DEF SessionsIInv, ShapesOK, LocksOK, AccountOK, At
<1>3. NamesOK'
  BY <1>1 DEF SessionsIInv, NamesOK, Issued
<1>4. RoomOK' /\ OneHeadPerFamily'
  BY DEF SessionsIInv, RoomOK, FreeTokens, FreeLinks, Issued, Issuers,
         Registrants, At, OneHeadPerFamily, Live
<1>5. \A d \in Conn : Respects(d)
  BY DEF Respects, Live
<1>6. \A d \in Conn : RequestOK(d)'
  BY <1>5, OthersKept
<1> QED
  BY <1>2, <1>3, <1>4, <1>6 DEF SessionsIInv

\* A link expires that no transaction has locked.
LEMMA LinkExpires ==
    ASSUME SessionsIInv, NEW l \in Link, link[l].purpose # "none",
           lock[<<"link", l>>] = None, link' = [link EXCEPT ![l] = Closed],
           UNCHANGED <<user, token, cookie, req, lock>>
    PROVE  SessionsIInv'
<1>1. Closed \in LinkShape /\ Closed # NoLink /\ link[l] # NoLink
  BY DEF Closed, NoLink, LinkShape, Purposes, States
<1>2. /\ link' \in [Link -> LinkShape] /\ link'[l] = Closed
      /\ \A k \in Link \ {l} : link'[k] = link[k]
  BY <1>1 DEF SessionsIInv, ShapesOK
<1>3. ShapesOK' /\ LocksOK'
  BY <1>2 DEF SessionsIInv, ShapesOK, LocksOK
<1>4. NamesOK' /\ OneHeadPerFamily'
  BY DEF SessionsIInv, NamesOK, OneHeadPerFamily, Live, Issued
<1>5. AccountOK'
  BY <1>1, <1>2 DEF SessionsIInv, AccountOK, At
<1>6. FreeLinks' = FreeLinks
  BY <1>1, <1>2 DEF FreeLinks
<1>7. RoomOK'
  BY <1>6
  DEF SessionsIInv, RoomOK, FreeTokens, Issued, Issuers, Registrants, At
<1>8. ASSUME NEW d \in Conn PROVE Respects(d)
  <2>1. d # None
    BY SessionsAssumption
  <2>2. ASSUME NEW k \in Link
        PROVE  /\ link[k] # NoLink => link'[k] # NoLink
               /\ link[k] = Closed => link'[k] = Closed
               /\ link[k].purpose = "password_reset" =>
                     link'[k].purpose = "password_reset" \/ link'[k] = Closed
               /\ lock[<<"link", k>>] = d /\ link[k] # Closed
                  => link'[k] # Closed
    BY <1>1, <1>2, <2>1
  <2> QED
    BY <2>2 DEF Respects, Live
<1>9. \A d \in Conn : RequestOK(d)'
  BY <1>8, OthersKept
<1> QED
  BY <1>3, <1>4, <1>5, <1>7, <1>9 DEF SessionsIInv

\* No account, token, link or request.
LEMMA SessionsInitOK == SessionsInit => SessionsIInv
<1> SUFFICES ASSUME SessionsInit PROVE SessionsIInv
  OBVIOUS
<1>1. /\ Idle \in ReqShape /\ NoCookies \in Jar /\ NoToken \in TokenShape
      /\ NoLink \in LinkShape
  BY DEF Idle, ReqShape, Stages, Kinds, Jar, NoCookies, NoToken, TokenShape,
         NoLink, LinkShape, Purposes, States
<1>2. user \in UserShape
  BY DEF SessionsInit, UserShape
<1>3. ShapesOK
  BY <1>1, <1>2 DEF SessionsInit, ShapesOK
<1>4. Issued = {} /\ Issuers = {} /\ Registrants = {}
  BY DEF SessionsInit, Issued, NoToken, Issuers, Registrants, Idle, At
<1>5. LocksOK /\ NamesOK /\ AccountOK
  BY DEF SessionsInit, LocksOK, NamesOK, AccountOK, NoToken, NoCookies, Idle,
         At
<1>6. RoomOK
  BY <1>4, FiniteRoom, FS_EmptySet, FS_CardinalityType DEF RoomOK
<1>7. \A c \in Conn : RequestOK(c)
  BY DEF SessionsInit, RequestOK, StageOK, RotationOK, LinkOK, SeenOK, Idle
<1>8. OneHeadPerFamily
  BY DEF SessionsInit, OneHeadPerFamily, Live, NoToken
<1> QED
  BY <1>3, <1>5, <1>6, <1>7, <1>8 DEF SessionsIInv

\* Nothing changes.
LEMMA SessionsStutterOK ==
    ASSUME SessionsIInv, UNCHANGED vars
    PROVE  SessionsIInv'
<1> USE DEF vars
<1>1. ShapesOK' /\ LocksOK' /\ AccountOK' /\ NamesOK'
  BY DEF SessionsIInv, ShapesOK, LocksOK, AccountOK, NamesOK, Issued, At
<1>2. RoomOK' /\ OneHeadPerFamily'
  BY DEF SessionsIInv, RoomOK, FreeTokens, FreeLinks, Issued, Issuers,
         Registrants, At, OneHeadPerFamily, Live
<1>3. \A d \in Conn : Respects(d)
  BY DEF Respects, Live
<1>4. \A d \in Conn : RequestOK(d)'
  BY <1>3, OthersKept
<1> QED
  BY <1>1, <1>2, <1>4 DEF SessionsIInv

\* Every step of the requests, the browsers and the clock keeps SessionsIInv.
LEMMA SessionsNextOK == SessionsIInv /\ [SessionsNext]_vars => SessionsIInv'
<1> SUFFICES ASSUME SessionsIInv, [SessionsNext]_vars PROVE SessionsIInv'
  OBVIOUS
<1>1. CASE Expire
  BY <1>1, CookieExpires, LinkExpires DEF Expire
<1>2. ASSUME NEW c \in Conn, NEW b \in Browser, Send(c, b)
      PROVE  SessionsIInv'
  BY <1>2, SendQuiet, SendLinkOK, SendMailOK DEF Send, Submit, AccountAction
<1>3. ASSUME NEW c \in Conn, Step(c) PROVE SessionsIInv'
  BY <1>3, InsertOK, IssueLinkOK, MailOK, IssueTokenOK, LockUserOK,
     SupersedeOK, LockTargetsOK, CommitOK, RotateOK, CommitRotateOK,
     ReceiveOK, FaultOK
  DEF Step
<1>4. ASSUME NEW c \in Conn, Fault(c) PROVE SessionsIInv'
  BY <1>4, FaultOK
<1>5. CASE UNCHANGED vars
  BY <1>5, SessionsStutterOK
<1> QED
  BY <1>1, <1>2, <1>3, <1>4, <1>5 DEF SessionsNext
-----------------------------------------------------------------------------
\* SessionsIInv holds in every reachable state of routes/auth.js and of the
\* browsers that use it.
THEOREM SessionsInvariant == SessionsSpec => []SessionsIInv
  BY SessionsInitOK, SessionsNextOK, PTL DEF SessionsSpec

\* SessionsInv: however many tabs present the same cookie to
\* rotateRefreshToken at once, a family has at most one usable token.
THEOREM SessionsSafe == SessionsSpec => []SessionsInv
<1>1. SessionsIInv => SessionsInv
  <2> SUFFICES ASSUME SessionsIInv PROVE SessionsInv
    OBVIOUS
  <2>1. SessionsTypeOK
    BY DEF SessionsIInv, ShapesOK, UserShape, NamesOK, AccountOK, LocksOK,
           Holding, SessionsTypeOK
  <2> QED
    BY <2>1 DEF SessionsIInv, SessionsInv
<1> QED
  BY <1>1, SessionsInvariant, PTL
-----------------------------------------------------------------------------
\* A token that is usable after a step was usable before, or replaces one of
\* its family that was, or starts a family.
LEMMA UsableTokens ==
    ASSUME SessionsIInv, [SessionsNext]_vars, NEW t \in Live(token')
    PROVE  \/ token'[t].family \notin Issued
           \/ \E s \in Live(token) : token[s].family = token'[t].family
<1>1. t \in Token /\ token \in [Token -> TokenShape]
  BY DEF Live, SessionsIInv, ShapesOK
<1>2. CASE UNCHANGED token
  BY <1>2 DEF Live
<1>3. ASSUME NEW c \in Conn, IssueToken(c)
      PROVE  \/ token'[t].family \notin Issued
             \/ \E s \in Live(token) : token[s].family = token'[t].family
  <2>1. c \in Issuers
    BY <1>3 DEF IssueToken, Issuers
  <2>2. NewToken \in Token /\ NewToken \notin Issued
    BY <2>1, IssuerFinds DEF FreeTokens
  <2>3. token' = [token EXCEPT
                    ![NewToken] = [NoToken EXCEPT !.family = NewToken]]
    BY <1>3 DEF IssueToken
  <2>4. CASE t = NewToken
    BY <1>1, <2>2, <2>3, <2>4 DEF NoToken
  <2>5. CASE t # NewToken
    BY <1>1, <2>3, <2>5 DEF Live
  <2> QED
    BY <2>4, <2>5
<1>4. ASSUME NEW c \in Conn, CommitRotate(c)
      PROVE  \E s \in Live(token) : token[s].family = token'[t].family
  <2> DEFINE r == req[c].arg
  <2>1. c \in Issuers /\ r \in Live(token) /\ r \in Token
    BY <1>4
    DEF CommitRotate, Issuers, SessionsIInv, RequestOK, RotationOK, Live
  <2>2. NewToken \in Token
    BY <2>1, IssuerFinds DEF FreeTokens
  <2>3. token' = [token EXCEPT ![r].consumed = TRUE,
                    ![NewToken] = [NoToken EXCEPT !.family = token[r].family]]
    BY <1>4 DEF CommitRotate
  <2> HIDE DEF r
  <2>4. CASE t = NewToken
    BY <1>1, <2>1, <2>2, <2>3, <2>4 DEF NoToken
  <2>5. CASE t = r /\ t # NewToken
    BY <1>1, <2>1, <2>3, <2>5 DEF Live, TokenShape
  <2>6. CASE t \notin {r, NewToken}
    BY <1>1, <2>3, <2>6 DEF Live
  <2> QED
    BY <2>4, <2>5, <2>6
<1>5. ASSUME NEW c \in Conn, Commit(c)
      PROVE  \E s \in Live(token) : token[s].family = token'[t].family
  BY <1>1, <1>5, CommitEffect DEF TokensMove, Live
<1>6. ASSUME NEW c \in Conn, NEW b \in Browser, Send(c, b)
      PROVE  UNCHANGED token
  BY <1>6
  DEF Send, Submit, AccountAction, SendRegister, SendLogin, SendForgot,
      SendLink, SendResend, SendCall, SendRefresh, SendLogout, Start
<1>7. ASSUME NEW c \in Conn, Step(c) \/ Fault(c)
      PROVE  UNCHANGED token \/ IssueToken(c) \/ CommitRotate(c) \/ Commit(c)
  BY <1>7
  DEF Step, Insert, IssueLink, Mail, LockUser, Supersede, LockTargets, Rotate,
      Receive, Victim, Fault, RollBack
<1>8. Expire \/ UNCHANGED vars => UNCHANGED token
  BY DEF Expire, vars
<1> QED
  BY <1>2, <1>3, <1>4, <1>5, <1>6, <1>7, <1>8 DEF SessionsNext

\* SpentStaysSpent: neither a family of refresh tokens that was revoked or
\* replayed nor a link that consumeAccountToken has used comes back through a
\* request that was under way.
THEOREM SpentForGood == SessionsSpec => SpentStaysSpent
<1>1. SessionsIInv /\ [SessionsNext]_vars =>
         \A f \in Issued :
            (\A t \in Live(token) : token[t].family # f)
            => \A t \in Live(token') : token'[t].family # f
  <2> SUFFICES ASSUME SessionsIInv, [SessionsNext]_vars, NEW f \in Issued,
                      \A t \in Live(token) : token[t].family # f,
                      NEW t \in Live(token')
               PROVE  token'[t].family # f
    OBVIOUS
  <2> QED
    BY UsableTokens
<1>2. SessionsIInv => \A c \in Conn : req[c].at = "linking"
                                      => link[req[c].arg] # Closed
  BY DEF SessionsIInv, RequestOK, StageOK, LinkOK
<1>3. SessionsSpec => DeadFamiliesStayDead
  BY <1>1, SessionsInvariant, PTL DEF SessionsSpec, DeadFamiliesStayDead
<1>4. SessionsSpec => LinksWorkOnce
  <2>1. SessionsIInv => [\A c \in Conn : req[c].at = "linking" /\ user' # user
                                         => link[req[c].arg] # Closed]_vars
    BY <1>2
  <2> QED
    BY <2>1, SessionsInvariant, PTL DEF LinksWorkOnce
<1> QED
  BY <1>3, <1>4 DEF SpentStaysSpent

\* Only its COMMIT ends a logout or a reset with success.
LEMMA EndsByCommit ==
    ASSUME SessionsIInv, [SessionsNext]_vars, NEW c \in Conn, Ends(c)
    PROVE  Commit(c)
<1>1. /\ req[c].kind \in {"logout", "reset"} /\ req[c].at # "clear"
      /\ req'[c].at = "clear"
  BY DEF Ends
<1>2. req[c] \in ReqShape /\ req \in [Conn -> ReqShape] /\ StageOK(c)
  BY DEF SessionsIInv, ShapesOK, RequestOK
<1>3. req'[c] # req[c]
  BY <1>1
<1>4. ASSUME NEW d \in Conn, NEW b \in Browser, Send(d, b) PROVE FALSE
  <2>1. PICK new : req[d] = Idle /\ req' = [req EXCEPT ![d] = new]
    BY <1>4
    DEF Send, Submit, AccountAction, SendRegister, SendLogin, SendForgot,
        SendLink, SendResend, SendCall, SendRefresh, SendLogout, Start
  <2> QED
    BY <1>1, <1>2, <1>3, <2>1 DEF Idle
<1>5. ASSUME NEW d \in Conn \ {c}, Step(d) \/ Fault(d) PROVE req'[c] = req[c]
  BY <1>2, <1>5
  DEF Step, Insert, IssueLink, Mail, IssueToken, LockUser, Supersede,
      LockTargets, Commit, Rotate, CommitRotate, Receive, Victim, Fault,
      RollBack, Next, Done, Answer
<1>6. CASE Step(c) \/ Fault(c)
  <2>1. CASE Insert(c) \/ IssueLink(c) \/ IssueToken(c)
    BY <1>1, <2>1 DEF Insert, IssueLink, IssueToken, At
  <2>2. CASE Rotate(c) \/ CommitRotate(c)
    BY <1>1, <1>2, <2>2 DEF Rotate, CommitRotate, StageOK
  <2>3. CASE Mail(c) \/ Receive(c)
    BY <1>1, <1>2, <2>3 DEF Mail, Receive, Done, Idle
  <2>4. CASE LockUser(c)
    BY <1>1, <1>2, <2>4 DEF LockUser
  <2>5. CASE Supersede(c) \/ LockTargets(c)
    <3>1. CASE LockTargets(c)
      BY <1>3, <3>1 DEF LockTargets
    <3>2. CASE Supersede(c)
      <4> DEFINE more == req[c].want
                         \cup LinkRows(OpenLinks(Purpose(req[c].kind)))
      <4>1. req' = [req EXCEPT ![c] = [req[c] EXCEPT !.at = "linking",
                                                     !.want = more]]
        BY <1>2, <3>2 DEF Supersede
      <4> HIDE DEF more
      <4> QED
        BY <1>1, <1>2, <4>1 DEF ReqShape
    <3> QED
      BY <2>5, <3>1, <3>2
  <2>6. CASE Victim(c) \/ Fault(c)
    BY <1>1, <1>2, <2>6 DEF Victim, Fault, RollBack, Done, Idle
  <2> QED
    BY <1>6, <2>1, <2>2, <2>3, <2>4, <2>5, <2>6 DEF Step
<1>7. Expire \/ UNCHANGED vars => req' = req
  BY DEF Expire, vars
<1> QED
  BY <1>3, <1>4, <1>5, <1>6, <1>7 DEF SessionsNext

\* KnownCredentialsDie: when logout or reset-password has committed, no refresh
\* token that was usable when it was sent can be used, and no reset link that
\* was open then, whatever rotations and resets overlapped it.
THEOREM CredentialsDie == SessionsSpec => KnownCredentialsDie
<1>1. ASSUME SessionsIInv, [SessionsNext]_vars, NEW c \in Conn, Ends(c)
      PROVE  /\ TokenRows(Live(token')) \cap req[c].seen = {}
             /\ req[c].kind = "reset" =>
                   \A l \in Link : <<"link", l>> \in req[c].seen
                                   => link'[l] = Closed
  <2>1. /\ req[c].kind \in {"logout", "reset"} /\ SeenOK(c)
        /\ req[c].seen \subseteq Rows
    BY <1>1 DEF Ends, SessionsIInv, RequestOK, ShapesOK, ReqShape
  <2>2. /\ req[c].at = IF req[c].kind \in {"verify", "reset"}
                       THEN "linking" ELSE "revoking"
        /\ \A t \in Token :
              <<"token", t>> \in req[c].want \/ token[t].over
              => token'[t].over
        /\ \A l \in Link :
              <<"link", l>> \in req[c].want \/ link[l] = Closed
              => link'[l] = Closed
    BY <1>1, EndsByCommit, CommitEffect
  <2>3. \A t \in Token : <<"token", t>> \in req[c].seen => token'[t].over
    BY <2>1, <2>2 DEF SeenOK
  <2>4. TokenRows(Live(token')) \cap req[c].seen = {}
    BY <2>3 DEF TokenRows, Live
  <2>5. req[c].kind = "reset" =>
           \A l \in Link : <<"link", l>> \in req[c].seen => link'[l] = Closed
    BY <2>1, <2>2 DEF SeenOK
  <2> QED
    BY <2>4, <2>5
<1>2. SessionsIInv /\ [SessionsNext]_vars =>
         [\A c \in Conn : Ends(c) =>
             /\ TokenRows(Live(token')) \cap req[c].seen = {}
             /\ req[c].kind = "reset" =>
                   \A l \in Link : <<"link", l>> \in req[c].seen
                                   => link'[l] = Closed]_vars
  BY <1>1
<1> QED
  BY <1>2, SessionsInvariant, PTL DEF SessionsSpec, KnownCredentialsDie
=============================================================================
