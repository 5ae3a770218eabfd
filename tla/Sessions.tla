------------------------------ MODULE Sessions ------------------------------
(***************************************************************************)
(* One account: its users row, refresh tokens and mailed links, the        *)
(* requests of routes/auth.js split at their awaits and row locks, and the *)
(* cookies of the browsers.  A transaction's writes appear at its COMMIT;  *)
(* an UPDATE of many rows fixes its targets when it starts, waits for the  *)
(* ones that are locked, and never sees a row inserted meanwhile.          *)
(***************************************************************************)
EXTENDS Naturals, FiniteSets

CONSTANTS Browser, Conn, MaxTokens, MaxLinks, MaxVersion, None

ASSUME SessionsAssumption ==
    /\ MaxTokens \in Nat /\ MaxLinks \in Nat /\ MaxVersion \in Nat
    /\ None \notin Nat \cup Conn /\ IsFiniteSet(Conn)

VARIABLES user, token, link, cookie, req, lock

vars == <<user, token, link, cookie, req, lock>>

Token == 1 .. MaxTokens
Link  == 1 .. MaxLinks
UserRow == <<"user", 0>>
Rows == {UserRow} \cup {<<"token", t>> : t \in Token}
                  \cup {<<"link", l>> : l \in Link}

NoToken == [family |-> 0, consumed |-> FALSE, over |-> FALSE]
NoLink  == [purpose |-> "none", state |-> "none"]
Closed  == [purpose |-> "none", state |-> "closed"]
NoCookies == [access |-> None, refresh |-> None]
Idle == [kind |-> "none", from |-> None, arg |-> None, at |-> "idle",
         sv |-> None, want |-> {}, got |-> NoCookies, seen |-> {}]

SessionsInit ==
    /\ user = [exists |-> FALSE, verified |-> FALSE, pw |-> 0, sv |-> 0]
    /\ token = [t \in Token |-> NoToken]
    /\ link = [l \in Link |-> NoLink]
    /\ cookie = [b \in Browser |-> NoCookies]
    /\ req = [c \in Conn |-> Idle]
    /\ lock = [r \in Rows |-> None]

Issued == {t \in Token : token[t].family # 0}
Live(ts) == {t \in Token : /\ ts[t].family # 0
                           /\ ~ts[t].consumed /\ ~ts[t].over}
NewToken == CHOOSE t \in Token : t \notin Issued /\ t - 1 \in Issued \cup {0}
NewLink  == CHOOSE l \in Link : /\ link[l] = NoLink
                                /\ l = 1 \/ link[l - 1] # NoLink
OpenLinks(p) == {l \in Link : link[l].purpose = p}
TokenRows(S) == {<<"token", t>> : t \in S}
LinkRows(S)  == {<<"link", l>> : l \in S}
-----------------------------------------------------------------------------
\* A request begins here with its first read of the rows; one that ends there
\* with an error changed nothing and is left out.

Purpose(kind) == IF kind \in {"forgot", "reset"} THEN "password_reset"
                                                 ELSE "email_verification"
Start(c, b, kind, at, arg, sv) ==
    /\ req[c] = Idle
    /\ req' = [req EXCEPT ![c] =
                 [Idle EXCEPT !.kind = kind, !.from = b, !.at = at,
                    !.arg = arg, !.sv = sv,
                    !.seen = IF kind \notin {"logout", "reset"} THEN {}
                             ELSE TokenRows(Live(token)) \cup
                                  LinkRows(OpenLinks("password_reset"))]]
    /\ UNCHANGED <<user, token, cookie>>

\* Bounds: room for the rows of every request that may be in progress.
TokensLeft == Cardinality(Token \ Issued) >= Cardinality(Conn)
LinksLeft  == Cardinality({l \in Link : link[l] = NoLink}) >= Cardinality(Conn)

\* register looks the account up and hashes the password.
SendRegister(c, b) ==
    /\ LinksLeft /\ ~user.exists
    /\ Start(c, b, "register", "insert", None, None)
    /\ UNCHANGED <<link, lock>>

\* issueAccountToken.
AddLink(kind) == link' = [link EXCEPT ![NewLink] =
                            [purpose |-> Purpose(kind), state |-> "unsent"]]

SendResend(c, b) ==
    /\ LinksLeft /\ user.exists /\ ~user.verified
    /\ Start(c, b, "resend", "mail", NewLink, None)
    /\ AddLink("resend")
    /\ UNCHANGED lock

SendForgot(c, b) ==
    /\ LinksLeft /\ user.exists
    /\ Start(c, b, "forgot", "mail", NewLink, None)
    /\ AddLink("forgot")
    /\ UNCHANGED lock

\* login compares the password with the row it has read, and goes on with it.
SendLogin(c, b) ==
    /\ TokensLeft /\ user.verified /\ cookie[b].refresh = None
    /\ Start(c, b, "login", "issue", None, user.sv)
    /\ UNCHANGED <<link, lock>>

\* consumeAccountToken selects the open link FOR UPDATE.
SendLink(c, b) ==
    /\ user.sv < MaxVersion
    /\ \E l \in Link :
          /\ link[l].state = "mailed" /\ lock[<<"link", l>>] = None
          /\ Start(c, b, IF link[l].purpose = "password_reset" THEN "reset"
                         ELSE "verify", "user", l, None)
          /\ lock' = [lock EXCEPT ![<<"link", l>>] = c]
    /\ UNCHANGED link

\* authMiddleware.
Authorized(sv) == user.verified /\ sv = user.sv

\* request(): a call that is refused makes the client refresh.
SendCall(c, b) ==
    /\ TokensLeft /\ cookie[b].refresh # None
    /\ ~Authorized(cookie[b].access)
    /\ Start(c, b, "refresh", "rotate", cookie[b].refresh, None)
    /\ UNCHANGED <<link, lock>>

\* refreshSession, when the application is loaded.
SendRefresh(c, b) ==
    /\ TokensLeft /\ cookie[b].refresh # None
    /\ Start(c, b, "refresh", "rotate", cookie[b].refresh, None)
    /\ UNCHANGED <<link, lock>>

SendLogout(c, b) ==
    /\ Authorized(cookie[b].access) /\ user.sv < MaxVersion
    /\ Start(c, b, "logout", "user", None, None)
    /\ UNCHANGED <<link, lock>>

\* The sign-in dialog and the page a mailed link opens.
Submit(c, b) == SendForgot(c, b) \/ SendLogin(c, b) \/ SendRegister(c, b)

AccountAction(c, b) == SendLink(c, b)

Send(c, b) == \/ Submit(c, b) \/ AccountAction(c, b) \/ SendResend(c, b)
              \/ SendCall(c, b) \/ SendRefresh(c, b) \/ SendLogout(c, b)
-----------------------------------------------------------------------------
\* Locks and the ends of a request.

At(c, kinds, at) == req[c].kind \in kinds /\ req[c].at = at
Next(c, at) == req' = [req EXCEPT ![c].at = at]
Lock(c, r) == lock[r] \in {None, c} /\ lock' = [lock EXCEPT ![r] = c]
\* Bug: an early return gives the connection back inside its transaction.
UnlockedLeaky(c) == lock

Unlocked(c) == [r \in Rows |-> IF lock[r] = c THEN None ELSE lock[r]]
\* The response is on its way: "set" and "clear" change cookies.
Answer(c, what, got) ==
    /\ req' = [req EXCEPT ![c] =
                 [Idle EXCEPT !.kind = req[c].kind, !.from = req[c].from,
                              !.at = what, !.got = got]]
    /\ lock' = Unlocked(c)
\* It changes no cookie.
Done(c) == req' = [req EXCEPT ![c] = Idle] /\ lock' = Unlocked(c)
-----------------------------------------------------------------------------
\* Accounts, links and mail.

\* users.email is UNIQUE: of two registrations one fails here.
Insert(c) ==
    /\ At(c, {"register"}, "insert")
    /\ user' = [user EXCEPT !.exists = TRUE]
    /\ IF user.exists THEN Done(c) ELSE Next(c, "issue") /\ UNCHANGED lock
    /\ UNCHANGED <<token, link, cookie>>

IssueLink(c) ==
    /\ At(c, {"register"}, "issue")
    /\ AddLink("register")
    /\ req' = [req EXCEPT ![c].at = "mail", ![c].arg = NewLink]
    /\ UNCHANGED <<user, token, cookie, lock>>

Mail(c) ==
    /\ req[c].at = "mail"
    /\ \/ link' = [link EXCEPT ![req[c].arg].state =
                                 IF @ = "unsent" THEN "mailed" ELSE @]
       \/ UNCHANGED link
    /\ Done(c)
    /\ UNCHANGED <<user, token, cookie>>

\* The cookies of a session: the access token carries the session version.
Signed(sv, t) == [access |-> sv, refresh |-> t]

\* issueRefreshToken starts a family, named after its first token.
IssueToken(c) ==
    /\ At(c, {"login"}, "issue")
    /\ token' = [token EXCEPT ![NewToken] = [NoToken EXCEPT !.family = NewToken]]
    /\ Answer(c, "set", Signed(req[c].sv, NewToken))
    /\ UNCHANGED <<user, link, cookie>>
-----------------------------------------------------------------------------
\* The transactions that end sessions.

\* Bug: only the sessions of the requesting browser are revoked.
RevokeTargetsOwn(c) ==
    {t \in Issued : ~token[t].over /\ t = cookie[req[c].from].refresh}

RevokeTargets(c) == {t \in Issued : ~token[t].over}

\* The UPDATE of users, and the one of refresh_tokens starts.
LockUser(c) ==
    /\ req[c].at = "user"
    /\ Lock(c, UserRow)
    /\ req' = [req EXCEPT
                 ![c].at = IF req[c].kind = "verify" THEN "links" ELSE "revoking",
                 ![c].want = IF req[c].kind = "verify" THEN {}
                             ELSE TokenRows(RevokeTargets(c))]
    /\ UNCHANGED <<user, token, link, cookie>>

\* The other open links of the same purpose.
Supersede(c) ==
    /\ \/ req[c].at = "links"
       \/ req[c].at = "revoking" /\ req[c].kind = "reset"
          /\ \A r \in req[c].want : lock[r] = c
    /\ req' = [req EXCEPT
                 ![c].at = "linking",
                 ![c].want = @ \cup LinkRows(OpenLinks(Purpose(req[c].kind)))]
    /\ UNCHANGED <<user, token, link, cookie, lock>>

\* It locks the targets that are free and waits for the others.
LockTargets(c) ==
    /\ req[c].at \in {"revoking", "linking"}
    /\ \E r \in req[c].want : lock[r] = None
    /\ lock' = [r \in Rows |-> IF r \in req[c].want /\ lock[r] = None
                               THEN c ELSE lock[r]]
    /\ UNCHANGED <<user, token, link, cookie, req>>

Revoked(c) == [t \in Token |-> [token[t] EXCEPT
                 !.over = @ \/ <<"token", t>> \in req[c].want]]

\* COMMIT of logout, reset-password, verify-email or the family revocation.
Commit(c) ==
    LET k == req[c].kind IN
    /\ req[c].at = IF k \in {"verify", "reset"} THEN "linking" ELSE "revoking"
    /\ \A r \in req[c].want : lock[r] = c
    /\ token' = Revoked(c)
    /\ link' = [l \in Link |->
                  IF \/ <<"link", l>> \in req[c].want
                     \/ l = req[c].arg /\ k \in {"verify", "reset"}
                  THEN Closed ELSE link[l]]
    /\ user' = [user EXCEPT !.sv = IF k \in {"logout", "reset"} THEN @ + 1 ELSE @,
                            !.pw = IF k = "reset" THEN @ + 1 ELSE @,
                            !.verified = @ \/ k = "verify"]
    /\ IF k = "verify" THEN Done(c) ELSE Answer(c, "clear", NoCookies)
    /\ UNCHANGED cookie
-----------------------------------------------------------------------------
\* rotateRefreshToken.

\* Bug: the token is read without FOR UPDATE and consumed unconditionally.
RotatePlainRead(c) ==
    LET t == req[c].arg IN
    /\ req[c].at = "rotate"
    /\ IF token[t].over THEN Answer(c, "clear", NoCookies)
       ELSE req' = [req EXCEPT ![c].at = "rotated", ![c].sv = user.sv]
            /\ UNCHANGED lock
    /\ UNCHANGED <<user, token, link, cookie>>

\* A consumed token was used before: its family is revoked.
Rotate(c) ==
    LET t == req[c].arg
        family == {f \in Issued : token[f].family = token[t].family
                                  /\ ~token[f].over}
    IN /\ req[c].at = "rotate" /\ lock[<<"token", t>>] = None
       /\ IF token[t].over THEN Answer(c, "clear", NoCookies)
          ELSE /\ Lock(c, <<"token", t>>)
               /\ req' = [req EXCEPT
                     ![c].at = IF token[t].consumed THEN "revoking"
                                                    ELSE "rotated",
                     ![c].want = IF token[t].consumed THEN TokenRows(family)
                                                      ELSE {},
                     ![c].sv = user.sv]
       /\ UNCHANGED <<user, token, link, cookie>>

CommitRotate(c) ==
    LET t == req[c].arg IN
    /\ req[c].at = "rotated"
    /\ token' = [token EXCEPT ![t].consumed = TRUE,
                   ![NewToken] = [NoToken EXCEPT !.family = token[t].family]]
    /\ Answer(c, "set", Signed(req[c].sv, NewToken))
    /\ UNCHANGED <<user, link, cookie>>
-----------------------------------------------------------------------------
\* Answers, the client, faults and time.

\* The browser applies Set-Cookie.  request() repeats a refused call after a
\* refresh without another retry, so that ends the request as well.
Receive(c) ==
    /\ req[c].at \in {"set", "clear"}
    /\ cookie' = [cookie EXCEPT ![req[c].from] = req[c].got]
    /\ req' = [req EXCEPT ![c] = Idle]
    /\ UNCHANGED <<user, token, link, lock>>

\* PostgreSQL ends one of two transactions that wait for each other.
Wants(c) == IF req[c].at = "user" THEN {UserRow}
            ELSE IF req[c].at \in {"revoking", "linking"}
            THEN {r \in req[c].want : lock[r] # c} ELSE {}
Waits(c, d) == c # d /\ Wants(c) # {} /\ \A r \in Wants(c) : lock[r] = d
RollBack(c) ==
    /\ IF req[c].kind = "refresh"
       THEN Answer(c, "clear", NoCookies) ELSE Done(c)
    /\ UNCHANGED <<user, token, link, cookie>>
Victim(c) == (\E d \in Conn : Waits(c, d) /\ Waits(d, c)) /\ RollBack(c)

\* A statement fails, or the answer is lost on the way.
Fault(c) == \/ req[c].at \notin {"idle", "set", "clear"} /\ RollBack(c)
            \/ /\ req[c].at \in {"set", "clear"}
               /\ req' = [req EXCEPT ![c] = Idle]
               /\ UNCHANGED <<user, token, link, cookie, lock>>

\* The access cookie lives fifteen minutes, links an hour or a day.
Expire ==
    \/ /\ \E b \in Browser : cookie[b].access # None
             /\ cookie' = [cookie EXCEPT ![b].access = None]
       /\ UNCHANGED <<user, token, link, req, lock>>
    \/ /\ \E l \in Link : link[l].purpose # "none" /\ lock[<<"link", l>>] = None
             /\ link' = [link EXCEPT ![l] = Closed]
       /\ UNCHANGED <<user, token, cookie, req, lock>>

Step(c) == \/ Insert(c) \/ IssueLink(c) \/ Mail(c) \/ IssueToken(c)
           \/ LockUser(c) \/ Supersede(c)
           \/ LockTargets(c) \/ Commit(c)
           \/ Rotate(c) \/ CommitRotate(c) \/ Receive(c) \/ Victim(c)

SessionsNext == \/ Expire
                \/ \E c \in Conn : Step(c) \/ Fault(c)
                                   \/ \E b \in Browser : Send(c, b)

\* Row locks are queued, and every await returns: pg and fetch time out.
SessionsSpec == /\ SessionsInit /\ [][SessionsNext]_vars
                /\ \A c \in Conn : SF_vars(Step(c))
-----------------------------------------------------------------------------
\* Type correctness; a row lock belongs to a transaction in progress.
SessionsTypeOK ==
    /\ user.pw \in Nat /\ user.sv \in Nat
    /\ user.verified => user.exists
    /\ \A t \in Token : token[t].family \in Issued \cup {0}
    /\ \A b \in Browser : cookie[b].refresh \in Issued \cup {None}
    /\ \A r \in Rows : lock[r] # None =>
          req[lock[r]].at \in {"user", "revoking", "links", "linking",
                              "rotated"}

\* A family of refresh tokens has at most one token that can still be used,
\* however many tabs present the same cookie at once (rotateRefreshToken).
OneHeadPerFamily ==
    \A s, t \in Live(token) : token[s].family = token[t].family => s = t

\* Token rows and locks are well formed and no family of tokens forks.
SessionsInv == SessionsTypeOK /\ OneHeadPerFamily

\* A family without a usable token, revoked or replayed, never gets one
\* again: no rotation that is in progress brings a session back.
DeadFamiliesStayDead ==
    [][\A f \in Issued :
          (\A t \in Live(token) : token[t].family # f)
          => \A t \in Live(token') : token'[t].family # f]_vars

\* A mailed link takes effect once: the link of a verification or a reset is
\* still open when its transaction commits (consumeAccountToken).
LinksWorkOnce ==
    [][\A c \in Conn : req[c].at = "linking" /\ user' # user
                       => link[req[c].arg] # Closed]_vars

\* What is spent stays spent: neither a revoked family nor a used link comes
\* back through a request that was already under way.
SpentStaysSpent == DeadFamiliesStayDead /\ LinksWorkOnce

Ends(c) == /\ req[c].kind \in {"logout", "reset"}
           /\ req[c].at # "clear" /\ req'[c].at = "clear"

\* When a logout or a reset has committed, no refresh token that was usable
\* when it was requested can be used any more, and after a reset no reset
\* link that was open then, whatever rotations and resets overlapped it.
KnownCredentialsDie ==
    [][\A c \in Conn : Ends(c) =>
          /\ TokenRows(Live(token')) \cap req[c].seen = {}
          /\ req[c].kind = "reset" =>
                \A l \in Link : <<"link", l>> \in req[c].seen => link'[l] = Closed]_vars

\* Every request ends although resets with two links, logouts and replays
\* lock the same rows in opposite orders.
RequestsEnd == \A c \in Conn : req[c].at # "idle" ~> req[c].at = "idle"
=============================================================================
