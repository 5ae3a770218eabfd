-------------------------- MODULE TournamentProofs --------------------------
(***************************************************************************)
(* A tournament of 4, 8 or 16 places with any users and connections: its   *)
(* entrants are drawn once each, and its rows and locks implement the      *)
(* knockout of Elimination.                                                *)
(***************************************************************************)
EXTENDS Tournament, Integers, FunctionTheorems, FiniteSetTheorems, TLAPS

MatchRow == [p1 : User \cup {None}, p2 : User \cup {None},
             winner : User \cup {None},
             status : {"absent", "pending", "bye", "done"}]

Tx == [op : {"none", "join", "start", "report"}, user : User \cup {None},
       slot : Slot \cup {Cup}, pick : User \cup {None},
       at : {"idle", "write", "cup", "round"}]

\* A match is pending for two players, or for none and then for ever; a
\* decided one has a winner who played in it.
MatchOK(m) ==
    /\ m.status = "absent" => m = NoMatch
    /\ m.status = "pending" => (m.p1 = None <=> m.p2 = None)
    /\ m.status = "bye" => m.winner # None /\ {m.p1, m.p2} = {m.winner, None}
    /\ m.status = "done" => /\ m.p1 # None /\ m.p2 # None
                            /\ m.winner \in {m.p1, m.p2}
    /\ m.p1 = m.p2 => m.p1 = None

\* The players of a match, of a round; those who have won what they played
\* before round r.
Drawn(ms, s) == {ms[s].p1, ms[s].p2} \ {None}

InRound(ms, r, u) == \E s \in Slot : s[1] = r /\ u \in Drawn(ms, s)

WonBefore(ms, r, u) ==
    \A s \in Slot : s[1] < r /\ ms[s].status = "done" /\ u \in Drawn(ms, s)
                    => ms[s].winner = u

\* The players nobody has beaten in ms.
Undefeated(ms) ==
    {u \in players : \A s \in Slot : /\ ms[s].status = "done"
                                    /\ u \in {ms[s].p1, ms[s].p2}
                                    => ms[s].winner = u}

\* The bracket after p won match s.
Reported(ms, s, p) ==
    [ms EXCEPT ![s].winner = p, ![s].status = "done"]

MatchesOK(ms) ==
    /\ ms \in [Slot -> MatchRow]
    /\ \A s \in Slot : MatchOK(ms[s]) /\ Drawn(ms, s) \subseteq players

\* The places for matches in round r.
Space(r) == MaxPlayers \div 2 ^ r

\* Round r is the last one that exists.  It has k matches; every player who
\* is still in plays in one of them; earlier rounds are decided.
Bracket(ms, r, k) ==
    /\ r \in 1 .. Rounds /\ k \in {1, 2, 4, 8} /\ k <= Space(r)
    /\ \A s \in Slot : /\ s[1] > r => ms[s].status = "absent"
                       /\ s[1] = r => (ms[s].status # "absent" <=> s[2] < k)
                       /\ s[1] < r => ms[s].status # "pending"
                       /\ s[1] = r /\ s[2] < k /\ s[2] < 2 => ms[s].p1 # None
    /\ \A s, t \in Slot : s[1] = r /\ t[1] = r /\ s # t
                          => Drawn(ms, s) \cap Drawn(ms, t) = {}
    /\ \A u \in players : InRound(ms, r, u) <=> WonBefore(ms, r, u)

Begun == status \in {"in_progress", "finished"}

Open(ms) == \E s \in Slot : ms[s].status = "pending"

\* The entrants: each in one match of the first round.
DrawOK ==
    Begun => /\ \A u \in players : InRound(match, 1, u)
             /\ \A s, t \in Slot : s[1] = 1 /\ t[1] = 1 /\ s # t
                                   => Drawn(match, s) \cap Drawn(match, t) = {}

BracketOK ==
    Begun => /\ \E r \in 1 .. Rounds, k \in {1, 2, 4, 8} : Bracket(match, r, k)
             /\ status = "in_progress" <=> Open(match)

RowsOK ==
    /\ status \in {"none", "open", "in_progress", "finished"}
    /\ players \subseteq User /\ IsFiniteSet(players)
    /\ Cardinality(players) <= MaxPlayers
    /\ winner \in User \cup {None}
    /\ status = "none" => players = {}
    /\ ~Begun => \A s \in Slot : match[s].status = "absent"
    /\ MatchesOK(match)

\* A report holds its match, and finds it pending when it commits.
LocksOK ==
    /\ lock \in [Slot \cup {Cup} -> Conn \cup {None}]
    /\ tx \in [Conn -> Tx]
    /\ \A s \in DOMAIN lock : lock[s] # None => tx[lock[s]].at # "idle"
    /\ \A c \in Conn :
          LET t == tx[c]
          IN  /\ t.at = "idle" => t = Idle
              /\ t.at = "write" => t.op \in {"join", "start"} /\ t.user \in User
              /\ t.at \in {"cup", "round"} =>
                    /\ t.slot \in Slot /\ lock[t.slot] = c
                    /\ t.pick \in User /\ t.user \in User
                    /\ Reportable(t.user, t.slot, t.pick)

CupInv == RowsOK /\ LocksOK /\ DrawOK /\ BracketOK
-----------------------------------------------------------------------------
\* None is no user; there are two, three or four rounds.
LEMMA Basics ==
    /\ None \notin User \cup Conn /\ Creator \in User
    /\ MaxPlayers \in {4, 8, 16} /\ MaxPlayers \in Nat
    /\ Rounds = IF MaxPlayers = 4 THEN 2 ELSE IF MaxPlayers = 8 THEN 3 ELSE 4
<1>1. 2 ^ 2 = 4 /\ 2 ^ 3 = 8 /\ 2 ^ 4 = 16
  OBVIOUS
<1>2. 2 .. 4 = {2, 3, 4}
  OBVIOUS
<1> QED
  BY <1>1, <1>2, TournamentAssumption DEF Rounds

\* The places by round.
LEMMA Spaces ==
    /\ MaxPlayers = 4  => Space(1) = 2 /\ Space(2) = 1
    /\ MaxPlayers = 8  => Space(1) = 4 /\ Space(2) = 2 /\ Space(3) = 1
    /\ MaxPlayers = 16 => /\ Space(1) = 8 /\ Space(2) = 4 /\ Space(3) = 2
                          /\ Space(4) = 1
<1>1. 2 ^ 1 = 2 /\ 2 ^ 2 = 4 /\ 2 ^ 3 = 8 /\ 2 ^ 4 = 16
  OBVIOUS
<1>2. /\ 4 \div 2 = 2 /\ 4 \div 4 = 1
      /\ 8 \div 2 = 4 /\ 8 \div 4 = 2 /\ 8 \div 8 = 1
      /\ 16 \div 2 = 8 /\ 16 \div 4 = 4 /\ 16 \div 8 = 2 /\ 16 \div 16 = 1
  OBVIOUS
<1> QED
  BY <1>1, <1>2 DEF Space

\* A round has half the matches of the round before.
LEMMA Halves ==
    ASSUME NEW r \in 1 .. Rounds, NEW k \in {2, 4, 8}, k <= Space(r)
    PROVE  /\ r + 1 \in 1 .. Rounds /\ k \div 2 \in {1, 2, 4}
           /\ k \div 2 <= Space(r + 1) /\ k = 2 * (k \div 2)
<1>1. 2 \div 2 = 1 /\ 4 \div 2 = 2 /\ 8 \div 2 = 4
  OBVIOUS
<1>2. k \div 2 \in {1, 2, 4} /\ k = 2 * (k \div 2)
  BY <1>1
<1>3. CASE MaxPlayers = 4
  <2>1. r = 1 /\ k = 2 /\ Rounds = 2
    BY <1>3, Basics, Spaces
  <2> QED
    BY <1>1, <1>2, <1>3, <2>1, Spaces
<1>4. CASE MaxPlayers = 8
  <2>1. r \in {1, 2} /\ Rounds = 3
    BY <1>4, Basics, Spaces
  <2>2. CASE r = 1
    BY <1>1, <1>2, <1>4, <2>1, <2>2, Spaces
  <2>3. CASE r = 2
    BY <1>1, <1>2, <1>4, <2>1, <2>3, Spaces
  <2> QED
    BY <2>1, <2>2, <2>3
<1>5. CASE MaxPlayers = 16
  <2>1. r \in {1, 2, 3} /\ Rounds = 4
    BY <1>5, Basics, Spaces
  <2>2. CASE r = 1
    BY <1>1, <1>2, <1>5, <2>1, <2>2, Spaces
  <2>3. CASE r = 2
    BY <1>1, <1>2, <1>5, <2>1, <2>3, Spaces
  <2>4. CASE r = 3
    BY <1>1, <1>2, <1>5, <2>1, <2>4, Spaces
  <2> QED
    BY <2>1, <2>2, <2>3, <2>4
<1> QED
  BY <1>3, <1>4, <1>5, Basics

\* A slot is a round and a place in it.
LEMMA SlotShape ==
    /\ Cup \notin Slot
    /\ \A s \in Slot : s = <<s[1], s[2]>> /\ s[1] \in 1 .. Rounds /\ s[2] \in Nat
    /\ 1 \in 1 .. Rounds /\ Rounds \in Nat
  BY Basics DEF Slot, Cup

\* The first k places of a round exist.
LEMMA SlotThere ==
    ASSUME NEW r \in 1 .. Rounds, NEW k \in {1, 2, 4, 8},
           k <= Space(r), NEW i \in Nat, i < k
    PROVE  <<r, i>> \in Slot
<1>1. Space(1) \in Nat /\ Space(r) \in Nat /\ Space(r) <= Space(1)
  <2>1. r \in {1, 2, 3, 4} /\ MaxPlayers \in {4, 8, 16}
    BY Basics
  <2>2. CASE MaxPlayers = 4
    BY <2>2, Basics, Spaces
  <2>3. CASE MaxPlayers = 8
    BY <2>3, Basics, Spaces
  <2>4. CASE MaxPlayers = 16
    BY <2>4, Basics, Spaces
  <2> QED
    BY <2>1, <2>2, <2>3, <2>4
<1>2. Space(1) = MaxPlayers \div 2
  <2>1. 2 ^ 1 = 2
    OBVIOUS
  <2> QED
    BY <2>1 DEF Space
<1>3. i \in 0 .. Space(1) - 1 /\ i < Space(r)
  BY <1>1
<1> QED
  BY <1>2, <1>3 DEF Slot, Space

\* The rows of the last round are counted right.
LEMMA RowSize ==
    ASSUME NEW ms, NEW r, NEW k, Bracket(ms, r, k)
    PROVE  Cardinality(Row(ms, r)) = k /\ Row(ms, r) # {}
<1> DEFINE F == [s \in Row(ms, r) |-> s[2] + 1]
<1>1. /\ r \in 1 .. Rounds /\ k \in {1, 2, 4, 8} /\ k <= Space(r)
      /\ k \in Nat /\ k \in Int
  BY DEF Bracket
<1>2. Row(ms, r) = {s \in Slot : s[1] = r /\ s[2] < k}
  BY DEF Row, Bracket
<1>3. \A s \in Row(ms, r) : s = <<r, s[2]>> /\ s[2] \in Nat /\ s[2] < k
  BY <1>2, SlotShape
<1>4. \A i \in 1 .. k : <<r, i - 1>> \in Row(ms, r)
  <2> SUFFICES ASSUME NEW i \in 1 .. k PROVE <<r, i - 1>> \in Row(ms, r)
    OBVIOUS
  <2>1. i - 1 \in Nat /\ i - 1 < k
    BY <1>1
  <2>2. <<r, i - 1>> \in Slot
    BY <1>1, <2>1, SlotThere
  <2> QED
    BY <1>2, <2>1, <2>2
<1>5. Row(ms, r) # {}
  <2>1. 1 \in 1 .. k
    BY <1>1
  <2> QED
    BY <1>4, <2>1
<1>6. F \in [Row(ms, r) -> 1 .. k]
  BY <1>1, <1>3
<1>7. F \in Injection(Row(ms, r), 1 .. k)
  <2>1. \A a, b \in Row(ms, r) : F[a] = F[b] => a = b
    <3> SUFFICES ASSUME NEW a \in Row(ms, r), NEW b \in Row(ms, r), F[a] = F[b]
                 PROVE  a = b
      OBVIOUS
    <3>1. a[2] + 1 = b[2] + 1
      OBVIOUS
    <3> QED
      BY <1>3, <3>1
  <2> QED
    BY <1>6, <2>1, Fun_IsInj
<1>8. F \in Surjection(Row(ms, r), 1 .. k)
  <2>1. \A i \in 1 .. k : \E s \in Row(ms, r) : F[s] = i
    <3> SUFFICES ASSUME NEW i \in 1 .. k
                 PROVE  F[<<r, i - 1>>] = i
      BY <1>4
    <3> QED
      BY <1>1, <1>4
  <2> QED
    BY <1>6, <2>1, Fun_IsSurj
<1>9. IsFiniteSet(1 .. k) /\ Cardinality(1 .. k) = k
  BY <1>1, FS_Interval
<1> HIDE DEF F
<1>10. Cardinality(Row(ms, r)) = Cardinality(1 .. k)
  BY <1>7, <1>8, <1>9, FS_Injection
<1> QED
  BY <1>5, <1>9, <1>10

\* What the shape of a match says of its players.
LEMMA MatchFacts ==
    ASSUME NEW ms, MatchesOK(ms), NEW s \in Slot
    PROVE  /\ ms \in [Slot -> MatchRow] /\ ms[s] \in MatchRow
           /\ MatchOK(ms[s]) /\ Drawn(ms, s) \subseteq players
           /\ ms[s].status = "absent" => Drawn(ms, s) = {}
           /\ ms[s].status \in {"bye", "done"} =>
                ms[s].winner \in Drawn(ms, s)
  BY Basics DEF MatchesOK, MatchOK, Drawn, NoMatch

\* A player of the last round who has not lost there has lost nowhere.
LEMMA StillIn ==
    ASSUME NEW ms, MatchesOK(ms), players \subseteq User,
           NEW r, NEW k, Bracket(ms, r, k),
           NEW s \in Slot, s[1] = r, NEW a \in Drawn(ms, s),
           ms[s].status = "done" => ms[s].winner = a
    PROVE  a \in Undefeated(ms)
<1>1. a \in players /\ a # None
  BY MatchFacts DEF Drawn
<1>2. ASSUME NEW t \in Slot, ms[t].status = "done", a \in {ms[t].p1, ms[t].p2}
      PROVE  ms[t].winner = a
  <2>1. a \in Drawn(ms, t)
    BY <1>1, <1>2 DEF Drawn
  <2>2. r \in Nat /\ t[1] \in Nat
    BY SlotShape DEF Bracket
  <2>3. CASE t[1] < r
    <3>1. WonBefore(ms, r, a)
      BY <1>1 DEF Bracket, InRound
    <3> QED
      BY <1>2, <2>1, <2>3, <3>1 DEF WonBefore
  <2>4. CASE t[1] = r
    <3>1. t = s
      BY <2>1, <2>4 DEF Bracket
    <3> QED
      BY <1>2, <3>1
  <2>5. CASE t[1] > r
    BY <1>2, <2>5 DEF Bracket
  <2> QED
    BY <2>2, <2>3, <2>4, <2>5
<1> QED
  BY <1>1, <1>2 DEF Undefeated

\* While the last round has more than one match, two players are still in.
LEMMA TwoLeft ==
    ASSUME NEW ms, MatchesOK(ms), players \subseteq User,
           NEW r, NEW k, Bracket(ms, r, k), k # 1
    PROVE  \E a, b \in Undefeated(ms) : a # b
<1>1. /\ r \in 1 .. Rounds /\ k \in {1, 2, 4, 8} /\ k <= Space(r)
      /\ 0 < k /\ 1 < k
  BY DEF Bracket
<1>2. ASSUME NEW i \in {0, 1}
      PROVE  /\ <<r, i>> \in Slot
             /\ \E a \in Undefeated(ms) : a \in Drawn(ms, <<r, i>>)
  <2> DEFINE s == <<r, i>>
  <2>1. s \in Slot /\ s[1] = r /\ s[2] = i /\ i \in Nat
    BY <1>1, SlotThere
  <2> HIDE DEF s
  <2>2. ms[s].status # "absent" /\ ms[s].p1 # None
    BY <1>1, <2>1 DEF Bracket
  <2>3. MatchOK(ms[s]) /\ ms[s].status \in {"pending", "bye", "done"}
    BY <2>1, <2>2, MatchFacts DEF MatchRow
  <2>4. CASE ms[s].status = "pending"
    <3>1. ms[s].p1 \in Drawn(ms, s)
      BY <2>2 DEF Drawn
    <3> QED
      BY <2>1, <2>4, <3>1, StillIn DEF s
  <2>5. CASE ms[s].status \in {"bye", "done"}
    <3>1. ms[s].winner \in Drawn(ms, s)
      BY <2>1, <2>5, MatchFacts
    <3> QED
      BY <2>1, <3>1, StillIn DEF s
  <2> QED
    BY <2>1, <2>3, <2>4, <2>5 DEF s
<1>3. PICK a \in Undefeated(ms) : a \in Drawn(ms, <<r, 0>>)
  BY <1>2
<1>4. PICK b \in Undefeated(ms) : b \in Drawn(ms, <<r, 1>>)
  BY <1>2
<1>5. Drawn(ms, <<r, 0>>) \cap Drawn(ms, <<r, 1>>) = {}
  <2>1. <<r, 0>> \in Slot /\ <<r, 1>> \in Slot /\ <<r, 0>> # <<r, 1>>
    BY <1>2
  <2> QED
    BY <2>1 DEF Bracket
<1> QED
  BY <1>3, <1>4, <1>5

\* When the last round is one match that was played, its winner is left.
LEMMA OneLeft ==
    ASSUME NEW ms, MatchesOK(ms), players \subseteq User,
           NEW r, Bracket(ms, r, 1),
           NEW s \in Slot, s[1] = r, ms[s].status = "done"
    PROVE  s = <<r, 0>> /\ Undefeated(ms) = {ms[s].winner}
<1>1. \A t \in Slot : t[1] = r /\ ms[t].status # "absent" => t = <<r, 0>>
  <2> SUFFICES ASSUME NEW t \in Slot, t[1] = r, ms[t].status # "absent"
               PROVE  t = <<r, 0>>
    OBVIOUS
  <2>1. t[2] \in Nat /\ t[2] < 1
    BY SlotShape DEF Bracket
  <2> QED
    BY <2>1, SlotShape
<1>2. s = <<r, 0>>
  BY <1>1
<1>3. ms[s].winner \in Undefeated(ms)
  BY MatchFacts, StillIn
<1>4. ASSUME NEW u \in Undefeated(ms)
      PROVE  u = ms[s].winner
  <2>1. u \in players /\ WonBefore(ms, r, u)
    BY DEF Undefeated, WonBefore, Drawn
  <2>2. PICK t \in Slot : t[1] = r /\ u \in Drawn(ms, t)
    BY <2>1 DEF Bracket, InRound
  <2>3. t = s
    BY <1>1, <1>2, <2>2, MatchFacts
  <2> QED
    BY <2>2, <2>3 DEF Undefeated, Drawn
<1> QED
  BY <1>2, <1>3, <1>4

\* A report of a pending match: its players stay, the loser is out.
LEMMA ReportFacts ==
    ASSUME NEW ms, MatchesOK(ms), players \subseteq User,
           NEW r, NEW k, Bracket(ms, r, k),
           NEW s \in Slot, ms[s].status = "pending",
           NEW p \in User, p \in {ms[s].p1, ms[s].p2}
    PROVE  /\ s[1] = r
           /\ MatchesOK(Reported(ms, s, p)) /\ Bracket(Reported(ms, s, p), r, k)
           /\ Reported(ms, s, p)[s].status = "done"
           /\ Reported(ms, s, p)[s].winner = p
           /\ \A t \in Slot : Drawn(Reported(ms, s, p), t) = Drawn(ms, t)
           /\ \E q \in Undefeated(ms) :
                 Undefeated(Reported(ms, s, p)) = Undefeated(ms) \ {q}
<1> DEFINE new == Reported(ms, s, p)
<1>1. /\ ms \in [Slot -> MatchRow] /\ p # None
      /\ MatchOK(ms[s]) /\ ms[s] \in MatchRow
      /\ ms[s].p1 # None /\ ms[s].p2 # None /\ ms[s].p1 # ms[s].p2
  BY MatchFacts, Basics DEF MatchOK
<1>2. /\ new[s] = [ms[s] EXCEPT !.winner = p, !.status = "done"]
      /\ \A t \in Slot : t # s => new[t] = ms[t]
      /\ DOMAIN new = Slot
  BY <1>1 DEF Reported
<1>3. /\ new[s] \in MatchRow /\ new[s].p1 = ms[s].p1 /\ new[s].p2 = ms[s].p2
      /\ new[s].winner = p /\ new[s].status = "done"
  BY <1>1, <1>2 DEF MatchRow
<1>4. new \in [Slot -> MatchRow]
  BY <1>1, <1>3 DEF Reported
<1> HIDE DEF new
<1>5. \A t \in Slot : /\ new[t].p1 = ms[t].p1 /\ new[t].p2 = ms[t].p2
                      /\ Drawn(new, t) = Drawn(ms, t)
                      /\ t # s => new[t] = ms[t]
  BY <1>2, <1>3 DEF Drawn
<1>6. MatchesOK(new)
  <2>1. MatchOK(new[s])
    BY <1>1, <1>3 DEF MatchOK
  <2>2. ASSUME NEW t \in Slot PROVE MatchOK(new[t]) /\ Drawn(new, t) \subseteq players
    BY <1>5, <2>1, MatchFacts
  <2> QED
    BY <1>4, <2>2 DEF MatchesOK
<1>7. s[1] = r
  <2>1. s[1] \in Nat /\ r \in Nat
    BY SlotShape DEF Bracket
  <2> QED
    BY <2>1 DEF Bracket
<1>8. Bracket(new, r, k)
  <2>1. \A t \in Slot : /\ new[t].status = "absent" <=> ms[t].status = "absent"
                        /\ t[1] # r => new[t] = ms[t]
    BY <1>3, <1>5, <1>7
  <2>2. \A t \in Slot : /\ t[1] > r => new[t].status = "absent"
                        /\ t[1] = r => (new[t].status # "absent" <=> t[2] < k)
                        /\ t[1] < r => new[t].status # "pending"
                        /\ t[1] = r /\ t[2] < k /\ t[2] < 2 => new[t].p1 # None
    <3> SUFFICES ASSUME NEW t \in Slot
                 PROVE  /\ t[1] > r => new[t].status = "absent"
                        /\ t[1] = r => (new[t].status # "absent" <=> t[2] < k)
                        /\ t[1] < r => new[t].status # "pending"
                        /\ t[1] = r /\ t[2] < k /\ t[2] < 2 => new[t].p1 # None
      OBVIOUS
    <3>1. t[1] \in Nat /\ r \in Nat
      BY SlotShape DEF Bracket
    <3> QED
      BY <1>5, <2>1, <3>1 DEF Bracket
  <2>3. \A t, o \in Slot : t[1] = r /\ o[1] = r /\ t # o
                           => Drawn(new, t) \cap Drawn(new, o) = {}
    BY <1>5 DEF Bracket
  <2>4. ASSUME NEW u \in players
        PROVE  InRound(new, r, u) <=> WonBefore(new, r, u)
    <3>1. InRound(new, r, u) <=> InRound(ms, r, u)
      BY <1>5 DEF InRound
    <3>2. WonBefore(new, r, u) <=> WonBefore(ms, r, u)
      <4>1. \A t \in Slot : t[1] < r => t[1] # r
        BY SlotShape DEF Bracket
      <4> QED
        BY <1>5, <2>1, <4>1 DEF WonBefore
    <3> QED
      BY <3>1, <3>2 DEF Bracket
  <2> QED
    BY <2>2, <2>3, <2>4 DEF Bracket
<1>9. PICK q : q \in {ms[s].p1, ms[s].p2} /\ q # p /\ {ms[s].p1, ms[s].p2} = {p, q}
  BY <1>1
<1>10. q \in Undefeated(ms)
  <2>1. q \in Drawn(ms, s)
    BY <1>1, <1>9 DEF Drawn
  <2> QED
    BY <1>7, <2>1, StillIn
<1>11. Undefeated(new) = Undefeated(ms) \ {q}
  <2>1. ASSUME NEW u \in Undefeated(new)
        PROVE  u \in Undefeated(ms) /\ u # q
    <3>1. u # q
      BY <1>3, <1>9 DEF Undefeated
    <3>2. \A t \in Slot : /\ ms[t].status = "done" /\ u \in {ms[t].p1, ms[t].p2}
                          => ms[t].winner = u
      BY <1>5 DEF Undefeated
    <3> QED
      BY <3>1, <3>2 DEF Undefeated
  <2>2. ASSUME NEW u \in Undefeated(ms), u # q
        PROVE  u \in Undefeated(new)
    BY <1>3, <1>5, <1>9, <2>2 DEF Undefeated
  <2> QED
    BY <2>1, <2>2
<1> QED
  BY <1>3, <1>5, <1>6, <1>7, <1>8, <1>10, <1>11 DEF new

\* Once a round of several matches is over, its winners meet in the next one.
LEMMA NextRoundFacts ==
    ASSUME NEW ms, MatchesOK(ms), players \subseteq User,
           NEW r, NEW k, Bracket(ms, r, k), k # 1, RoundOver(ms, r)
    PROVE  /\ MatchesOK(NextRound(ms, r))
           /\ Bracket(NextRound(ms, r), r + 1, k \div 2)
           /\ Open(NextRound(ms, r))
           /\ Undefeated(NextRound(ms, r)) = Undefeated(ms)
           /\ \A s \in Slot : s[1] = 1 => NextRound(ms, r)[s] = ms[s]
<1> DEFINE h   == k \div 2
           new == NextRound(ms, r)
           Won(i) == ms[<<r, i>>].winner
<1>1. /\ r \in 1 .. Rounds /\ k \in {2, 4, 8} /\ k <= Space(r)
      /\ k \in {1, 2, 4, 8} /\ r \in Nat
  BY SlotShape DEF Bracket
<1>2. /\ r + 1 \in 1 .. Rounds /\ h \in {1, 2, 4} /\ h <= Space(r + 1)
      /\ k = 2 * h /\ h \in Nat /\ k \in Nat /\ 0 < h
  BY <1>1, Halves
<1>3. Cardinality(Row(ms, r)) \div 2 = h
  BY RowSize
<1> HIDE DEF h
<1>4. \A s \in Slot : /\ s = <<s[1], s[2]>> /\ s[1] \in Nat /\ s[2] \in Nat
                      /\ s[1] > 0
  BY SlotShape
<1>5. \A s \in Slot :
        /\ s[1] = r + 1 /\ s[2] < h =>
              new[s] = Pending(Won(2 * s[2]), Won(2 * s[2] + 1))
        /\ ~(s[1] = r + 1 /\ s[2] < h) => new[s] = ms[s]
  <2>1. \A s \in Slot : s[1] = r + 1 => ms[s].status = "absent"
    BY <1>1 DEF Bracket
  <2> SUFFICES ASSUME NEW s \in Slot
               PROVE  /\ s[1] = r + 1 /\ s[2] < h =>
                            new[s] = Pending(Won(2 * s[2]), Won(2 * s[2] + 1))
                      /\ ~(s[1] = r + 1 /\ s[2] < h) => new[s] = ms[s]
    OBVIOUS
  <2>2. CASE s[1] = r + 1
    BY <1>3, <2>1, <2>2 DEF NextRound
  <2>3. CASE s[1] # r + 1
    BY <2>3 DEF NextRound
  <2> QED
    BY <2>2, <2>3
<1>6. DOMAIN new = Slot /\ new = [s \in Slot |-> new[s]]
  BY DEF NextRound
<1> HIDE DEF new
\* Every match of round r has a winner, and different ones.
<1>7. ASSUME NEW i \in Nat, i < k
      PROVE  /\ <<r, i>> \in Slot /\ Won(i) \in Drawn(ms, <<r, i>>)
             /\ Won(i) \in players /\ Won(i) # None
             /\ ms[<<r, i>>].status \in {"bye", "done"}
  <2> DEFINE s == <<r, i>>
  <2>1. s \in Slot /\ s[1] = r /\ s[2] = i
    BY <1>1, <1>7, SlotThere
  <2> HIDE DEF s
  <2>2. ms[s].status # "absent" /\ ms[s].status # "pending"
    BY <1>7, <2>1 DEF Bracket, RoundOver, Row
  <2>3. ms[s].status \in {"bye", "done"}
    BY <2>1, <2>2, MatchFacts DEF MatchRow
  <2>4. ms[s].winner \in Drawn(ms, s) /\ Drawn(ms, s) \subseteq players
    BY <2>1, <2>3, MatchFacts
  <2> QED
    BY <2>1, <2>3, <2>4 DEF s, Drawn
<1>8. ASSUME NEW i \in Nat, NEW j \in Nat, i < k, j < k, i # j
      PROVE  Won(i) # Won(j)
  <2>1. <<r, i>> # <<r, j>>
    BY <1>8
  <2>2. Drawn(ms, <<r, i>>) \cap Drawn(ms, <<r, j>>) = {}
    BY <1>7, <1>8, <2>1 DEF Bracket
  <2> QED
    BY <1>7, <1>8, <2>2
<1>9. \A i \in Nat : i < h => /\ 2 * i \in Nat /\ 2 * i + 1 \in Nat
                              /\ 2 * i < k /\ 2 * i + 1 < k
  BY <1>2
<1> HIDE DEF Won
\* The matches of the new round.
<1>10. ASSUME NEW s \in Slot, s[1] = r + 1, s[2] < h
       PROVE  /\ new[s] = Pending(Won(2 * s[2]), Won(2 * s[2] + 1))
              /\ Won(2 * s[2]) \in players /\ Won(2 * s[2] + 1) \in players
              /\ Won(2 * s[2]) # None /\ Won(2 * s[2] + 1) # None
              /\ Won(2 * s[2]) # Won(2 * s[2] + 1)
              /\ Drawn(new, s) = {Won(2 * s[2]), Won(2 * s[2] + 1)}
              /\ new[s].status = "pending" /\ new[s] \in MatchRow
              /\ new[s].p1 = Won(2 * s[2]) /\ new[s].p2 = Won(2 * s[2] + 1)
  <2>1. /\ s[2] \in Nat /\ 2 * s[2] \in Nat /\ 2 * s[2] + 1 \in Nat
        /\ 2 * s[2] < k /\ 2 * s[2] + 1 < k /\ 2 * s[2] # 2 * s[2] + 1
    BY <1>4, <1>9, <1>10
  <2>2. new[s] = Pending(Won(2 * s[2]), Won(2 * s[2] + 1))
    BY <1>5, <1>10
  <2>3. /\ Won(2 * s[2]) \in players /\ Won(2 * s[2] + 1) \in players
        /\ Won(2 * s[2]) # None /\ Won(2 * s[2] + 1) # None
    BY <1>7, <2>1
  <2>4. Won(2 * s[2]) # Won(2 * s[2] + 1)
    BY <1>8, <2>1
  <2>5. /\ new[s].status = "pending" /\ new[s] \in MatchRow
        /\ new[s].p1 = Won(2 * s[2]) /\ new[s].p2 = Won(2 * s[2] + 1)
    <3> DEFINE a == Won(2 * s[2])
               b == Won(2 * s[2] + 1)
    <3>1. new[s] = Pending(a, b) /\ a \in User /\ b \in User
      BY <2>2, <2>3
    <3> HIDE DEF a, b
    <3>2. /\ new[s].status = "pending" /\ new[s] \in MatchRow
          /\ new[s].p1 = a /\ new[s].p2 = b
      BY <3>1 DEF Pending, MatchRow
    <3> QED
      BY <3>2 DEF a, b
  <2> QED
    BY <2>2, <2>3, <2>4, <2>5 DEF Drawn
<1>11. ASSUME NEW s \in Slot, ~(s[1] = r + 1 /\ s[2] < h)
       PROVE  new[s] = ms[s] /\ Drawn(new, s) = Drawn(ms, s)
  BY <1>5, <1>11 DEF Drawn
<1>12. MatchesOK(new)
  <2>1. ASSUME NEW s \in Slot
        PROVE  new[s] \in MatchRow /\ MatchOK(new[s]) /\ Drawn(new, s) \subseteq players
    <3>1. CASE s[1] = r + 1 /\ s[2] < h
      <4>1. /\ new[s].status = "pending" /\ new[s] \in MatchRow
            /\ new[s].p1 # None /\ new[s].p2 # None /\ new[s].p1 # new[s].p2
            /\ Drawn(new, s) \subseteq players
        BY <1>10, <3>1
      <4> QED
        BY <4>1 DEF MatchOK
    <3>2. CASE ~(s[1] = r + 1 /\ s[2] < h)
      BY <1>11, <3>2, MatchFacts
    <3> QED
      BY <3>1, <3>2
  <2>2. new \in [Slot -> MatchRow]
    BY <1>6, <2>1
  <2> QED
    BY <2>1, <2>2 DEF MatchesOK
<1>13. \A s \in Slot : /\ s[1] = 1 => new[s] = ms[s]
                       /\ s[1] <= r => new[s] = ms[s] /\ Drawn(new, s) = Drawn(ms, s)
  BY <1>1, <1>4, <1>11
<1>14. \A s \in Slot : s[1] > r => ms[s].status = "absent" /\ Drawn(ms, s) = {}
  BY MatchFacts DEF Bracket
<1>15. \A s \in Slot : s[1] <= r => new[s].status # "pending"
  <2> SUFFICES ASSUME NEW s \in Slot, s[1] <= r PROVE ms[s].status # "pending"
    BY <1>13
  <2>1. CASE s[1] < r
    BY <2>1 DEF Bracket
  <2>2. CASE s[1] = r
    BY <2>2 DEF RoundOver, Row
  <2> QED
    BY <1>1, <1>4, <2>1, <2>2
<1>16. ASSUME NEW s \in Slot
       PROVE  /\ s[1] > r + 1 => new[s].status = "absent"
              /\ s[1] = r + 1 => (new[s].status # "absent" <=> s[2] < h)
              /\ s[1] < r + 1 => new[s].status # "pending"
              /\ s[1] = r + 1 /\ s[2] < h /\ s[2] < 2 => new[s].p1 # None
  <2>1. CASE s[1] = r + 1 /\ s[2] < h
    BY <1>1, <1>10, <2>1
  <2>2. CASE ~(s[1] = r + 1 /\ s[2] < h)
    BY <1>1, <1>4, <1>11, <1>14, <1>15, <2>2
  <2> QED
    BY <2>1, <2>2
<1>17. ASSUME NEW s \in Slot, NEW t \in Slot, s[1] = r + 1, t[1] = r + 1, s # t
       PROVE  Drawn(new, s) \cap Drawn(new, t) = {}
  <2>1. CASE s[2] < h /\ t[2] < h
    <3>1. s[2] # t[2] /\ s[2] \in Nat /\ t[2] \in Nat
      BY <1>4, <1>17
    <3>2. /\ 2 * s[2] # 2 * t[2] /\ 2 * s[2] # 2 * t[2] + 1
          /\ 2 * s[2] + 1 # 2 * t[2] /\ 2 * s[2] + 1 # 2 * t[2] + 1
      BY <3>1
    <3>3. /\ Won(2 * s[2]) # Won(2 * t[2]) /\ Won(2 * s[2]) # Won(2 * t[2] + 1)
          /\ Won(2 * s[2] + 1) # Won(2 * t[2])
          /\ Won(2 * s[2] + 1) # Won(2 * t[2] + 1)
      BY <1>8, <1>9, <2>1, <3>1, <3>2
    <3> QED
      BY <1>10, <1>17, <2>1, <3>3
  <2>2. CASE ~(s[2] < h /\ t[2] < h)
    <3>1. Drawn(new, s) = {} \/ Drawn(new, t) = {}
      BY <1>1, <1>11, <1>14, <1>17, <2>2
    <3> QED
      BY <3>1
  <2> QED
    BY <2>1, <2>2
\* Those who have won so far are the winners of round r.
<1>18. ASSUME NEW u \in players
       PROVE  InRound(new, r + 1, u) <=> WonBefore(new, r + 1, u)
  <2>1. ASSUME InRound(new, r + 1, u)
        PROVE  \E i \in Nat : i < k /\ u = Won(i)
    <3>1. PICK s \in Slot : s[1] = r + 1 /\ u \in Drawn(new, s)
      BY <2>1 DEF InRound
    <3>2. s[2] < h
      BY <1>1, <1>11, <1>14, <3>1
    <3> QED
      BY <1>4, <1>9, <1>10, <3>1, <3>2
  <2>2. ASSUME NEW i \in Nat, i < k, u = Won(i)
        PROVE  InRound(new, r + 1, u) /\ WonBefore(new, r + 1, u)
    <3>1. PICK j \in Nat : j < h /\ (i = 2 * j \/ i = 2 * j + 1)
      <4>1. i \in {0, 1, 2, 3, 4, 5, 6, 7}
        BY <1>1, <2>2
      <4>2. /\ 0 = 2 * 0 /\ 1 = 2 * 0 + 1 /\ 2 = 2 * 1 /\ 3 = 2 * 1 + 1
            /\ 4 = 2 * 2 /\ 5 = 2 * 2 + 1 /\ 6 = 2 * 3 /\ 7 = 2 * 3 + 1
        OBVIOUS
      <4> QED
        BY <1>2, <2>2, <4>1, <4>2
    <3>2. <<r + 1, j>> \in Slot
      BY <1>2, <3>1, SlotThere
    <3>3. u \in Drawn(new, <<r + 1, j>>)
      BY <1>10, <2>2, <3>1, <3>2
    <3>4. /\ <<r, i>> \in Slot /\ u \in Drawn(ms, <<r, i>>)
          /\ ms[<<r, i>>].winner = u
      BY <1>7, <2>2 DEF Won
    <3>5. u \in Undefeated(ms)
      BY <3>4, StillIn
    <3>6. WonBefore(new, r + 1, u)
      <4>1. \A s \in Slot : s[1] < r + 1 => s[1] <= r
        BY <1>1, <1>4
      <4> QED
        BY <1>13, <3>5, <4>1 DEF WonBefore, Undefeated, Drawn
    <3> QED
      BY <3>2, <3>3, <3>6 DEF InRound
  <2>3. ASSUME WonBefore(new, r + 1, u)
        PROVE  \E i \in Nat : i < k /\ u = Won(i)
    <3>1. \A s \in Slot : s[1] <= r /\ ms[s].status = "done" /\ u \in Drawn(ms, s)
                          => ms[s].winner = u
      BY <1>1, <1>4, <1>13, <2>3 DEF WonBefore
    <3>2. WonBefore(ms, r, u)
      BY <1>1, <1>4, <3>1 DEF WonBefore
    <3>3. PICK s \in Slot : s[1] = r /\ u \in Drawn(ms, s)
      BY <3>2 DEF Bracket, InRound
    <3>4. s[2] < k /\ ms[s].status # "absent" /\ s = <<r, s[2]>>
      BY <1>4, <3>3, MatchFacts DEF Bracket
    <3>5. ms[s].winner = u
      <4>1. CASE ms[s].status = "done"
        BY <1>1, <3>1, <3>3, <4>1
      <4>2. CASE ms[s].status = "bye"
        BY <3>3, <4>2, MatchFacts DEF MatchOK, Drawn
      <4>3. ms[s].status \in {"bye", "done"}
        BY <1>4, <1>7, <3>4
      <4> QED
        BY <4>1, <4>2, <4>3
    <3> QED
      BY <1>4, <3>4, <3>5 DEF Won
  <2> QED
    BY <2>1, <2>2, <2>3
<1>19. Bracket(new, r + 1, h)
  <2>1. h \in {1, 2, 4, 8}
    BY <1>2
  <2> QED
    BY <1>2, <1>16, <1>17, <1>18, <2>1 DEF Bracket
<1>20. Open(new)
  <2>1. <<r + 1, 0>> \in Slot
    BY <1>2, SlotThere
  <2>2. new[<<r + 1, 0>>].status = "pending"
    BY <1>2, <1>10, <2>1
  <2> QED
    BY <2>1, <2>2 DEF Open
<1>21. Undefeated(new) = Undefeated(ms)
  <2>1. ASSUME NEW s \in Slot
        PROVE  /\ new[s].status = "done" <=> ms[s].status = "done"
               /\ ms[s].status = "done" => new[s] = ms[s]
    <3>1. CASE s[1] = r + 1 /\ s[2] < h
      BY <1>1, <1>10, <1>14, <3>1
    <3>2. CASE ~(s[1] = r + 1 /\ s[2] < h)
      BY <1>11, <3>2
    <3> QED
      BY <3>1, <3>2
  <2> QED
    BY <2>1 DEF Undefeated
<1> QED
  BY <1>12, <1>13, <1>19, <1>20, <1>21 DEF new, h

\* A shuffle of the players seats every one of them.
LEMMA ShuffleIsOnto ==
    ASSUME IsFiniteSet(players), NEW order \in Shuffles
    PROVE  /\ Cardinality(players) \in Nat
           /\ \A u \in players :
                 \E i \in 0 .. Cardinality(players) - 1 : order[i] = u
<1> DEFINE n == Cardinality(players)
           D == 0 .. n - 1
<1>1. n \in Nat
  BY FS_CardinalityType
<1>2. order \in [D -> players] /\ \A i, j \in D : order[i] = order[j] => i = j
  BY DEF Shuffles
<1>3. IsFiniteSet(D) /\ Cardinality(D) = n
  <2>1. 0 \in Int /\ n - 1 \in Int
    BY <1>1
  <2>2. IsFiniteSet(D) /\ Cardinality(D) = IF 0 > n - 1 THEN 0 ELSE n - 1 - 0 + 1
    BY <2>1, FS_Interval
  <2> QED
    BY <1>1, <2>2
<1> HIDE DEF D
<1>4. order \in Injection(D, players)
  BY <1>2, Fun_IsInj
<1>5. order \in Surjection(D, players)
  BY <1>3, <1>4, FS_Injection
<1> QED
  BY <1>1, <1>5, Fun_SurjectionProperties DEF D

\* The bracket of a shuffle: a first round that is not over, everybody in it.
LEMMA FirstRoundFacts ==
    ASSUME players \subseteq User, IsFiniteSet(players),
           Cardinality(players) >= 2, Cardinality(players) <= MaxPlayers,
           NEW order \in Shuffles
    PROVE  /\ MatchesOK(FirstRound(order)) /\ Open(FirstRound(order))
           /\ \E k \in {1, 2, 4, 8} : Bracket(FirstRound(order), 1, k)
           /\ ~RoundOver(FirstRound(order), 1)
           /\ Undefeated(FirstRound(order)) = players
           /\ \A u \in players : InRound(FirstRound(order), 1, u)
<1> DEFINE n == Cardinality(players)
           Fits(i) == n <= 2 * i /\ n > i
           k == CHOOSE i \in {1, 2, 4, 8} : Fits(i)
           Seat(i) == IF i < n THEN order[i] ELSE None
           new == FirstRound(order)
<1>1. n \in Nat /\ n >= 2 /\ n <= MaxPlayers /\ 1 \in 1 .. Rounds
  BY ShuffleIsOnto, SlotShape
<1>2. /\ \A i \in Nat : i < n => order[i] \in players
      /\ \A i, j \in Nat : i < n /\ j < n /\ order[i] = order[j] => i = j
      /\ \A u \in players : \E i \in Nat : i < n /\ order[i] = u
  <2>1. \A i \in Nat : i < n <=> i \in 0 .. n - 1
    BY <1>1
  <2>2. /\ order \in [0 .. n - 1 -> players]
        /\ \A i, j \in 0 .. n - 1 : order[i] = order[j] => i = j
    BY DEF Shuffles
  <2>3. \A u \in players : \E i \in 0 .. n - 1 : order[i] = u
    BY ShuffleIsOnto
  <2>4. \A i \in 0 .. n - 1 : i \in Nat /\ i < n
    BY <1>1
  <2> QED
    BY <2>1, <2>2, <2>3, <2>4
<1> HIDE DEF n
<1>3. k \in {1, 2, 4, 8} /\ n <= 2 * k /\ n > k /\ k \in Nat
  <2>1. \E i \in {1, 2, 4, 8} : Fits(i)
    BY <1>1, Basics
  <2> HIDE DEF Fits
  <2>2. k \in {1, 2, 4, 8} /\ Fits(k)
    BY <2>1
  <2> HIDE DEF k
  <2> QED
    BY <2>2 DEF Fits
<1>4. k <= Space(1)
  <2>1. k < MaxPlayers
    BY <1>1, <1>3, Basics
  <2> HIDE DEF k
  <2> QED
    BY <1>3, <2>1, Basics, Spaces
<1>5. \A s \in Slot : s = <<s[1], s[2]>> /\ s[1] \in Nat /\ s[2] \in Nat /\ s[1] > 0
  BY SlotShape
<1>6. \A i \in Nat : /\ Seat(i) \in players \cup {None}
                     /\ i < n => Seat(i) \in players /\ Seat(i) # None
  BY <1>2, Basics
<1>7. \A i, j \in Nat : i # j /\ Seat(i) # None => Seat(i) # Seat(j)
  BY <1>2, <1>6
<1>8. \A u \in players : \E i \in Nat : i < 2 * k /\ Seat(i) = u
  <2> SUFFICES ASSUME NEW u \in players
               PROVE  \E i \in Nat : i < 2 * k /\ Seat(i) = u
    OBVIOUS
  <2>1. PICK i \in Nat : i < n /\ order[i] = u
    BY <1>2
  <2> HIDE DEF k
  <2>2. i < 2 * k
    BY <1>1, <1>3, <2>1
  <2> QED
    BY <2>1, <2>2
<1>9. DOMAIN new = Slot /\ new = [s \in Slot |-> new[s]]
  BY DEF FirstRound
\* The matches, one by one.
<1>10. ASSUME NEW s \in Slot, ~(s[1] = 1 /\ s[2] < k)
       PROVE  new[s] = NoMatch
  BY <1>10 DEF FirstRound, n
<1>11. ASSUME NEW s \in Slot, s[1] = 1, s[2] < k
       PROVE  LET a == Seat(2 * s[2])
                  b == Seat(2 * s[2] + 1)
              IN  new[s] =
                    [p1 |-> a, p2 |-> b,
                     winner |-> IF a # None /\ b # None THEN None
                                ELSE IF a # None THEN a ELSE b,
                     status |-> IF (a = None) # (b = None) THEN "bye"
                                ELSE "pending"]
  BY <1>11 DEF FirstRound, Pending, n
<1> HIDE DEF k, new
<1>12. ASSUME NEW s \in Slot, s[1] = 1, s[2] < k
       PROVE  /\ new[s] \in MatchRow /\ MatchOK(new[s])
              /\ new[s].p1 = Seat(2 * s[2]) /\ new[s].p2 = Seat(2 * s[2] + 1)
              /\ new[s].status \in {"pending", "bye"}
              /\ new[s].p1 # None /\ new[s].p2 # None =>
                    new[s].status = "pending"
              /\ Drawn(new, s) \subseteq players
  <2> DEFINE a == Seat(2 * s[2])
             b == Seat(2 * s[2] + 1)
  <2>1. /\ 2 * s[2] \in Nat /\ 2 * s[2] + 1 \in Nat /\ 2 * s[2] # 2 * s[2] + 1
    BY <1>5
  <2>2. /\ a \in players \cup {None} /\ b \in players \cup {None}
        /\ a = b => a = None
    BY <1>6, <1>7, <2>1
  <2>3. new[s] =
          [p1 |-> a, p2 |-> b,
           winner |-> IF a # None /\ b # None THEN None
                      ELSE IF a # None THEN a ELSE b,
           status |-> IF (a = None) # (b = None) THEN "bye" ELSE "pending"]
    BY <1>11, <1>12
  <2> HIDE DEF a, b
  <2>4. CASE (a = None) <=> (b = None)
    <3>1. /\ new[s].status = "pending" /\ new[s].winner = None
          /\ new[s].p1 = a /\ new[s].p2 = b /\ new[s] \in MatchRow
      BY <2>2, <2>3, <2>4 DEF MatchRow
    <3> QED
      BY <2>2, <2>4, <3>1 DEF MatchOK, Drawn, a, b
  <2>5. CASE ~((a = None) <=> (b = None))
    <3>1. /\ new[s].status = "bye" /\ new[s].p1 = a /\ new[s].p2 = b
          /\ new[s].winner = IF a # None THEN a ELSE b
          /\ new[s] \in MatchRow
      BY <2>2, <2>3, <2>5 DEF MatchRow
    <3> QED
      BY <2>2, <2>5, <3>1 DEF MatchOK, Drawn, a, b
  <2> QED
    BY <2>4, <2>5
<1> HIDE DEF Seat
<1>13. ASSUME NEW s \in Slot, ~(s[1] = 1 /\ s[2] < k)
       PROVE  /\ new[s] \in MatchRow /\ MatchOK(new[s]) /\ Drawn(new, s) = {}
              /\ new[s].status = "absent"
  <2>1. new[s] = NoMatch
    BY <1>10, <1>13
  <2> QED
    BY <2>1 DEF NoMatch, MatchRow, MatchOK, Drawn
<1>14. \A s \in Slot : /\ new[s] \in MatchRow /\ MatchOK(new[s])
                       /\ Drawn(new, s) \subseteq players
                       /\ new[s].status # "done"
  BY <1>12, <1>13
<1>15. MatchesOK(new)
  <2>1. new \in [Slot -> MatchRow]
    BY <1>9, <1>14
  <2> QED
    BY <1>14, <2>1 DEF MatchesOK
<1>16. \A u \in players : InRound(new, 1, u)
  <2> SUFFICES ASSUME NEW u \in players
               PROVE  \E s \in Slot : s[1] = 1 /\ u \in Drawn(new, s)
    BY DEF InRound
  <2>1. PICK i \in Nat : i < 2 * k /\ Seat(i) = u
    BY <1>8
  <2>2. PICK j \in Nat : j < k /\ (i = 2 * j \/ i = 2 * j + 1)
    <3>1. i \in 0 .. 15
      BY <1>3, <2>1
    <3>2. CASE i \in {0, 1, 2, 3, 4, 5, 6, 7}
      <4>1. \E j \in {0, 1, 2, 3} : i = 2 * j \/ i = 2 * j + 1
        BY <3>2
      <4> QED
        BY <1>3, <2>1, <4>1
    <3>3. CASE i \in {8, 9, 10, 11, 12, 13, 14, 15}
      <4>1. \E j \in {4, 5, 6, 7} : i = 2 * j \/ i = 2 * j + 1
        BY <3>3
      <4> QED
        BY <1>3, <2>1, <4>1
    <3> QED
      BY <3>1, <3>2, <3>3
  <2>3. <<1, j>> \in Slot
    BY <1>1, <1>3, <1>4, <2>2, SlotThere
  <2>4. /\ new[<<1, j>>].p1 = Seat(2 * j) /\ new[<<1, j>>].p2 = Seat(2 * j + 1)
    BY <1>12, <2>2, <2>3
  <2>5. u # None
    BY Basics
  <2>6. u \in Drawn(new, <<1, j>>)
    BY <2>1, <2>2, <2>4, <2>5 DEF Drawn
  <2> QED
    BY <2>3, <2>6
<1>17. ASSUME NEW s \in Slot, NEW t \in Slot, s[1] = 1, t[1] = 1, s # t
       PROVE  Drawn(new, s) \cap Drawn(new, t) = {}
  <2>1. CASE s[2] < k /\ t[2] < k
    <3>1. s[2] # t[2] /\ s[2] \in Nat /\ t[2] \in Nat
      BY <1>5, <1>17
    <3>2. /\ 2 * s[2] # 2 * t[2] /\ 2 * s[2] # 2 * t[2] + 1
          /\ 2 * s[2] + 1 # 2 * t[2] /\ 2 * s[2] + 1 # 2 * t[2] + 1
          /\ 2 * s[2] \in Nat /\ 2 * s[2] + 1 \in Nat
          /\ 2 * t[2] \in Nat /\ 2 * t[2] + 1 \in Nat
      BY <3>1
    <3>3. /\ Drawn(new, s) = {Seat(2 * s[2]), Seat(2 * s[2] + 1)} \ {None}
          /\ Drawn(new, t) = {Seat(2 * t[2]), Seat(2 * t[2] + 1)} \ {None}
      BY <1>12, <1>17, <2>1 DEF Drawn
    <3>4. \A x \in {Seat(2 * s[2]), Seat(2 * s[2] + 1)} \ {None} :
             x \notin {Seat(2 * t[2]), Seat(2 * t[2] + 1)}
      BY <1>7, <3>2
    <3> QED
      BY <3>3, <3>4
  <2>2. CASE ~(s[2] < k /\ t[2] < k)
    BY <1>13, <2>2
  <2> QED
    BY <2>1, <2>2
<1>18. \A s \in Slot : s[2] < 2 /\ s[2] < k /\ s[1] = 1 => new[s].p1 # None
  <2> SUFFICES ASSUME NEW s \in Slot, s[2] < 2, s[2] < k, s[1] = 1
               PROVE  new[s].p1 # None
    OBVIOUS
  <2>1. 2 * s[2] \in Nat /\ 2 * s[2] < n
    BY <1>1, <1>3, <1>5
  <2>2. Seat(2 * s[2]) # None
    BY <1>6, <2>1
  <2> QED
    BY <1>12, <2>2
<1>19. Bracket(new, 1, k)
  <2>1. \A s \in Slot : /\ s[1] > 1 => new[s].status = "absent"
                        /\ s[1] = 1 => (new[s].status # "absent" <=> s[2] < k)
                        /\ s[1] < 1 => new[s].status # "pending"
    BY <1>5, <1>12, <1>13
  <2>2. \A u \in players : InRound(new, 1, u) <=> WonBefore(new, 1, u)
    BY <1>14, <1>16 DEF WonBefore
  <2> QED
    BY <1>1, <1>3, <1>4, <1>17, <1>18, <2>1, <2>2 DEF Bracket
<1>20. <<1, 0>> \in Slot /\ new[<<1, 0>>].status = "pending"
  <2>1. <<1, 0>> \in Slot
    BY <1>1, <1>3, <1>4, SlotThere
  <2>2. Seat(0) # None /\ Seat(1) # None
    BY <1>1, <1>6
  <2>3. 0 < k /\ 2 * 0 = 0 /\ 2 * 0 + 1 = 1
    BY <1>3
  <2> QED
    BY <1>12, <2>1, <2>2, <2>3
<1>21. Open(new) /\ ~RoundOver(new, 1)
  BY <1>20 DEF Open, RoundOver, Row
<1>22. Undefeated(new) = players
  BY <1>14 DEF Undefeated
<1> QED
  BY <1>3, <1>15, <1>16, <1>19, <1>21, <1>22 DEF new
-----------------------------------------------------------------------------
(* Steps.                                                                  *)

\* A step of the tournament as a step of Elimination.
ElimStep == [Promise!ElimNext]_(Promise!elimVars)

\* Elimination counts as the tournament does.
LEMMA SameCount == \A S : Promise!Cardinality(S) = Cardinality(S)
  BY DEF Promise!Cardinality, Cardinality

\* Two members make more than one.
LEMMA MoreThanOne ==
    ASSUME NEW S, IsFiniteSet(S), NEW a \in S, NEW b \in S, a # b
    PROVE  Cardinality(S) > 1
<1>1. IsFiniteSet({a}) /\ Cardinality({a}) = 1
  BY FS_Singleton
<1>2. {a, b} = {a} \cup {b}
  OBVIOUS
<1>3. IsFiniteSet({a, b}) /\ Cardinality({a, b}) = 2
  BY <1>1, <1>2, FS_AddElement
<1>4. {a, b} \in SUBSET S
  OBVIOUS
<1>5. Cardinality({a, b}) <= Cardinality(S) /\ Cardinality(S) \in Nat
  BY <1>4, FS_Subset, FS_CardinalityType
<1> QED
  BY <1>3, <1>5

\* What is said of the new matches holds in the next state.
LEMMA NextMatches ==
    ASSUME players' = players
    PROVE  /\ MatchesOK(match') => MatchesOK(match)'
           /\ \A r, k : Bracket(match', r, k) => Bracket(match, r, k)'
           /\ Open(match') <=> Open(match)'
           /\ \A u : InRound(match', 1, u) => InRound(match, 1, u)'
           /\ \A s : Drawn(match', s) = Drawn(match, s)'
           /\ Undefeated(match') = Undefeated(match)'
<1>1. MatchesOK(match') => MatchesOK(match)'
  BY DEF MatchesOK, Drawn
<1>2. ASSUME NEW r, NEW k, Bracket(match', r, k)
      PROVE  Bracket(match, r, k)'
  BY <1>2 DEF Bracket, InRound, WonBefore, Drawn
<1>3. /\ Open(match') <=> Open(match)'
      /\ \A u : InRound(match', 1, u) => InRound(match, 1, u)'
      /\ \A s : Drawn(match', s) = Drawn(match, s)'
      /\ Undefeated(match') = Undefeated(match)'
  BY DEF Open, InRound, Drawn, Undefeated
<1> QED
  BY <1>1, <1>2, <1>3

\* No tournament yet.
LEMMA CupInitOK == TournamentInit => CupInv /\ Promise!ElimInit
<1> SUFFICES ASSUME TournamentInit PROVE CupInv /\ Promise!ElimInit
  OBVIOUS
<1>1. /\ status = "none" /\ players = {} /\ winner = None
      /\ match = [s \in Slot |-> NoMatch]
      /\ lock = [s \in Slot \cup {Cup} |-> None] /\ tx = [c \in Conn |-> Idle]
  BY DEF TournamentInit
<1>2. \A s \in Slot : match[s] = NoMatch
  BY <1>1
<1>3. NoMatch \in MatchRow /\ MatchOK(NoMatch) /\ NoMatch.status = "absent"
  BY DEF NoMatch, MatchRow, MatchOK
<1>4. MatchesOK(match)
  <2>1. \A s \in Slot : Drawn(match, s) = {}
    BY <1>2 DEF Drawn, NoMatch
  <2>2. match \in [Slot -> MatchRow]
    BY <1>1, <1>3
  <2> QED
    BY <1>2, <1>3, <2>1, <2>2 DEF MatchesOK
<1>5. RowsOK
  <2>1. Cardinality(players) <= MaxPlayers /\ IsFiniteSet(players)
    BY <1>1, FS_EmptySet, Basics
  <2> QED
    BY <1>1, <1>2, <1>3, <1>4, <2>1 DEF RowsOK, Begun
<1>6. LocksOK
  <2>1. Idle \in Tx /\ Idle.at = "idle"
    BY DEF Idle, Tx
  <2> QED
    BY <1>1, <2>1 DEF LocksOK
<1>7. DrawOK /\ BracketOK
  BY <1>1 DEF DrawOK, BracketOK, Begun
<1>8. Promise!ElimInit
  BY <1>1 DEF Promise!ElimInit, Alive
<1> QED
  BY <1>5, <1>6, <1>7, <1>8 DEF CupInv

\* Locks and refusals change no row.
LEMMA RowsSame ==
    ASSUME RowsOK, DrawOK, BracketOK, UNCHANGED rows
    PROVE  RowsOK' /\ DrawOK' /\ BracketOK' /\ ElimStep
<1> USE DEF rows
<1>1. RowsOK'
  BY DEF RowsOK, Begun, MatchesOK, Drawn
<1>2. DrawOK'
  BY DEF DrawOK, Begun, InRound, Drawn
<1>3. BracketOK'
  <2>1. (Begun' <=> Begun) /\ match' = match /\ players' = players
    BY DEF Begun
  <2>2. ASSUME Begun
        PROVE  \E r \in 1 .. Rounds, k \in {1, 2, 4, 8} : Bracket(match, r, k)'
    BY <2>1, <2>2, NextMatches DEF BracketOK
  <2>3. Open(match)' <=> Open(match)
    BY <2>1, NextMatches
  <2> QED
    BY <2>1, <2>2, <2>3 DEF BracketOK
<1>4. Alive' = Alive
  BY DEF Alive
<1> QED
  BY <1>1, <1>2, <1>3, <1>4 DEF ElimStep, Promise!elimVars

\* COMMIT and ROLLBACK release locks: the reports of others go on, provided
\* the commit leaves the pending matches of others alone.
LEMMA EndLocks ==
    ASSUME LocksOK, NEW c \in Conn, End(c),
           \A s \in Slot : match[s].status = "pending" /\ lock[s] # c
                           => match'[s] = match[s]
    PROVE  LocksOK'
<1>1. /\ lock \in [Slot \cup {Cup} -> Conn \cup {None}] /\ tx \in [Conn -> Tx]
      /\ Idle \in Tx /\ Idle.at = "idle" /\ None \notin Conn
  BY Basics DEF LocksOK, Idle, Tx
<1>2. /\ tx' = [tx EXCEPT ![c] = Idle]
      /\ lock' = [s \in DOMAIN lock |-> IF lock[s] = c THEN None ELSE lock[s]]
  BY DEF End
<1>3. /\ tx' \in [Conn -> Tx] /\ lock' \in [Slot \cup {Cup} -> Conn \cup {None}]
      /\ tx'[c] = Idle /\ \A d \in Conn : d # c => tx'[d] = tx[d]
      /\ \A s \in Slot \cup {Cup} :
            lock'[s] = IF lock[s] = c THEN None ELSE lock[s]
  BY <1>1, <1>2
<1>4. \A s \in DOMAIN lock' : lock'[s] # None => tx'[lock'[s]].at # "idle"
  BY <1>1, <1>3 DEF LocksOK
<1>5. ASSUME NEW d \in Conn, d # c, tx[d].at \in {"cup", "round"}
      PROVE  /\ tx[d].slot \in Slot /\ lock'[tx[d].slot] = d
             /\ tx[d].pick \in User /\ tx[d].user \in User
             /\ Reportable(tx[d].user, tx[d].slot, tx[d].pick)'
  <2>1. /\ tx[d].slot \in Slot /\ lock[tx[d].slot] = d
        /\ tx[d].pick \in User /\ tx[d].user \in User
        /\ Reportable(tx[d].user, tx[d].slot, tx[d].pick)
    BY <1>5 DEF LocksOK
  <2>2. match'[tx[d].slot] = match[tx[d].slot]
    BY <1>5, <2>1 DEF Reportable
  <2>3. tx'[d] = tx[d]
    BY <1>3, <1>5
  <2> QED
    BY <1>3, <1>5, <2>1, <2>2, <2>3 DEF Reportable
<1> QED
  BY <1>1, <1>3, <1>4, <1>5 DEF LocksOK, Reportable

\* A lock taken by c takes none away from a report.
LEMMA LockStep ==
    ASSUME CupInv, NEW c \in Conn,
           \/ \E u \in User : LockCup(c, "join", u) \/ LockCup(c, "start", u)
           \/ \E u, p \in User, s \in Slot : LockMatch(c, u, s, p)
           \/ LockAdvance(c) \/ LockRound(c)
    PROVE  CupInv' /\ ElimStep
<1>1. /\ lock \in [Slot \cup {Cup} -> Conn \cup {None}] /\ tx \in [Conn -> Tx]
      /\ None \notin Conn /\ Cup \notin Slot
      /\ RowsOK /\ LocksOK /\ DrawOK /\ BracketOK
  BY Basics, SlotShape DEF CupInv, LocksOK
<1>2. UNCHANGED rows
  BY DEF LockCup, LockMatch, LockAdvance, LockRound
<1>3. RowsOK' /\ DrawOK' /\ BracketOK' /\ ElimStep
  BY <1>1, <1>2, RowsSame
<1>4. \A u, p \in User, s \in Slot : Reportable(u, s, p) => Reportable(u, s, p)'
  BY <1>2 DEF Reportable, rows
\* In each case one lock and one transaction change.
<1>5. ASSUME NEW x, NEW new \in Tx, new.at # "idle", lock[x] \in {None, c},
             lock' = [lock EXCEPT ![x] = c], tx' = [tx EXCEPT ![c] = new],
             new.at = "write" => new.op \in {"join", "start"} /\ new.user \in User,
             new.at \in {"cup", "round"} =>
                /\ new.slot \in Slot /\ lock'[new.slot] = c
                /\ new.pick \in User /\ new.user \in User
                /\ Reportable(new.user, new.slot, new.pick)
      PROVE  LocksOK'
  <2>1. /\ lock' \in [Slot \cup {Cup} -> Conn \cup {None}] /\ tx' \in [Conn -> Tx]
        /\ tx'[c] = new /\ \A d \in Conn : d # c => tx'[d] = tx[d]
        /\ \A s \in Slot \cup {Cup} : lock'[s] = IF s = x THEN c ELSE lock[s]
    BY <1>1, <1>5
  <2>2. \A s \in DOMAIN lock' : lock'[s] # None => tx'[lock'[s]].at # "idle"
    BY <1>1, <1>5, <2>1 DEF LocksOK
  <2>3. ASSUME NEW d \in Conn, d # c
        PROVE  /\ tx'[d].at = "idle" => tx'[d] = Idle
               /\ tx'[d].at = "write" => /\ tx'[d].op \in {"join", "start"}
                                         /\ tx'[d].user \in User
               /\ tx'[d].at \in {"cup", "round"} =>
                     /\ tx'[d].slot \in Slot /\ lock'[tx'[d].slot] = d
                     /\ tx'[d].pick \in User /\ tx'[d].user \in User
                     /\ Reportable(tx[d].user, tx[d].slot, tx[d].pick)'
    BY <1>1, <1>4, <1>5, <2>1, <2>3 DEF LocksOK
  <2>4. \A u, p \in User, s \in Slot :
           Reportable(u, s, p)' <=> Reportable(u, s, p)
    BY <1>2 DEF Reportable, rows
  <2> QED
    BY <1>2, <1>5, <2>1, <2>2, <2>3, <2>4 DEF LocksOK, Reportable, rows
<1>6. ASSUME NEW op \in {"join", "start"}, NEW u \in User, LockCup(c, op, u)
      PROVE  LocksOK'
  <2> DEFINE new == [Idle EXCEPT !.op = op, !.user = u, !.at = "write"]
  <2>1. /\ new \in Tx /\ new.at = "write" /\ new.op = op /\ new.user = u
    BY DEF Idle, Tx
  <2>2. /\ lock[Cup] \in {None, c} /\ lock' = [lock EXCEPT ![Cup] = c]
        /\ tx' = [tx EXCEPT ![c] = new]
    BY <1>6 DEF LockCup
  <2> HIDE DEF new
  <2> QED
    BY <1>5, <2>1, <2>2
<1>7. ASSUME NEW u \in User, NEW p \in User, NEW s \in Slot, LockMatch(c, u, s, p)
      PROVE  LocksOK'
  <2> DEFINE new == [op |-> "report", user |-> u, slot |-> s, pick |-> p,
                     at |-> "cup"]
  <2>1. /\ new \in Tx /\ new.at = "cup" /\ new.slot = s /\ new.pick = p
        /\ new.user = u
    BY DEF Tx
  <2>2. /\ lock[s] \in {None, c} /\ lock' = [lock EXCEPT ![s] = c]
        /\ tx' = [tx EXCEPT ![c] = new] /\ Reportable(u, s, p)
    BY <1>7 DEF LockMatch
  <2>3. lock'[s] = c
    BY <1>1, <2>2
  <2> HIDE DEF new
  <2> QED
    BY <1>5, <2>1, <2>2, <2>3
<1>8. ASSUME NEW x, Hold(x, c, "round"), tx[c].at \in {"cup", "round"}
      PROVE  LocksOK'
  <2> DEFINE new == [tx[c] EXCEPT !.at = "round"]
  <2>1. /\ new \in Tx /\ new.at = "round" /\ new.slot = tx[c].slot
        /\ new.pick = tx[c].pick /\ new.user = tx[c].user
    BY <1>1 DEF Tx
  <2>2. /\ lock[x] \in {None, c} /\ lock' = [lock EXCEPT ![x] = c]
        /\ tx' = [tx EXCEPT ![c] = new]
    BY <1>1, <1>8 DEF Hold, Free
  <2>3. /\ tx[c].slot \in Slot /\ lock[tx[c].slot] = c
        /\ tx[c].pick \in User /\ tx[c].user \in User
        /\ Reportable(tx[c].user, tx[c].slot, tx[c].pick)
    BY <1>1, <1>8 DEF LocksOK
  <2>4. lock'[tx[c].slot] = c
    BY <1>1, <2>2, <2>3
  <2> HIDE DEF new
  <2> QED
    BY <1>5, <2>1, <2>2, <2>3, <2>4
<1>9. LocksOK'
  BY <1>6, <1>7, <1>8 DEF LockAdvance, LockRound
<1> QED
  BY <1>3, <1>9 DEF CupInv

\* A transaction that ends without a write.
LEMMA EndStep ==
    ASSUME CupInv, NEW c \in Conn, Refuse(c) \/ Victim(c) \/ Fail(c)
    PROVE  CupInv' /\ ElimStep
<1>1. End(c) /\ UNCHANGED rows
  BY DEF Refuse, Victim, Fail
<1>2. LocksOK'
  BY <1>1, EndLocks DEF CupInv, rows
<1> QED
  BY <1>1, <1>2, RowsSame DEF CupInv

\* Creation: its creator is the first entrant.
LEMMA CreateStep ==
    ASSUME CupInv, Create
    PROVE  CupInv' /\ ElimStep
<1>1. /\ status = "none" /\ status' = "open" /\ players' = {Creator}
      /\ UNCHANGED <<winner, match, lock, tx>>
      /\ RowsOK /\ LocksOK /\ DrawOK /\ BracketOK /\ players = {}
  BY DEF CupInv, Create, RowsOK
<1>2. RowsOK'
  <2>1. IsFiniteSet(players') /\ Cardinality(players') <= MaxPlayers
    <3>1. IsFiniteSet({Creator}) /\ Cardinality({Creator}) = 1
      BY FS_Singleton
    <3> QED
      BY <1>1, <3>1, Basics
  <2>2. MatchesOK(match)'
    BY <1>1 DEF RowsOK, MatchesOK, Drawn
  <2> QED
    BY <1>1, <2>1, <2>2, Basics DEF RowsOK, Begun
<1>3. LocksOK'
  BY <1>1 DEF LocksOK, Reportable
<1>4. DrawOK' /\ BracketOK'
  BY <1>1 DEF DrawOK, BracketOK, Begun
<1>5. Promise!Announce(Creator)
  BY <1>1 DEF Promise!Announce, Alive
<1> QED
  BY <1>2, <1>3, <1>4, <1>5, Basics DEF CupInv, ElimStep, Promise!ElimNext

\* A join that commits: one more entrant, of those there is a place for.
LEMMA JoinStep ==
    ASSUME CupInv, NEW c \in Conn, CommitJoin(c)
    PROVE  CupInv' /\ ElimStep
<1> DEFINE u == tx[c].user
<1>1. /\ status = "open" /\ u \notin players /\ Cardinality(players) < MaxPlayers
      /\ players' = players \cup {u} /\ End(c)
      /\ UNCHANGED <<status, winner, match>>
      /\ RowsOK /\ LocksOK /\ DrawOK /\ BracketOK
  BY DEF CupInv, CommitJoin, MayJoin
<1>2. u \in User
  BY DEF CupInv, CommitJoin, LocksOK
<1> HIDE DEF u
<1>3. RowsOK'
  <2>1. /\ players \subseteq User /\ IsFiniteSet(players)
        /\ Cardinality(players) \in Nat
    BY <1>1, FS_CardinalityType DEF RowsOK
  <2>2. IsFiniteSet(players') /\ Cardinality(players') <= MaxPlayers
    <3>1. /\ IsFiniteSet(players \cup {u})
          /\ Cardinality(players \cup {u}) = Cardinality(players) + 1
      BY <1>1, <2>1, FS_AddElement
    <3>2. Cardinality(players) + 1 <= MaxPlayers
      BY <1>1, <2>1, Basics
    <3> QED
      BY <1>1, <3>1, <3>2
  <2>3. MatchesOK(match)'
    BY <1>1 DEF RowsOK, MatchesOK, Drawn
  <2> QED
    BY <1>1, <1>2, <2>1, <2>2, <2>3 DEF RowsOK, Begun
<1>4. LocksOK'
  <2>1. \A s \in Slot : match'[s] = match[s]
    BY <1>1
  <2> QED
    BY <1>1, <2>1, EndLocks
<1>5. DrawOK' /\ BracketOK'
  BY <1>1 DEF DrawOK, BracketOK, Begun
<1>6. Promise!Enter(u)
  <2>1. Alive' = Alive
    BY <1>1 DEF Alive
  <2> QED
    BY <1>1, <2>1, SameCount DEF Promise!Enter
<1> QED
  BY <1>2, <1>3, <1>4, <1>5, <1>6 DEF CupInv, ElimStep, Promise!ElimNext

\* The start: the shuffle seats every entrant, and nobody is out yet.
LEMMA StartStep ==
    ASSUME CupInv, NEW c \in Conn, CommitStart(c)
    PROVE  CupInv' /\ ElimStep
<1>1. /\ status = "open" /\ Cardinality(players) >= 2 /\ End(c)
      /\ players' = players /\ RowsOK /\ LocksOK /\ DrawOK /\ BracketOK
      /\ players \subseteq User /\ IsFiniteSet(players)
      /\ Cardinality(players) <= MaxPlayers
  BY DEF CupInv, CommitStart, MayStart, RowsOK
<1>2. PICK order \in Shuffles :
        AdvanceRound("in_progress", FirstRound(order), 1)
  BY DEF CommitStart
<1> DEFINE new == FirstRound(order)
<1>3. /\ MatchesOK(new) /\ Open(new) /\ ~RoundOver(new, 1)
      /\ \E k \in {1, 2, 4, 8} : Bracket(new, 1, k)
      /\ Undefeated(new) = players
      /\ \A u \in players : InRound(new, 1, u)
  BY <1>1, FirstRoundFacts
<1> HIDE DEF new
<1>4. match' = new /\ status' = "in_progress" /\ winner' = winner
  BY <1>2, <1>3 DEF AdvanceRound, new
<1>5. RowsOK'
  <2>1. MatchesOK(match)'
    BY <1>1, <1>3, <1>4, NextMatches
  <2> QED
    BY <1>1, <1>4, <2>1 DEF RowsOK, Begun
<1>6. LocksOK'
  <2>1. \A s \in Slot : match[s].status = "absent"
    BY <1>1 DEF RowsOK, Begun
  <2> QED
    BY <1>1, <2>1, EndLocks
<1>7. PICK k \in {1, 2, 4, 8} : Bracket(new, 1, k)
  BY <1>3
<1>8. DrawOK'
  <2>1. \A s, t \in Slot : s[1] = 1 /\ t[1] = 1 /\ s # t
                           => Drawn(new, s) \cap Drawn(new, t) = {}
    BY <1>7 DEF Bracket
  <2>2. \A u \in players' : InRound(match, 1, u)'
    BY <1>1, <1>3, <1>4, NextMatches
  <2>3. \A s : Drawn(new, s) = Drawn(match, s)'
    BY <1>1, <1>4, NextMatches
  <2> QED
    BY <2>1, <2>2, <2>3 DEF DrawOK
<1>9. BracketOK'
  <2>1. Bracket(match, 1, k)' /\ Open(match)'
    BY <1>1, <1>3, <1>4, <1>7, NextMatches
  <2>2. (Rounds \in Nat /\ 1 \in 1 .. Rounds)'
    BY SlotShape
  <2> QED
    BY <1>4, <2>1, <2>2 DEF BracketOK, Begun
<1>10. Promise!Draw
  <2>1. Alive' = players
    <3>1. Undefeated(match)' = players
      BY <1>1, <1>3, <1>4, NextMatches
    <3> QED
      BY <1>4, <3>1 DEF Alive, Undefeated
  <2>2. Cardinality(players) > 1
    <3>1. Cardinality(players) \in Nat
      BY <1>1, FS_CardinalityType
    <3> QED
      BY <1>1, <3>1
  <2> QED
    BY <1>1, <1>4, <2>1, <2>2, SameCount DEF Promise!Draw
<1> QED
  BY <1>5, <1>6, <1>8, <1>9, <1>10 DEF CupInv, ElimStep, Promise!ElimNext

\* A report that commits knocks out the loser; the round ends with the last
\* match, and the tournament with the last round.
LEMMA ReportStep ==
    ASSUME CupInv, NEW c \in Conn, CommitReport(c)
    PROVE  CupInv' /\ ElimStep
<1> DEFINE s  == tx[c].slot
           p  == tx[c].pick
           ms == Reported(match, s, p)
<1>1. /\ RowsOK /\ LocksOK /\ DrawOK /\ BracketOK /\ End(c)
      /\ players' = players /\ players \subseteq User /\ IsFiniteSet(players)
      /\ MatchesOK(match) /\ winner \in User \cup {None}
  BY DEF CupInv, CommitReport, RowsOK
<1>2. /\ s \in Slot /\ lock[s] = c /\ p \in User
      /\ match[s].status = "pending" /\ p \in {match[s].p1, match[s].p2}
  BY <1>1 DEF CommitReport, LocksOK, Reportable
<1>3. AdvanceRound(status, ms, s[1])
  BY DEF CommitReport, Reported
<1> HIDE DEF s, p
<1>4. Begun /\ status = "in_progress"
  BY <1>1, <1>2 DEF RowsOK, BracketOK, Open
<1>5. PICK r \in 1 .. Rounds, k \in {1, 2, 4, 8} : Bracket(match, r, k)
  BY <1>1, <1>4 DEF BracketOK
<1>6. /\ s[1] = r /\ MatchesOK(ms) /\ Bracket(ms, r, k)
      /\ ms[s].status = "done" /\ ms[s].winner = p
      /\ \A t \in Slot : Drawn(ms, t) = Drawn(match, t)
      /\ \E q \in Undefeated(match) : Undefeated(ms) = Undefeated(match) \ {q}
  BY <1>1, <1>2, <1>5, ReportFacts
<1>7. PICK q \in Undefeated(match) : Undefeated(ms) = Undefeated(match) \ {q}
  BY <1>6
<1>8. \A t \in Slot : t # s => ms[t] = match[t]
  BY <1>1, <1>2 DEF Reported, MatchesOK
<1> HIDE DEF ms
<1>9. /\ Cardinality(Row(ms, r)) = k /\ Row(ms, r) # {} /\ r \in Nat
      /\ \A t \in Slot : t[1] \in Nat
  BY <1>6, RowSize, SlotShape
<1>10. q \in User /\ Alive = Undefeated(match)
  BY <1>1, <1>4 DEF Undefeated, Alive
\* What every outcome has in common.
<1>11. ASSUME NEW i \in 1 .. Rounds, NEW j \in {1, 2, 4, 8},
              MatchesOK(match'), Bracket(match', i, j),
              Undefeated(match') = Undefeated(ms),
              \A t \in Slot : t[1] = 1 => match'[t] = ms[t],
              \A t \in Slot : t # s /\ match[t].status = "pending"
                              => match'[t] = match[t],
              status' \in {"in_progress", "finished"},
              winner' \in User \cup {None},
              status' = "in_progress" <=> Open(match'),
              \/ /\ status' = status /\ winner' = winner
                 /\ \E a, b \in Undefeated(ms) : a # b
              \/ /\ status' = "finished" /\ winner' # None
                 /\ Undefeated(ms) = {winner'}
       PROVE  CupInv' /\ ElimStep
  <2>1. Begun'
    BY <1>11 DEF Begun
  <2>2. RowsOK'
    <3>1. MatchesOK(match)'
      BY <1>1, <1>11, NextMatches
    <3> QED
      BY <1>1, <1>11, <2>1, <3>1 DEF RowsOK
  <2>3. LocksOK'
    BY <1>1, <1>2, <1>11, EndLocks
  <2>4. DrawOK'
    <3>1. \A t \in Slot : t[1] = 1 => Drawn(match', t) = Drawn(match, t)
      BY <1>6, <1>11 DEF Drawn
    <3>2. \A u \in players : InRound(match', 1, u)
      BY <1>1, <1>4, <3>1 DEF DrawOK, InRound
    <3>3. \A u \in players' : InRound(match, 1, u)'
      BY <1>1, <3>2, NextMatches
    <3>4. \A a, b \in Slot : a[1] = 1 /\ b[1] = 1 /\ a # b
                             => Drawn(match', a) \cap Drawn(match', b) = {}
      BY <1>1, <1>4, <3>1 DEF DrawOK
    <3>5. \A t : Drawn(match', t) = Drawn(match, t)'
      BY <1>1, NextMatches
    <3> QED
      BY <3>3, <3>4, <3>5 DEF DrawOK
  <2>5. BracketOK'
    <3>1. Bracket(match, i, j)' /\ (Open(match') <=> Open(match)')
      BY <1>1, <1>11, NextMatches
    <3>2. (i \in 1 .. Rounds)'
      BY <1>11
    <3> QED
      BY <1>11, <3>1, <3>2 DEF BracketOK
  <2>6. Promise!KnockOut(q)
    <3>1. Alive' = Undefeated(ms)
      <4>1. Undefeated(match)' = Undefeated(ms)
        BY <1>1, <1>11, NextMatches
      <4> QED
        BY <1>11, <4>1 DEF Alive, Undefeated
    <3>2. Alive' = Alive \ {q} /\ q \in Alive
      BY <1>7, <1>10, <3>1
    <3>3. CASE /\ status' = status /\ winner' = winner
               /\ \E a, b \in Undefeated(ms) : a # b
      <4>1. IsFiniteSet(Undefeated(ms))
        <5>1. Undefeated(ms) \in SUBSET players
          BY DEF Undefeated
        <5> QED
          BY <1>1, <5>1, FS_Subset
      <4>2. Cardinality(Alive') > 1
        BY <3>1, <3>3, <4>1, MoreThanOne
      <4> QED
        BY <1>1, <1>4, <3>2, <3>3, <4>2, SameCount DEF Promise!KnockOut
    <3>4. CASE /\ status' = "finished" /\ winner' # None
               /\ Undefeated(ms) = {winner'}
      BY <1>1, <1>4, <3>1, <3>2, <3>4 DEF Promise!KnockOut
    <3> QED
      BY <1>11, <3>3, <3>4
  <2> QED
    BY <1>10, <2>2, <2>3, <2>4, <2>5, <2>6
    DEF CupInv, ElimStep, Promise!ElimNext
<1>12. CASE ~RoundOver(ms, r)
  <2>1. match' = ms /\ status' = status /\ winner' = winner
    BY <1>3, <1>6, <1>12 DEF AdvanceRound
  <2>2. PICK t \in Slot : t[1] = r /\ ms[t].status = "pending"
    BY <1>9, <1>12 DEF RoundOver, Row
  <2>3. k # 1
    <3> SUFFICES ASSUME k = 1 PROVE FALSE
      OBVIOUS
    <3>1. t[2] \in Nat /\ t[2] < 1 /\ t = <<t[1], t[2]>>
      BY <1>6, <2>2, SlotShape DEF Bracket
    <3>2. s = <<r, 0>>
      BY <1>1, <1>2, <1>6, OneLeft
    <3>3. t = s
      BY <2>2, <3>1, <3>2
    <3> QED
      BY <1>6, <2>2, <3>3
  <2>4. \E a, b \in Undefeated(ms) : a # b
    BY <1>1, <1>6, <2>3, TwoLeft
  <2>5. Open(ms)
    BY <2>2 DEF Open
  <2> QED
    BY <1>1, <1>4, <1>5, <1>6, <1>8, <1>11, <2>1, <2>4, <2>5
<1>13. CASE RoundOver(ms, r) /\ k = 1
  <2>1. s = <<r, 0>> /\ Undefeated(ms) = {p}
    BY <1>1, <1>2, <1>6, <1>13, OneLeft
  <2>2. match' = ms /\ status' = "finished" /\ winner' = p
    BY <1>3, <1>4, <1>6, <1>9, <1>13, <2>1 DEF AdvanceRound
  <2>3. ~Open(ms)
    <3> SUFFICES ASSUME NEW t \in Slot, ms[t].status = "pending" PROVE FALSE
      BY DEF Open
    <3>1. t[1] = r
      BY <1>6, <1>9 DEF Bracket
    <3> QED
      BY <1>13, <3>1 DEF RoundOver, Row
  <2>4. p # None
    BY <1>2, Basics
  <2> QED
    BY <1>2, <1>5, <1>6, <1>8, <1>11, <2>1, <2>2, <2>3, <2>4
<1>14. CASE RoundOver(ms, r) /\ k # 1
  <2> DEFINE new == NextRound(ms, r)
  <2>1. match' = new /\ status' = status /\ winner' = winner
    BY <1>3, <1>4, <1>6, <1>9, <1>14 DEF AdvanceRound
  <2>2. /\ MatchesOK(new) /\ Bracket(new, r + 1, k \div 2) /\ Open(new)
        /\ Undefeated(new) = Undefeated(ms)
        /\ \A t \in Slot : t[1] = 1 => new[t] = ms[t]
    BY <1>1, <1>6, <1>14, NextRoundFacts
  <2>3. \A t \in Slot : ms[t].status # "absent" => new[t] = ms[t]
    BY DEF NextRound
  <2> HIDE DEF new
  <2>4. r + 1 \in 1 .. Rounds /\ k \div 2 \in {1, 2, 4, 8}
    BY <2>2 DEF Bracket
  <2>5. \E a, b \in Undefeated(ms) : a # b
    BY <1>1, <1>6, <1>14, TwoLeft
  <2>6. \A t \in Slot : t # s /\ match[t].status = "pending" => new[t] = match[t]
    BY <1>8, <2>3
  <2> QED
    BY <1>1, <1>4, <1>11, <2>1, <2>2, <2>4, <2>5, <2>6
<1> QED
  BY <1>12, <1>13, <1>14

\* Nothing changes.
LEMMA CupStutter ==
    ASSUME CupInv, UNCHANGED vars
    PROVE  CupInv' /\ ElimStep
<1>1. UNCHANGED rows /\ lock' = lock /\ tx' = tx
  BY DEF vars
<1>2. LocksOK'
  BY <1>1 DEF CupInv, LocksOK, Reportable, rows
<1> QED
  BY <1>1, <1>2, RowsSame DEF CupInv

\* Every step keeps CupInv and is a step of Elimination.
LEMMA CupNextOK == CupInv /\ [TournamentNext]_vars => CupInv' /\ ElimStep
<1> SUFFICES ASSUME CupInv, [TournamentNext]_vars PROVE CupInv' /\ ElimStep
  OBVIOUS
<1>1. CASE Create
  BY <1>1, CreateStep
<1>2. ASSUME NEW c \in Conn,
             \/ \E u \in User : LockCup(c, "join", u) \/ LockCup(c, "start", u)
             \/ \E u, p \in User, s \in Slot : LockMatch(c, u, s, p)
             \/ LockAdvance(c) \/ LockRound(c)
      PROVE  CupInv' /\ ElimStep
  BY <1>2, LockStep
<1>3. ASSUME NEW c \in Conn, Refuse(c) \/ Victim(c) \/ Fail(c)
      PROVE  CupInv' /\ ElimStep
  BY <1>3, EndStep
<1>4. ASSUME NEW c \in Conn, CommitJoin(c) \/ CommitStart(c) \/ CommitReport(c)
      PROVE  CupInv' /\ ElimStep
  BY <1>4, JoinStep, StartStep, ReportStep
<1>5. CASE UNCHANGED vars
  BY <1>5, CupStutter
<1> QED
  BY <1>1, <1>2, <1>3, <1>4, <1>5 DEF TournamentNext, Step
-----------------------------------------------------------------------------
\* CupInv holds in every reachable state of a tournament.
THEOREM CupInvariant == TournamentSpec => []CupInv
  BY CupInitOK, CupNextOK, PTL DEF TournamentSpec

\* The rows keep their types, a decided match has a winner who played in it, a
\* lock has a transaction, and the players of a started tournament are each in
\* one match of the first round (start, reportResult and advanceRound).
THEOREM EntrantsDrawnOnce ==
    TournamentSpec => [](TournamentTypeOK /\ EntrantsAreDrawn)
<1>1. CupInv => TournamentTypeOK /\ EntrantsAreDrawn
  <2> SUFFICES ASSUME CupInv PROVE TournamentTypeOK /\ EntrantsAreDrawn
    OBVIOUS
  <2>1. MatchesOK(match) /\ RowsOK /\ LocksOK /\ DrawOK
    BY DEF CupInv, RowsOK
  <2>2. TournamentTypeOK
    <3>1. ASSUME NEW s \in Slot
          PROVE  /\ match[s].status \in {"absent", "pending", "bye", "done"}
                 /\ match[s].status \in {"bye", "done"} =>
                       match[s].winner \in {match[s].p1, match[s].p2} \ {None}
      BY <2>1, MatchFacts DEF MatchRow, Drawn
    <3>2. ASSUME NEW s \in DOMAIN lock, lock[s] # None PROVE tx[lock[s]] # Idle
      BY <2>1, <3>2 DEF LocksOK, Idle
    <3> QED
      BY <2>1, <3>1, <3>2 DEF TournamentTypeOK, RowsOK
  <2>3. ASSUME Begun, NEW u \in User
        PROVE  Cardinality({s \in Slot : /\ s[1] = 1
                                         /\ u \in {match[s].p1, match[s].p2}})
                 = IF u \in players THEN 1 ELSE 0
    <3> DEFINE S == {s \in Slot : s[1] = 1 /\ u \in {match[s].p1, match[s].p2}}
    <3>1. S = {s \in Slot : s[1] = 1 /\ u \in Drawn(match, s)}
      BY Basics DEF Drawn
    <3>2. CASE u \in players
      <4>1. PICK s \in Slot : s[1] = 1 /\ u \in Drawn(match, s)
        BY <2>1, <2>3, <3>2 DEF DrawOK, InRound
      <4>2. S = {s}
        BY <2>1, <2>3, <3>1, <4>1 DEF DrawOK
      <4> QED
        BY <3>2, <4>2, FS_Singleton
    <3>3. CASE u \notin players
      <4>1. S = {}
        BY <2>1, <3>1, <3>3, MatchFacts
      <4> QED
        BY <3>3, <4>1, FS_EmptySet
    <3> QED
      BY <3>2, <3>3
  <2> QED
    BY <2>2, <2>3 DEF EntrantsAreDrawn, Begun
<1> QED
  BY <1>1, CupInvariant, PTL

\* TournamentInv for four places, any users and connections: until there is a
\* winner there is a match that two players can play.  (Five or six players of
\* eight places leave a first-round match empty, and the round never ends.)
THEOREM FourPlacesPlayable ==
    ASSUME MaxPlayers = 4
    PROVE  TournamentSpec => []TournamentInv
<1>1. CupInv => BracketPlayable
  <2> SUFFICES ASSUME CupInv, status = "in_progress"
               PROVE  \E s \in Slot : /\ match[s].status = "pending"
                                      /\ match[s].p1 # None /\ match[s].p2 # None
    BY DEF BracketPlayable
  <2>1. /\ MatchesOK(match) /\ Begun /\ Open(match)
        /\ \E r \in 1 .. Rounds, k \in {1, 2, 4, 8} : Bracket(match, r, k)
    BY DEF CupInv, RowsOK, Begun, BracketOK
  <2>2. PICK r \in 1 .. Rounds, k \in {1, 2, 4, 8} : Bracket(match, r, k)
    BY <2>1
  <2>3. PICK s \in Slot : match[s].status = "pending"
    BY <2>1 DEF Open
  <2>4. k <= 2
    <3>1. r \in {1, 2}
      BY Basics
    <3>2. k <= Space(r)
      BY <2>2 DEF Bracket
    <3> QED
      BY <3>1, <3>2, Spaces
  <2>5. s[1] \in Nat /\ s[2] \in Nat /\ r \in Nat
    BY SlotShape
  <2>6. s[1] = r /\ s[2] < k
    BY <2>2, <2>3, <2>5 DEF Bracket
  <2>7. match[s].p1 # None
    BY <2>2, <2>4, <2>5, <2>6 DEF Bracket
  <2>8. match[s].p2 # None
    BY <2>1, <2>3, <2>7, MatchFacts DEF MatchOK
  <2> QED
    BY <2>3, <2>7, <2>8
<1> QED
  BY <1>1, CupInvariant, EntrantsDrawnOnce, PTL DEF TournamentInv

\* KnockOutPromise: for any number of places, the rows and locks implement
\* Elimination: a committed report takes exactly one player out who was still
\* in, and the tournament finishes with the last one as its winner.
THEOREM KnockOutKept == TournamentSpec => KnockOutPromise
<1>1. TournamentInit => Promise!ElimInit
  BY CupInitOK
<1>2. CupInv /\ [TournamentNext]_vars => [Promise!ElimNext]_(Promise!elimVars)
  BY CupNextOK DEF ElimStep
<1> QED
  BY <1>1, <1>2, CupInvariant, PTL
  DEF TournamentSpec, KnockOutPromise, Promise!ElimSpec
=============================================================================
