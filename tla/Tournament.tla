----------------------------- MODULE Tournament -----------------------------
(***************************************************************************)
(* One tournament: the rows of tournaments, tournament_players and         *)
(* tournament_matches, and the transactions of models/Tournament.js with   *)
(* the row locks they take.  A transaction's writes appear when it         *)
(* commits.  Row <<0, 0>> is the tournaments row, <<r, p>> the match at    *)
(* position p of round r.                                                  *)
(***************************************************************************)
EXTENDS Naturals, FiniteSets

CONSTANTS User, Creator, Conn, MaxPlayers, None

ASSUME TournamentAssumption ==
    /\ Creator \in User /\ None \notin User \cup Conn
    /\ MaxPlayers \in {4, 8, 16}

VARIABLES status, players, winner, match, lock, tx

rows == <<status, players, winner, match>>
vars == <<rows, lock, tx>>

Cup   == <<0, 0>>
Rounds == CHOOSE n \in 2 .. 4 : 2 ^ n = MaxPlayers
Slot  == {s \in (1 .. Rounds) \X (0 .. MaxPlayers \div 2 - 1) :
             s[2] < MaxPlayers \div 2 ^ s[1]}

NoMatch == [p1 |-> None, p2 |-> None, winner |-> None, status |-> "absent"]
Pending(a, b) == [p1 |-> a, p2 |-> b, winner |-> None, status |-> "pending"]
Idle == [op |-> "none", user |-> None, slot |-> Cup, pick |-> None,
         at |-> "idle"]

TournamentInit ==
    /\ status = "none" /\ players = {} /\ winner = None
    /\ match = [s \in Slot |-> NoMatch]
    /\ lock = [s \in Slot \cup {Cup} |-> None]
    /\ tx = [c \in Conn |-> Idle]
-----------------------------------------------------------------------------
\* Row locks.

Free(s, c) == lock[s] \in {None, c}
Hold(s, c, at) ==
    /\ Free(s, c)
    /\ lock' = [lock EXCEPT ![s] = c]
    /\ tx' = [tx EXCEPT ![c].at = at]

\* COMMIT or ROLLBACK, and release to the pool.
End(c) ==
    /\ tx' = [tx EXCEPT ![c] = Idle]
    /\ lock' = [s \in DOMAIN lock |-> IF lock[s] = c THEN None ELSE lock[s]]

\* The rows of a round in a state ms of the matches.
Row(ms, r) == {s \in Slot : s[1] = r /\ ms[s].status # "absent"}

\* The row transaction c is waiting for or about to take.
Wants(c) ==
    LET t == tx[c]
        left == {s \in Row(match, t.slot[1]) : lock[s] # c}
    IN CASE t.at = "cup" -> Cup
         [] t.at = "round" /\ left # {} ->
                CHOOSE s \in left : \A o \in left : s[2] <= o[2]
         [] OTHER -> None
Waits(c, d) == /\ c # d /\ Wants(c) # None
               /\ Wants(c) \in DOMAIN lock /\ lock[Wants(c)] = d
-----------------------------------------------------------------------------
\* advanceRound.

\* Bug: a round with pending matches counts as played.
RoundOverEarly(ms, r) == \E s \in Row(ms, r) : ms[s].status # "pending"

RoundOver(ms, r) ==
    /\ Row(ms, r) # {}
    /\ \A s \in Row(ms, r) : ms[s].status # "pending"

\* INSERT ... ON CONFLICT DO NOTHING for every pair of neighbours.
NextRound(ms, r) ==
    [s \in Slot |->
        IF /\ s[1] = r + 1 /\ s[2] < Cardinality(Row(ms, r)) \div 2
           /\ ms[s].status = "absent"
        THEN Pending(ms[<<r, 2 * s[2]>>].winner,
                     ms[<<r, 2 * s[2] + 1>>].winner)
        ELSE ms[s]]

AdvanceRound(st, ms, r) ==
    LET over == st = "in_progress" /\ RoundOver(ms, r)
        last == Cardinality(Row(ms, r)) = 1
    IN /\ match' = IF over /\ ~last THEN NextRound(ms, r) ELSE ms
       /\ status' = IF over /\ last THEN "finished" ELSE st
       /\ winner' = IF over /\ last THEN ms[<<r, 0>>].winner ELSE winner
-----------------------------------------------------------------------------
\* Requests and their transactions.

\* Tournament.create: the row and its creator's entry in one transaction
\* that nobody else can wait for.
Create ==
    /\ status = "none"
    /\ status' = "open" /\ players' = {Creator}
    /\ UNCHANGED <<winner, match, lock, tx>>

Reportable(u, s, p) ==
    /\ match[s].status = "pending"
    /\ {u, p} \subseteq {match[s].p1, match[s].p2}

\* The model's checks; the insert trigger repeats status and count.
MayJoin(u) ==
    /\ status = "open" /\ u \notin players
    /\ Cardinality(players) < MaxPlayers

MayStart(u) ==
    /\ u = Creator /\ status = "open"
    /\ Cardinality(players) >= 2

\* A transaction begins here when it gets its first row lock: before that it
\* holds nothing and has read nothing.  join and start lock the tournament.
LockCup(c, op, u) ==
    /\ tx[c] = Idle /\ status # "none" /\ lock[Cup] = None
    /\ tx' = [tx EXCEPT ![c] = [Idle EXCEPT !.op = op, !.user = u,
                                            !.at = "write"]]
    /\ lock' = [lock EXCEPT ![Cup] = c]
    /\ UNCHANGED rows

\* reportResult locks its match; every early return leaves no trace.
LockMatch(c, u, s, p) ==
    /\ tx[c] = Idle /\ lock[s] = None /\ Reportable(u, s, p)
    /\ tx' = [tx EXCEPT ![c] = [op |-> "report", user |-> u, slot |-> s,
                                pick |-> p, at |-> "cup"]]
    /\ lock' = [lock EXCEPT ![s] = c]
    /\ UNCHANGED rows

\* advanceRound locks the tournament, then the matches of the round.
LockAdvance(c) ==
    /\ tx[c].at = "cup"
    /\ Hold(Cup, c, "round")
    /\ UNCHANGED rows

LockRound(c) ==
    /\ tx[c].at = "round" /\ Wants(c) # None
    /\ Hold(Wants(c), c, "round")
    /\ UNCHANGED rows

\* An early return with an error ends a transaction that wrote nothing.
Refuse(c) ==
    /\ tx[c].at = "write"
    /\ CASE tx[c].op = "join"  -> ~MayJoin(tx[c].user)
         [] tx[c].op = "start" -> ~MayStart(tx[c].user)
    /\ End(c) /\ UNCHANGED rows

CommitJoin(c) ==
    /\ tx[c].at = "write" /\ tx[c].op = "join" /\ MayJoin(tx[c].user)
    /\ players' = players \cup {tx[c].user}
    /\ End(c) /\ UNCHANGED <<status, winner, match>>

\* Bug: a bye is stored without its winner.
FirstRoundUndecided(order) ==
    LET n == Cardinality(players)
        Seat(i) == IF i < n THEN order[i] ELSE None
    IN [s \in Slot |->
          IF s[1] # 1 \/ s[2] >= (CHOOSE k \in {1, 2, 4, 8} : n <= 2 * k /\ n > k)
          THEN NoMatch
          ELSE [Pending(Seat(2 * s[2]), Seat(2 * s[2] + 1)) EXCEPT
                  !.status = IF Seat(2 * s[2] + 1) = None THEN "bye" ELSE @]]

\* The bracket of a shuffle, padded with empty places to a power of two.  A
\* match of two empty places has no winner and stays pending.
FirstRound(order) ==
    LET n == Cardinality(players)
        pairs == CHOOSE k \in {1, 2, 4, 8} : n <= 2 * k /\ n > k
        Seat(i) == IF i < n THEN order[i] ELSE None
        One(a, b) ==
            [Pending(a, b) EXCEPT
               !.winner = IF a # None /\ b # None THEN None
                          ELSE IF a # None THEN a ELSE b,
               !.status = IF (a = None) # (b = None) THEN "bye" ELSE @]
    IN [s \in Slot |-> IF s[1] = 1 /\ s[2] < pairs
                       THEN One(Seat(2 * s[2]), Seat(2 * s[2] + 1))
                       ELSE NoMatch]

Shuffles == {f \in [0 .. Cardinality(players) - 1 -> players] :
                \A i, j \in DOMAIN f : f[i] = f[j] => i = j}

CommitStart(c) ==
    /\ tx[c].at = "write" /\ tx[c].op = "start" /\ MayStart(tx[c].user)
    /\ \E order \in Shuffles :
          AdvanceRound("in_progress", FirstRound(order), 1)
    /\ End(c) /\ UNCHANGED players

CommitReport(c) ==
    /\ tx[c].at = "round" /\ Wants(c) = None
    /\ AdvanceRound(status,
                    [match EXCEPT ![tx[c].slot].winner = tx[c].pick,
                                  ![tx[c].slot].status = "done"],
                    tx[c].slot[1])
    /\ End(c) /\ UNCHANGED players

\* PostgreSQL's deadlock detector ends one of two transactions that wait for
\* each other; the caller gets an error.
Victim(c) ==
    /\ \E d \in Conn : Waits(c, d) /\ Waits(d, c)
    /\ End(c) /\ UNCHANGED rows

\* Bug: the error path returns without ROLLBACK.
FailLeaky(c) ==
    /\ tx[c] # Idle /\ tx' = [tx EXCEPT ![c] = Idle]
    /\ UNCHANGED lock /\ UNCHANGED rows

\* A statement fails or times out: ROLLBACK.
Fail(c) == tx[c] # Idle /\ End(c) /\ UNCHANGED rows

Step(c) == \/ LockAdvance(c) \/ LockRound(c) \/ Refuse(c)
           \/ CommitJoin(c) \/ CommitStart(c) \/ CommitReport(c)
           \/ Victim(c)

TournamentNext ==
    \/ Create
    \/ \E c \in Conn :
          \/ Step(c) \/ Fail(c)
          \/ \E u \in User : LockCup(c, "join", u)
          \/ \E u \in User : LockCup(c, "start", u)
          \/ \E u, p \in User, s \in Slot : LockMatch(c, u, s, p)

\* PostgreSQL queues the waiters of a row lock, so a step that is possible
\* again and again is taken.
TournamentSpec ==
    /\ TournamentInit /\ [][TournamentNext]_vars
    /\ \A c \in Conn : SF_vars(Step(c))
-----------------------------------------------------------------------------
\* Type correctness of the rows and of the transactions in progress; a
\* decided match has a winner who played in it.
TournamentTypeOK ==
    /\ status \in {"none", "open", "in_progress", "finished"}
    /\ players \subseteq User /\ Cardinality(players) <= MaxPlayers
    /\ winner \in User \cup {None}
    /\ \A s \in Slot :
          /\ match[s].status \in {"absent", "pending", "bye", "done"}
          /\ match[s].status \in {"bye", "done"} =>
                match[s].winner \in {match[s].p1, match[s].p2} \ {None}
    /\ \A s \in DOMAIN lock : lock[s] # None => tx[lock[s]] # Idle

\* While a tournament is in progress there is a match that two players can
\* still play: whatever reports overlap, fail or are chosen as deadlock
\* victims, the round that was just completed has been advanced
\* (reportResult and advanceRound; the bracket start builds).
BracketPlayable ==
    status = "in_progress" =>
        \E s \in Slot : /\ match[s].status = "pending"
                        /\ match[s].p1 # None /\ match[s].p2 # None

\* From the start on, the players of the tournament are exactly the players
\* of the first round, each in one match, although joins and starts overlap.
EntrantsAreDrawn ==
    status \in {"in_progress", "finished"} =>
        \A u \in User :
            Cardinality({s \in Slot : /\ s[1] = 1
                                      /\ u \in {match[s].p1, match[s].p2}})
              = IF u \in players THEN 1 ELSE 0

\* The bracket is well formed: its matches have the tournament's players, and
\* until there is a winner there is a match to play.
TournamentInv == TournamentTypeOK /\ BracketPlayable /\ EntrantsAreDrawn

\* Every transaction ends, although two reports of one round lock their
\* matches and the tournament in opposite order: the detector resolves it.
TransactionsEnd == \A c \in Conn : tx[c] # Idle ~> tx[c] = Idle

\* The players nobody has beaten.
Alive == IF status \in {"none", "open"} THEN {}
         ELSE {u \in players :
                 \A s \in Slot : /\ match[s].status = "done"
                                 /\ u \in {match[s].p1, match[s].p2}
                                 => match[s].winner = u}

Promise == INSTANCE Elimination WITH
    Player <- User, Places <- MaxPlayers, Nobody <- None,
    stage <- status, entrants <- players, alive <- Alive, champion <- winner

\* The rows and locks implement a knockout: each committed report takes one
\* player out, and the tournament finishes with the last one as its winner.
KnockOutPromise == Promise!ElimSpec
=============================================================================
