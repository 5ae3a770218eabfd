------------------------------ MODULE Shutdown -------------------------------
(***************************************************************************)
(* services/shutdown.js: RUNNING -> DRAINING -> STOPPING -> STOPPED, with   *)
(* the phases settle, http, room, socket (and its forced end), cache, pg,   *)
(* each capped and clamped to a global budget that a watchdog enforces, and *)
(* the work in progress that the admission gates and roomTask let through.  *)
(*                                                                         *)
(* The room phase waits for the chains of the rooms in activeRooms, so the  *)
(* model has the cache as far as it decides that: which chain, if any, the  *)
(* cached object of a room holds.  Seats are left out: whether a room is    *)
(* without sockets when an eviction asks for it is a free choice.           *)
(*                                                                         *)
(* Time counts from the start of the sequence, in any unit.  Timers may be  *)
(* late: `lag' is the delay the event loop has caused so far.  Nothing      *)
(* obliges a request, a transaction or a close() to ever end.  Requests to  *)
(* the probe paths, which are neither gated nor counted, are left out, and  *)
(* so is create_room, whose work is on no chain: no phase waits for it, and  *)
(* all it could do is to delay a pool.end that may hang anyway.             *)
(***************************************************************************)
EXTENDS Naturals

CONSTANTS
    Op,         \* pieces of client work
    Room,       \* rooms that clients know
    Kind,       \* Kind[o]: "http", "join", "room" (another packet whose work
                \* runs on a room's chain) or "depart" (a disconnect's)
    RoomOf,     \* RoomOf[o]: the room o is about
    Cap,        \* SETTLE_MS, HTTP_MS, ... by phase; "race" and "force" split
                \* the socket phase
    Global,     \* GLOBAL_BUDGET_MS
    MaxLag,     \* bound on lag
    None

Phase == {"settle", "http", "room", "socket", "force", "cache", "pg"}

ASSUME ShutdownAssumption ==
    /\ Kind \in [Op -> {"http", "join", "room", "depart"}]
    /\ RoomOf \in [Op -> Room] /\ Op \cap Room = {}
    /\ Cap \in [Phase \cup {"race"} -> Nat]
    /\ Global \in Nat /\ MaxLag \in Nat
    /\ Cap["race"] + Cap["force"] <= Cap["socket"]
    /\ None \notin Nat \cup Phase \cup {"completed", "timeout"} \cup Op \cup Room

VARIABLES
    state,     \* currentState
    code,      \* exitCode of the running sequence; None before it starts
    phase,     \* the running phase
    entered,   \* when it began
    due,       \* when its timer fires
    clock,     \* now
    lag,       \* how late timers have been
    result,    \* how the http and room phases ended; what the others report
               \* only feeds a metric
    op,        \* op[o]: progress of o
    aborted,   \* requests whose connection closed before the answer
    cache,     \* cache[r]: the chain of the object activeRooms has for r, or
               \* None; a chain is named after its first join, or its room
    chain,     \* chain[o]: the chain o was linked onto
    lost,      \* operations whose chain an eviction or a hydration took from
               \* the cache while they were in flight (history, for the
               \* properties only)
    waiting,   \* room operations whose chains the room phase awaits
    closing,   \* resources whose close() has been called
    closed,    \* ... and has finished
    exit,      \* the process's exit code
    watchdog   \* it was the watchdog that ended the process

vars == <<state, code, phase, entered, due, clock, lag, result, op, aborted,
          cache, chain, lost, waiting, closing, closed, exit, watchdog>>

roomVars == <<cache, chain, lost>>

timeVars == <<phase, entered, due, clock, lag, result, waiting>>

Init ==
    /\ state = "RUNNING" /\ code = None
    /\ phase = None /\ entered = 0 /\ due = 0 /\ clock = 0 /\ lag = 0
    /\ result = [p \in {"http", "room"} |-> None]
    /\ op = [o \in Op |-> "none"] /\ aborted = {}
    /\ cache = [r \in Room |-> r] /\ chain = [o \in Op |-> None] /\ lost = {}
    /\ waiting = {} /\ closing = {} /\ closed = {}
    /\ exit = None /\ watchdog = FALSE

\* isDraining and isSequenceStarted.
Draining == state # "RUNNING"

Started == code # None

Lesser(a, b) == IF a < b THEN a ELSE b

\* remaining() when the clock shows c.
Left(c) == IF c < Global THEN Global - c ELSE 0

-----------------------------------------------------------------------------
(* Client work.                                                            *)

InFlight(o) == op[o] \in {"queued", "first", "between", "second"}

\* Work that roomTask links onto a chain, and what of it is in flight.
OnChain(o) == Kind[o] \in {"join", "room", "depart"}

Linked == {o \in Op : OnChain(o) /\ InFlight(o)}

workVars == <<state, code, timeVars, closing, closed, exit, watchdog>>

Becomes(os, progress) == op' = [o \in Op |-> IF o \in os THEN progress ELSE op[o]]

\* activeRooms of r is set to an object with the chain c, or deleted.
Replace(r, c) ==
    /\ cache' = [cache EXCEPT ![r] = c]
    /\ lost' = lost \cup {o \in Linked : RoomOf[o] = r}

KeepRoom == UNCHANGED <<cache, lost>>

\* A request or packet meets createDrainGateMiddleware or drainPacketGuard;
\* a disconnect is no packet.  A packet then waits for its session check.
Arrive(o) ==
    /\ exit = None /\ op[o] = "none"
    /\ op' = [op EXCEPT ![o] =
                 CASE Kind[o] = "depart"              -> "session"
                   [] Kind[o] # "depart" /\ Draining -> "refused"
                   [] Kind[o] = "http" /\ ~Draining  -> "first"
                   [] OTHER                           -> "session"]
    /\ UNCHANGED <<aborted, roomVars, workVars>>

\* A packet's session check fails.
SessionFails(o) ==
    /\ exit = None /\ op[o] = "session" /\ Kind[o] # "depart"
    /\ Becomes({o}, "refused")
    /\ UNCHANGED <<aborted, roomVars, workVars>>

\* Only a join looks for a room in the database that is not cached.
Miss(o) ==
    /\ exit = None /\ op[o] = "session" /\ OnChain(o)
    /\ cache[RoomOf[o]] = None
    /\ Becomes({o}, IF Kind[o] = "join" THEN "hydrating" ELSE "refused")
    /\ UNCHANGED <<aborted, roomVars, workVars>>

\* Bug: roomTask links work onto a chain while draining.
HandleUngated(o) ==
    /\ exit = None /\ op[o] = "session" /\ OnChain(o)
    /\ cache[RoomOf[o]] # None
    /\ Becomes({o}, "queued")
    /\ chain' = [chain EXCEPT ![o] = cache[RoomOf[o]]]
    /\ KeepRoom
    /\ UNCHANGED <<aborted, workVars>>

\* The handler finds its room: roomTask links it, or refuses it while draining;
\* the catch of a refused join evicts a room without sockets.
Handle(o) ==
    /\ exit = None /\ op[o] = "session" /\ OnChain(o)
    /\ cache[RoomOf[o]] # None
    /\ \/ /\ ~Draining
          /\ Becomes({o}, "queued")
          /\ chain' = [chain EXCEPT ![o] = cache[RoomOf[o]]]
          /\ KeepRoom
       \/ /\ Draining
          /\ Becomes({o}, "refused")
          /\ UNCHANGED chain
          /\ KeepRoom \/ (Kind[o] = "join" /\ Replace(RoomOf[o], None))
    /\ UNCHANGED <<aborted, workVars>>

\* The hydration that the join o started ends for all joins that share it: no
\* room, or a new object in the cache, for roomTask to link them onto.
Hydrated(o) ==
    LET r     == RoomOf[o]
        joins == {q \in Op : op[q] = "hydrating" /\ RoomOf[q] = r}
    IN  /\ exit = None /\ op[o] = "hydrating"
        /\ \/ Becomes(joins, "refused") /\ UNCHANGED chain /\ KeepRoom
           \/ /\ ~Draining /\ "pg" \notin closing
              /\ Becomes(joins, "queued")
              /\ chain' = [q \in Op |-> IF q \in joins THEN o ELSE chain[q]]
              /\ Replace(r, o)
           \/ /\ Draining
              /\ Becomes(joins, "refused")
              /\ UNCHANGED chain
              /\ Replace(r, o) \/ Replace(r, None)
        /\ UNCHANGED <<aborted, workVars>>

\* Nothing else of its chain is running.
Turn(o) == \A q \in Op : chain[q] = chain[o] =>
                           op[q] \notin {"first", "between", "second"}

\* The run's turn comes, and it refreshes the room: an object in the cache
\* keeps its chain, a missing one comes back with the chain of the run, a dead
\* one goes.  A detach reads no truth.  An ended pool answers no query.
Refresh(o) ==
    LET r == RoomOf[o]
    IN  /\ exit = None /\ op[o] = "queued" /\ Turn(o)
        /\ \/ /\ Kind[o] = "depart" \/ "pg" \notin closing
              /\ Becomes({o}, "first")
              /\ cache' = IF Kind[o] # "depart" /\ cache[r] = None
                          THEN [cache EXCEPT ![r] = chain[o]] ELSE cache
              /\ UNCHANGED lost
           \/ /\ Kind[o] # "depart" /\ "pg" \notin closing
              /\ Becomes({o}, "done")
              /\ KeepRoom \/ Replace(r, None)
           \/ /\ Kind[o] # "depart" /\ "pg" \in closing
              /\ Becomes({o}, "failed")
              /\ KeepRoom
        /\ UNCHANGED <<aborted, chain, workVars>>

\* The client closes the connection of a request in progress: the in-flight
\* gauge drops, the handler runs on.
Abort(o) ==
    /\ exit = None /\ Kind[o] = "http" /\ InFlight(o) /\ o \notin aborted
    /\ aborted' = aborted \cup {o}
    /\ UNCHANGED <<op, roomVars, workVars>>

\* A transaction ends, and with it the run, unless a mating move needs a second
\* one, which an ended pool refuses.  The last to leave a finished room, and a
\* join that fails, evict a room without sockets.
Proceed(o) ==
    /\ exit = None
    /\ \/ op[o] = "first" /\ Kind[o] = "room" /\ Becomes({o}, "between") /\ KeepRoom
       \/ /\ op[o] = "between"
          /\ Becomes({o}, IF "pg" \in closing THEN "failed" ELSE "second")
          /\ KeepRoom
       \/ /\ op[o] \in {"first", "second"}
          /\ Becomes({o}, "done")
          /\ KeepRoom \/ (OnChain(o) /\ Replace(RoomOf[o], None))
    /\ UNCHANGED <<aborted, chain, workVars>>

\* getInflightRequests: requests whose response is still owed.
Counted == {o \in Op : Kind[o] = "http" /\ InFlight(o)} \ aborted

-----------------------------------------------------------------------------
(* Triggers.                                                               *)

\* GET /internal/enter-drain (the preStop hook): the flag and nothing else.
EnterDraining ==
    /\ exit = None /\ ~Draining
    /\ state' = "DRAINING"
    /\ UNCHANGED <<code, timeVars, op, aborted, roomVars, closing, closed, exit,
                   watchdog>>

\* Bug: the sequence counts as started before its dependencies are checked,
\* and dies on the check: no phase runs and no watchdog is armed.
StartUnarmed(c) ==
    /\ ~Started
    /\ code' = c /\ state' = "STOPPING"
    /\ UNCHANGED <<timeVars, closing, closed>>

\* runShutdownSequence, once per process.
Start(c) ==
    /\ ~Started
    /\ code' = c /\ state' = "STOPPING"
    /\ phase' = "settle" /\ entered' = clock
    /\ due' = clock + Lesser(Cap["settle"], Left(clock))
    /\ UNCHANGED <<clock, lag, result, waiting, closing, closed>>

\* SIGTERM or SIGINT; a duplicate is ignored.
Signal ==
    /\ exit = None
    /\ Start(0)
    /\ UNCHANGED <<op, aborted, roomVars, exit, watchdog>>

\* uncaughtException or unhandledRejection: shutdown(reason, error, 1); while
\* a sequence runs the error is dropped and its exit code stays.
Crash ==
    /\ exit = None
    /\ Start(1)
    /\ UNCHANGED <<op, aborted, roomVars, exit, watchdog>>

-----------------------------------------------------------------------------
(* Phases.                                                                 *)

After == [settle |-> "http", http |-> "room", room |-> "socket",
          socket |-> "cache", force |-> "cache", cache |-> "pg", pg |-> "exit"]

\* Budget of a phase that begins at c: its cap, clamped to what is left.
Budget(p, c) == Lesser(Cap[p], Left(c))

\* The close() a phase calls when it begins.
Opens(p) == IF p \in {"socket", "cache", "pg"} THEN {p} ELSE {}

\* The operations drainRoomOperations waits for: its snapshot has the tails of
\* the rooms in activeRooms, and no chain that none of them holds any more.
Chains == {o \in Linked : chain[o] = cache[RoomOf[o]]}

\* Bug: the phase gets the whole global budget instead of its cap.
EnterUncapped(p) ==
    /\ phase' = p /\ entered' = clock /\ due' = clock + Global
    /\ waiting' = IF p = "room" THEN Chains ELSE {}
    /\ closing' = closing \cup Opens(p)

\* A phase begins.
Enter(p) ==
    /\ phase' = p /\ entered' = clock
    /\ due' = clock + IF p = "socket" THEN Lesser(Cap["race"], Budget(p, clock))
                                      ELSE Budget(p, clock)
    /\ waiting' = IF p = "room" THEN Chains ELSE {}
    /\ closing' = closing \cup Opens(p)

\* A race with a zero deadline is lost at once (withDeadline).
Raced == due > entered

\* What the phase waits for has happened.
Ready ==
    CASE phase = "settle" -> FALSE
      [] phase = "http"   -> Counted = {}
      [] phase = "room"   -> Raced /\ \A o \in waiting : ~InFlight(o)
      [] phase = "force"  -> Raced /\ "socket" \in closed
      [] OTHER            -> Raced /\ phase \in closed

TimedOut == clock >= due

Exit(c) ==
    /\ exit' = c
    /\ phase' = None
    /\ UNCHANGED <<entered, due, waiting, closing>>

\* runPhase ends and the next begins; after pg the process exits.
EndPhase(how) ==
    /\ result' = [p \in {"http", "room"} |-> IF p = phase THEN how ELSE result[p]]
    /\ IF After[phase] = "exit" THEN Exit(code) /\ state' = "STOPPED"
       ELSE Enter(After[phase]) /\ UNCHANGED <<exit, state>>
    /\ UNCHANGED <<code, clock, lag, op, aborted, roomVars, closed, watchdog>>

Complete ==
    /\ exit = None /\ phase # None
    /\ Ready
    /\ EndPhase("completed")

\* The socket race is lost: stragglers are destroyed, and a short wait begins
\* in what the phase has left.
ForceSockets ==
    LET budget == Budget("socket", entered)
        rest   == budget - Lesser(Cap["race"], budget)
    IN  /\ exit = None /\ phase = "socket"
        /\ TimedOut
        /\ phase' = "force" /\ entered' = clock
        /\ due' = clock + Lesser(Cap["force"], rest)
        /\ UNCHANGED <<state, code, clock, lag, result, op, aborted, roomVars,
                       waiting, closing, closed, exit, watchdog>>

\* The timer fires first; phaseHttp looks at the gauge once more.
Expire ==
    /\ exit = None /\ phase \in Phase \ {"socket"}
    /\ TimedOut
    /\ EndPhase(IF phase = "http" /\ Ready THEN "completed" ELSE "timeout")

\* io.close, closeRedis or pool.end finishes, in its own time; pool.end waits
\* for the transactions in progress.
CloseDone(r) ==
    /\ exit = None /\ r \in closing \ closed
    /\ r = "pg" => \A o \in Op : Kind[o] # "depart" => op[o] \notin {"first", "second"}
    /\ closed' = closed \cup {r}
    /\ UNCHANGED <<state, code, timeVars, op, aborted, roomVars, closing, exit,
                   watchdog>>

\* The global timer ends the process whatever the phases do.
WatchdogFires ==
    /\ exit = None /\ phase # None
    /\ clock >= Global
    /\ watchdog' = TRUE
    /\ Exit(1)
    /\ UNCHANGED <<state, code, clock, lag, result, op, aborted, roomVars, closed>>

\* Time passes; a timer that is due fires first unless the loop lags.
Tick ==
    /\ exit = None /\ phase # None
    /\ \/ clock < Lesser(due, Global) /\ UNCHANGED lag
       \/ clock >= Lesser(due, Global) /\ lag < MaxLag /\ lag' = lag + 1
    /\ clock' = clock + 1
    /\ UNCHANGED <<state, code, phase, entered, due, result, op, aborted, roomVars,
                   waiting, closing, closed, exit, watchdog>>

Next ==
    \/ \E o \in Op : \/ Arrive(o) \/ SessionFails(o) \/ Miss(o) \/ Handle(o)
                    \/ Hydrated(o) \/ Refresh(o) \/ Abort(o) \/ Proceed(o)
    \/ EnterDraining \/ Signal \/ Crash
    \/ Complete \/ ForceSockets \/ Expire \/ WatchdogFires \/ Tick
    \/ \E r \in {"socket", "cache", "pg"} : CloseDone(r)

\* The event loop runs: time passes and due timers fire.  Work and close()
\* calls owe nothing.
Spec ==
    /\ Init /\ [][Next]_vars
    /\ WF_vars(Tick) /\ WF_vars(Expire \/ ForceSockets \/ WatchdogFires)

-----------------------------------------------------------------------------

\* Phases, timers and closed resources stay in step.
ShutdownTypeOK ==
    /\ state \in {"RUNNING", "DRAINING", "STOPPING", "STOPPED"}
    /\ code \in {0, 1, None} /\ exit \in {0, 1, None}
    /\ phase \in Phase \cup {None}
    /\ phase # None => code # None
    /\ clock \in 0..(Global + MaxLag) /\ due <= Global + MaxLag /\ entered <= clock
    /\ closed \subseteq closing

\* An http phase that reports "completed" has left no request behind: from then
\* on no answer is owed to an HTTP client (createDrainGateMiddleware).
RequestsDrained == result["http"] = "completed" => Counted = {}

\* A room phase that reports "completed" has left nothing behind that it could
\* see: from then on an operation of a room is in progress, or cut in half by
\* the end of the pool, only if its chain was taken out of activeRooms while it
\* was in flight; the gate of roomTask lets none in after the snapshot
\* (gameSocket.js:65-77).
RoomsDrained ==
    result["room"] = "completed" =>
       \A o \in Op : OnChain(o) /\ (InFlight(o) \/ op[o] = "failed") => o \in lost

\* A phase that reports "completed" has left nothing behind but operations whose
\* chain was lost.  "The snapshot is complete by construction"
\* (gameSocket.js:746-748) claims it without that exception, which is false.
DrainComplete == RequestsDrained /\ RoomsDrained

\* What the caps leave of the global budget.
Slack == Global - (Cap["settle"] + Cap["http"] + Cap["room"] + Cap["socket"]
                   + Cap["cache"] + Cap["pg"])

\* The phases fit into the global budget: the watchdog ends the process only
\* when timers were late by the whole slack, however work and close() calls
\* hang ("Phase caps sum to 21s + 1s slack = 22s", shutdown.js:33).
WatchdogNeedsLag == watchdog => lag >= Slack

\* Phases and timers stay in step, and within the global budget.
ShutdownInv == ShutdownTypeOK /\ WatchdogNeedsLag

\* A shutdown that has begun ends the process, whatever hangs.
ShutdownEnds == Started ~> exit # None

=============================================================================
