--------------------------- MODULE ShutdownProofs ---------------------------
(***************************************************************************)
(* The graceful shutdown for any work, phase caps, global budget and delay *)
(* of the timers: a phase that reports "completed" has left nothing        *)
(* behind but operations that an eviction hid from it, and the watchdog is *)
(* for a late event loop only.                                             *)
(***************************************************************************)
EXTENDS Shutdown, Integers, TLAPS

Progress == {"none", "session", "hydrating", "queued", "first", "between",
             "second", "done", "refused", "failed"}
Resource == {"socket", "cache", "pg"}

\* Every variable keeps its shape.
ShapesOK ==
    /\ state \in {"RUNNING", "DRAINING", "STOPPING", "STOPPED"}
    /\ code \in {0, 1, None} /\ exit \in {0, 1, None}
    /\ phase \in Phase \cup {None}
    /\ entered \in Nat /\ due \in Nat /\ clock \in Nat /\ lag \in Nat
    /\ op \in [Op -> Progress]
    /\ cache \in [Room -> Op \cup Room \cup {None}]
    /\ chain \in [Op -> Op \cup Room \cup {None}]
    /\ closed \subseteq closing /\ closing \subseteq Resource

\* The sequence starts once, drains from then on, and ends the pool last.
SequenceOK ==
    /\ Started => Draining
    /\ phase # None => Started
    /\ ~Started => /\ clock = 0 /\ lag = 0 /\ closing = {}
                   /\ \A p \in {"http", "room"} : result[p] = None
    /\ "pg" \in closing => phase \in {"pg", None}

\* When phase p is over at the latest, timers being on time.
EndOf(p) ==
    CASE p = "settle" -> Cap["settle"]
      [] p = "http"   -> Cap["settle"] + Cap["http"]
      [] p = "room"   -> Cap["settle"] + Cap["http"] + Cap["room"]
      [] p = "socket" -> Cap["settle"] + Cap["http"] + Cap["room"] + Cap["race"]
      [] p = "force"  -> Cap["settle"] + Cap["http"] + Cap["room"]
                         + Cap["socket"]
      [] p = "cache"  -> Cap["settle"] + Cap["http"] + Cap["room"]
                         + Cap["socket"] + Cap["cache"]
      [] p = "pg"     -> Cap["settle"] + Cap["http"] + Cap["room"]
                         + Cap["socket"] + Cap["cache"] + Cap["pg"]

\* The clock is behind its plan by what the timers were late.
ClockOK ==
    /\ lag <= MaxLag /\ entered <= clock
    /\ clock <= Global + lag /\ due <= Global + lag
    /\ phase # None => /\ clock <= EndOf(phase) + lag /\ due <= EndOf(phase) + lag
                       /\ clock <= due + lag
    /\ phase = "socket" =>
          due = entered + Lesser(Cap["race"], Budget("socket", entered))

\* An operation in flight that the cache never lost is on the chain the cache
\* holds; the room phase waits for these, and no operation fails before the
\* pool is ended.
WorkOK ==
    /\ \A o \in Op : op[o] \in {"session", "hydrating"} => Kind[o] # "http"
    /\ \A o \in Op : op[o] = "hydrating" => OnChain(o)
    /\ \A o \in Linked : chain[o] # None
    /\ \A o \in Linked \ lost : chain[o] = cache[RoomOf[o]]
    /\ phase = "room" => Linked \ lost \subseteq waiting
    /\ \A o \in Op : op[o] = "failed" => "pg" \in closing

ShutdownIInv ==
    /\ ShapesOK /\ SequenceOK /\ ClockOK /\ WorkOK
    /\ DrainComplete /\ WatchdogNeedsLag
-----------------------------------------------------------------------------
\* Budgets are naturals, within the cap and within what is left.
LEMMA LesserBound ==
    ASSUME NEW a \in Nat, NEW b \in Nat
    PROVE  Lesser(a, b) \in Nat /\ Lesser(a, b) <= a /\ Lesser(a, b) <= b
  BY DEF Lesser

\* A bound that allows for lateness still holds when timers are later.
LEMMA Later ==
    ASSUME NEW a \in Nat, NEW b \in Nat, NEW l \in Nat, NEW m \in Nat,
           a <= b + l, l <= m
    PROVE  a <= b + m
  OBVIOUS

\* What is left, added to the clock, is within the global budget.
LEMMA LeftBound ==
    ASSUME NEW c \in Nat
    PROVE  /\ Left(c) \in Nat
           /\ c <= Global => c + Left(c) <= Global
           /\ c > Global => Left(c) = 0
  BY ShutdownAssumption DEF Left

\* Times are naturals; None is no time, phase or result.
LEMMA Units ==
    /\ Global \in Nat /\ MaxLag \in Nat /\ None \notin Nat
    /\ None \notin Phase \cup {"completed", "timeout"}
    /\ None \notin Op \cup Room /\ RoomOf \in [Op -> Room]
  BY ShutdownAssumption

\* Caps are naturals.
LEMMA Caps == \A p \in Phase \cup {"race"} : Cap[p] \in Nat
  BY ShutdownAssumption

\* Plans: the phases follow each other, and the last one ends a slack before
\* the global budget.
LEMMA Plan ==
    /\ \A p \in Phase : EndOf(p) \in Nat
    /\ EndOf("settle") = Cap["settle"]
    /\ EndOf("settle") + Cap["http"] = EndOf("http")
    /\ EndOf("http") + Cap["room"] = EndOf("room")
    /\ EndOf("room") + Cap["race"] = EndOf("socket")
    /\ EndOf("room") + Cap["socket"] = EndOf("force")
    /\ EndOf("socket") + Cap["force"] <= EndOf("force")
    /\ EndOf("socket") <= EndOf("force")
    /\ EndOf("force") + Cap["cache"] = EndOf("cache")
    /\ EndOf("cache") + Cap["pg"] = EndOf("pg")
    /\ \A p \in Phase : EndOf(p) <= EndOf("pg")
    /\ Slack = Global - EndOf("pg")
<1>1. /\ Cap["settle"] \in Nat /\ Cap["http"] \in Nat /\ Cap["room"] \in Nat
      /\ Cap["socket"] \in Nat /\ Cap["race"] \in Nat /\ Cap["force"] \in Nat
      /\ Cap["cache"] \in Nat /\ Cap["pg"] \in Nat
      /\ Cap["race"] + Cap["force"] <= Cap["socket"] /\ Global \in Nat
  BY ShutdownAssumption DEF Phase
<1> QED
  BY <1>1 DEF EndOf, Slack, Phase

\* No process, no work.
LEMMA ShutdownInitOK == Init => ShutdownIInv
<1> SUFFICES ASSUME Init PROVE ShutdownIInv
  OBVIOUS
<1> USE Units
<1>1. ShapesOK /\ SequenceOK
  BY DEF Init, ShapesOK, SequenceOK, Progress, Resource, Started, Draining
<1>2. ClockOK
  BY ShutdownAssumption DEF Init, ClockOK, Phase
<1>3. WorkOK /\ WatchdogNeedsLag
  BY DEF Init, WorkOK, WatchdogNeedsLag, Phase, Linked, InFlight
<1>4. DrainComplete
  BY DEF Init, DrainComplete, RequestsDrained, RoomsDrained
<1> QED
  BY <1>1, <1>2, <1>3, <1>4 DEF ShutdownIInv

\* What one step of the clients may do to the operations: none that is on a
\* chain, or owes an answer, begins once the process drains, and what leaves
\* the cache is lost.
WorkEffect ==
    /\ op' \in [Op -> Progress]
    /\ cache' \in [Room -> Op \cup Room \cup {None}]
    /\ chain' \in [Op -> Op \cup Room \cup {None}]
    /\ lost \subseteq lost'
    /\ \A o \in Op :
         /\ op'[o] \in {"session", "hydrating"} => Kind[o] # "http"
         /\ op'[o] = "hydrating" => OnChain(o)
         /\ Kind[o] = "http" /\ InFlight(o)' => InFlight(o) \/ ~Draining
         /\ OnChain(o) /\ InFlight(o)' /\ Draining => InFlight(o)
         /\ OnChain(o) /\ InFlight(o)' =>
               /\ chain'[o] # None
               /\ o \notin lost' => chain'[o] = cache'[RoomOf[o]]
         /\ op'[o] = "failed" => /\ "pg" \in closing \/ op[o] = "failed"
                                 /\ OnChain(o) => InFlight(o) \/ op[o] = "failed"

\* A step that moves one operation on and leaves the rooms alone.
LEMMA MoveOn ==
    ASSUME ShutdownIInv, NEW o \in Op, NEW next \in Progress,
           op' = [op EXCEPT ![o] = next] \/ Becomes({o}, next),
           UNCHANGED roomVars,
           next \in {"session", "hydrating"} => Kind[o] # "http",
           next = "hydrating" => OnChain(o),
           next \in {"queued", "first", "between", "second"} =>
              InFlight(o) \/ (Kind[o] = "http" /\ ~Draining),
           next = "failed" => /\ "pg" \in closing
                              /\ OnChain(o) => InFlight(o)
    PROVE  WorkEffect
<1>1. /\ op' \in [Op -> Progress] /\ op'[o] = next
      /\ \A i \in Op \ {o} : op'[i] = op[i]
  BY DEF ShutdownIInv, ShapesOK, Becomes
<1>2. cache' = cache /\ chain' = chain /\ lost' = lost
  BY DEF roomVars
<1>3. ASSUME NEW i \in Op
      PROVE  /\ op'[i] \in {"session", "hydrating"} => Kind[i] # "http"
             /\ op'[i] = "hydrating" => OnChain(i)
             /\ Kind[i] = "http" /\ InFlight(i)' => InFlight(i) \/ ~Draining
             /\ OnChain(i) /\ InFlight(i)' => InFlight(i)
             /\ op'[i] = "failed" =>
                   /\ "pg" \in closing \/ op[i] = "failed"
                   /\ OnChain(i) => InFlight(i) \/ op[i] = "failed"
  <2>1. CASE i = o
    BY <1>1, <2>1 DEF InFlight, OnChain
  <2>2. CASE i # o
    BY <1>1, <2>2 DEF InFlight, ShutdownIInv, WorkOK
  <2> QED
    BY <2>1, <2>2
<1>4. ASSUME NEW i \in Op, OnChain(i), InFlight(i)'
      PROVE  /\ chain'[i] # None
             /\ i \notin lost' => chain'[i] = cache'[RoomOf[i]]
  <2>1. i \in Linked
    BY <1>3, <1>4 DEF Linked
  <2> QED
    BY <1>2, <2>1 DEF ShutdownIInv, WorkOK
<1> QED
  BY <1>1, <1>2, <1>3, <1>4 DEF WorkEffect, ShutdownIInv, ShapesOK

\* An object with the chain c comes into the cache for the room r, or goes, and
\* the operations of the room that were in flight are lost.
LEMMA ReplaceEffect ==
    ASSUME ShutdownIInv, NEW r \in Room, NEW c \in Op \cup Room \cup {None},
           KeepRoom \/ Replace(r, c)
    PROVE  /\ cache' \in [Room -> Op \cup Room \cup {None}]
           /\ Replace(r, c) => cache'[r] = c
           /\ lost \subseteq lost'
           /\ \A o \in Linked \ lost' : chain[o] = cache'[RoomOf[o]]
<1>0. cache \in [Room -> Op \cup Room \cup {None}]
  BY DEF ShutdownIInv, ShapesOK
<1>1. CASE KeepRoom
  <2>1. cache' = cache /\ lost' = lost
    BY <1>1 DEF KeepRoom
  <2>2. Replace(r, c) => cache'[r] = c
    BY <1>0 DEF Replace
  <2> QED
    BY <1>0, <2>1, <2>2 DEF ShutdownIInv, WorkOK
<1>2. CASE Replace(r, c)
  <2>1. /\ cache' = [cache EXCEPT ![r] = c]
        /\ lost' = lost \cup {o \in Linked : RoomOf[o] = r}
    BY <1>2 DEF Replace
  <2>2. ASSUME NEW o \in Linked \ lost'
        PROVE  chain[o] = cache'[RoomOf[o]]
    <3>1. o \in Op /\ o \in Linked \ lost /\ RoomOf[o] # r /\ RoomOf[o] \in Room
      BY <2>1, Units DEF Linked
    <3>2. chain[o] = cache[RoomOf[o]]
      BY <3>1 DEF ShutdownIInv, WorkOK
    <3> QED
      BY <1>0, <2>1, <3>1, <3>2
  <2> QED
    BY <1>0, <2>1, <2>2
<1> QED
  BY <1>1, <1>2

\* Runs that go on or end, and packets that are refused: their room may be
\* evicted, or cached anew.
LEMMA EndEffect ==
    ASSUME ShutdownIInv, NEW os \in SUBSET Op, NEW r \in Room,
           NEW c \in Op \cup Room \cup {None},
           NEW next \in {"first", "between", "second", "done", "refused", "failed"},
           Becomes(os, next), chain' = chain,
           KeepRoom \/ Replace(r, c),
           next \in {"first", "between", "second"} => \A o \in os : InFlight(o),
           next = "failed" => "pg" \in closing /\ \A o \in os : InFlight(o)
    PROVE  WorkEffect
<1>1. /\ op' \in [Op -> Progress] /\ \A o \in os : op'[o] = next
      /\ \A i \in Op \ os : op'[i] = op[i]
  BY DEF Becomes, ShutdownIInv, ShapesOK, Progress
<1>2. /\ cache' \in [Room -> Op \cup Room \cup {None}]
      /\ lost \subseteq lost'
      /\ \A i \in Linked \ lost' : chain[i] = cache'[RoomOf[i]]
  BY ReplaceEffect
<1>3. ASSUME NEW i \in Op
      PROVE  /\ InFlight(i)' => InFlight(i)
             /\ op'[i] \in {"session", "hydrating"} => op'[i] = op[i]
             /\ op'[i] = "failed" =>
                   op[i] = "failed" \/ ("pg" \in closing /\ InFlight(i))
  <2>1. CASE i \in os
    BY <1>1, <2>1 DEF InFlight
  <2>2. CASE i \notin os
    BY <1>1, <2>2 DEF InFlight
  <2> QED
    BY <2>1, <2>2
<1>4. ASSUME NEW i \in Op, OnChain(i), InFlight(i)'
      PROVE  /\ chain'[i] # None
             /\ i \notin lost' => chain'[i] = cache'[RoomOf[i]]
  <2>1. i \in Linked
    BY <1>3, <1>4 DEF Linked
  <2> QED
    BY <1>2, <2>1 DEF ShutdownIInv, WorkOK
<1>5. \A i \in Op : /\ op[i] \in {"session", "hydrating"} => Kind[i] # "http"
                    /\ op[i] = "hydrating" => OnChain(i)
  BY DEF ShutdownIInv, WorkOK
<1>6. chain' \in [Op -> Op \cup Room \cup {None}]
  BY DEF ShutdownIInv, ShapesOK
<1> QED
  BY <1>1, <1>2, <1>3, <1>4, <1>5, <1>6 DEF WorkEffect

\* roomTask links operations onto the chain the cache holds for their room.
LEMMA LinkEffect ==
    ASSUME ShutdownIInv, ~Draining, NEW os \in SUBSET Op, NEW r \in Room,
           NEW c \in Op \cup Room,
           \A o \in os : OnChain(o) /\ RoomOf[o] = r,
           Becomes(os, "queued"),
           chain' = [o \in Op |-> IF o \in os THEN c ELSE chain[o]],
           (KeepRoom /\ cache[r] = c) \/ Replace(r, c)
    PROVE  WorkEffect
<1>1. /\ op' \in [Op -> Progress] /\ \A o \in os : op'[o] = "queued"
      /\ \A o \in Op \ os : op'[o] = op[o]
  BY DEF Becomes, ShutdownIInv, ShapesOK, Progress
<1>2. /\ chain' \in [Op -> Op \cup Room \cup {None}]
      /\ \A o \in os : chain'[o] = c
      /\ \A o \in Op \ os : chain'[o] = chain[o]
  BY DEF ShutdownIInv, ShapesOK
<1>3. /\ cache' \in [Room -> Op \cup Room \cup {None}] /\ cache'[r] = c
      /\ lost \subseteq lost'
      /\ \A i \in Linked \ lost' : chain[i] = cache'[RoomOf[i]]
  BY ReplaceEffect DEF KeepRoom
<1>4. ASSUME NEW o \in Op, OnChain(o), InFlight(o)'
      PROVE  /\ chain'[o] # None
             /\ o \notin lost' => chain'[o] = cache'[RoomOf[o]]
  <2>1. CASE o \in os
    BY <1>2, <1>3, <2>1, Units
  <2>2. CASE o \notin os
    <3>1. o \in Linked
      BY <1>1, <1>4, <2>2 DEF Linked, InFlight
    <3>2. chain[o] # None
      BY <3>1 DEF ShutdownIInv, WorkOK
    <3> QED
      BY <1>2, <1>3, <2>2, <3>1, <3>2
  <2> QED
    BY <2>1, <2>2
<1>5. ASSUME NEW o \in Op
      PROVE  /\ op'[o] \in {"session", "hydrating"} => op'[o] = op[o]
             /\ op'[o] = "failed" => op[o] = "failed"
             /\ InFlight(o)' => InFlight(o) \/ o \in os
  BY <1>1 DEF InFlight
<1>6. \A o \in Op : /\ op[o] \in {"session", "hydrating"} => Kind[o] # "http"
                    /\ op[o] = "hydrating" => OnChain(o)
                    /\ op[o] = "failed" => "pg" \in closing
  BY DEF ShutdownIInv, WorkOK
<1> QED
  BY <1>1, <1>2, <1>3, <1>4, <1>5, <1>6 DEF WorkEffect

\* A run's turn comes: a room that is missing comes back with its chain.
LEMMA RefreshEffect ==
    ASSUME ShutdownIInv, NEW o \in Op, Refresh(o)
    PROVE  WorkEffect
<1> DEFINE r == RoomOf[o]
<1>1. r \in Room /\ InFlight(o) /\ chain' = chain /\ {o} \in SUBSET Op
  BY Units DEF Refresh, InFlight
<1>2. CASE /\ Becomes({o}, "first")
           /\ cache' = IF Kind[o] # "depart" /\ cache[r] = None
                       THEN [cache EXCEPT ![r] = chain[o]] ELSE cache
           /\ UNCHANGED lost
  <2>1. CASE KeepRoom
    BY <1>1, <1>2, <2>1, EndEffect
  <2>2. CASE cache[r] = None /\ cache' = [cache EXCEPT ![r] = chain[o]]
    <3>1. /\ op' \in [Op -> Progress] /\ op'[o] = "first"
          /\ \A i \in Op \ {o} : op'[i] = op[i]
          /\ cache' \in [Room -> Op \cup Room \cup {None}]
          /\ \A q \in Room \ {r} : cache'[q] = cache[q]
      BY <1>1, <1>2, <2>2 DEF Becomes, ShutdownIInv, ShapesOK, Progress
    <3>2. ASSUME NEW i \in Op
          PROVE  /\ InFlight(i)' => InFlight(i)
                 /\ op'[i] \in {"session", "hydrating", "failed"} => op'[i] = op[i]
      BY <1>1, <3>1 DEF InFlight
    <3>3. ASSUME NEW i \in Op, OnChain(i), InFlight(i)'
          PROVE  /\ chain'[i] # None
                 /\ i \notin lost' => chain'[i] = cache'[RoomOf[i]]
      <4>1. i \in Linked /\ RoomOf[i] \in Room
        BY <3>2, <3>3, Units DEF Linked
      <4>2. /\ chain[i] # None
            /\ i \notin lost => chain[i] = cache[RoomOf[i]]
        BY <4>1 DEF ShutdownIInv, WorkOK
      <4>3. i \notin lost => RoomOf[i] # r
        BY <2>2, <4>2
      <4> QED
        BY <1>1, <1>2, <3>1, <4>1, <4>2, <4>3
    <3>4. \A i \in Op : /\ op[i] \in {"session", "hydrating"} => Kind[i] # "http"
                        /\ op[i] = "hydrating" => OnChain(i)
      BY DEF ShutdownIInv, WorkOK
    <3>5. chain' \in [Op -> Op \cup Room \cup {None}]
      BY <1>1 DEF ShutdownIInv, ShapesOK
    <3> QED
      BY <1>2, <3>1, <3>2, <3>3, <3>4, <3>5 DEF WorkEffect
  <2> QED
    BY <1>2, <2>1, <2>2 DEF KeepRoom
<1>3. CASE Becomes({o}, "done") /\ (KeepRoom \/ Replace(r, None))
  BY <1>1, <1>3, EndEffect
<1>4. CASE Becomes({o}, "failed") /\ "pg" \in closing /\ KeepRoom
  BY <1>1, <1>4, EndEffect
<1> QED
  BY <1>2, <1>3, <1>4 DEF Refresh

\* The steps of one operation.
LEMMA OperationEffect ==
    ASSUME ShutdownIInv, NEW o \in Op,
           \/ Arrive(o) \/ SessionFails(o) \/ Miss(o) \/ Handle(o)
           \/ Hydrated(o) \/ Refresh(o) \/ Abort(o) \/ Proceed(o)
    PROVE  WorkEffect
<1> DEFINE r == RoomOf[o]
<1>0. r \in Room /\ None \in Op \cup Room \cup {None}
  BY Units
<1>1. CASE Arrive(o)
  <2>0. UNCHANGED roomVars
    BY <1>1 DEF Arrive
  <2>1. CASE Kind[o] # "depart" /\ Draining
    <3>1. op' = [op EXCEPT ![o] = "refused"]
      BY <1>1, <2>1 DEF Arrive
    <3> QED
      BY <2>0, <3>1, MoveOn DEF Progress
  <2>2. CASE Kind[o] = "http" /\ ~Draining
    <3>1. op' = [op EXCEPT ![o] = "first"]
      BY <1>1, <2>2 DEF Arrive
    <3> QED
      BY <2>0, <2>2, <3>1, MoveOn DEF Progress
  <2>3. CASE Kind[o] = "depart" \/ (Kind[o] # "http" /\ ~Draining)
    <3>1. op' = [op EXCEPT ![o] = "session"]
      BY <1>1, <2>3 DEF Arrive
    <3> QED
      BY <2>0, <2>3, <3>1, MoveOn DEF Progress
  <2> QED
    BY <2>1, <2>2, <2>3
<1>2. CASE SessionFails(o)
  BY <1>2, MoveOn DEF SessionFails, Progress
<1>3. CASE Miss(o)
  <2>1. /\ OnChain(o) /\ UNCHANGED roomVars /\ Kind[o] # "http"
        /\ Becomes({o}, "hydrating") \/ Becomes({o}, "refused")
    BY <1>3 DEF Miss, OnChain
  <2> QED
    BY <2>1, MoveOn DEF Progress
<1>4. CASE Handle(o)
  <2>1. CASE ~Draining
    <3> DEFINE os == {o}
               c  == cache[r]
    <3>1. /\ OnChain(o) /\ c # None /\ Becomes(os, "queued")
          /\ chain' = [chain EXCEPT ![o] = c] /\ KeepRoom
      BY <1>4, <2>1 DEF Handle
    <3>2. /\ chain' = [i \in Op |-> IF i \in os THEN c ELSE chain[i]]
          /\ c \in Op \cup Room
      BY <1>0, <3>1 DEF ShutdownIInv, ShapesOK
    <3>3. os \in SUBSET Op /\ \A i \in os : OnChain(i) /\ RoomOf[i] = r
      BY <3>1
    <3>4. KeepRoom /\ cache[r] = c
      BY <3>1
    <3> HIDE DEF r, os, c
    <3> QED
      BY <1>0, <2>1, <3>1, <3>2, <3>3, <3>4, LinkEffect
  <2>2. CASE Draining
    <3>1. /\ Becomes({o}, "refused") /\ chain' = chain /\ {o} \in SUBSET Op
          /\ KeepRoom \/ Replace(r, None)
      BY <1>4, <2>2 DEF Handle
    <3> QED
      BY <1>0, <3>1, EndEffect
  <2> QED
    BY <2>1, <2>2
<1>5. CASE Hydrated(o)
  <2> DEFINE joins == {q \in Op : op[q] = "hydrating" /\ RoomOf[q] = r}
  <2>1. \A q \in joins : OnChain(q) /\ RoomOf[q] = r
    BY DEF ShutdownIInv, WorkOK
  <2>2. \/ Becomes(joins, "refused") /\ chain' = chain /\ KeepRoom
        \/ /\ ~Draining
           /\ Becomes(joins, "queued")
           /\ chain' = [q \in Op |-> IF q \in joins THEN o ELSE chain[q]]
           /\ Replace(r, o)
        \/ /\ Becomes(joins, "refused")
           /\ chain' = chain
           /\ Replace(r, o) \/ Replace(r, None)
    BY <1>5 DEF Hydrated
  <2>3. joins \in SUBSET Op /\ o \in Op \cup Room /\ o \in Op \cup Room \cup {None}
    OBVIOUS
  <2> HIDE DEF joins, r
  <2>4. CASE /\ Becomes(joins, "refused") /\ chain' = chain
             /\ KeepRoom \/ Replace(r, o) \/ Replace(r, None)
    BY <1>0, <2>3, <2>4, EndEffect
  <2>5. CASE /\ ~Draining /\ Becomes(joins, "queued") /\ Replace(r, o)
             /\ chain' = [q \in Op |-> IF q \in joins THEN o ELSE chain[q]]
    BY <1>0, <2>1, <2>3, <2>5, LinkEffect
  <2> QED
    BY <2>2, <2>4, <2>5
<1>6. CASE Refresh(o)
  BY <1>6, RefreshEffect
<1>7. CASE Abort(o)
  BY <1>7
  DEF Abort, roomVars, WorkEffect, ShutdownIInv, ShapesOK, WorkOK, Linked, InFlight
<1>8. CASE Proceed(o)
  <2>1. /\ InFlight(o) /\ chain' = chain /\ {o} \in SUBSET Op
        /\ KeepRoom \/ Replace(r, None)
        /\ \/ Becomes({o}, "between") \/ Becomes({o}, "second")
           \/ Becomes({o}, "done") \/ (Becomes({o}, "failed") /\ "pg" \in closing)
    BY <1>8 DEF Proceed, InFlight
  <2> HIDE DEF r
  <2> QED
    BY <1>0, <2>1, EndEffect
<1> QED
  BY <1>1, <1>2, <1>3, <1>4, <1>5, <1>6, <1>7, <1>8

\* Client work: what is gated does not begin any more once the process drains.
LEMMA WorkStep ==
    ASSUME ShutdownIInv, NEW o \in Op,
           \/ Arrive(o) \/ SessionFails(o) \/ Miss(o) \/ Handle(o)
           \/ Hydrated(o) \/ Refresh(o) \/ Abort(o) \/ Proceed(o)
    PROVE  ShutdownIInv'
<1> USE Units
<1>1. /\ UNCHANGED <<state, code, phase, entered, due, clock, lag, result,
                     waiting, closing, closed, exit, watchdog>>
      /\ aborted \subseteq aborted'
  BY DEF Arrive, SessionFails, Miss, Handle, Hydrated, Refresh, Abort,
         Proceed, workVars, timeVars
<1>2. WorkEffect
  BY OperationEffect
<1>3. ShapesOK' /\ SequenceOK' /\ ClockOK' /\ WatchdogNeedsLag'
  BY <1>1, <1>2
  DEF ShutdownIInv, ShapesOK, SequenceOK, ClockOK, WatchdogNeedsLag, Started,
      Draining, Budget, Left, WorkEffect
<1>4. Draining => /\ Counted' \subseteq Counted
                  /\ Linked' \subseteq Linked /\ lost \subseteq lost'
  BY <1>1, <1>2 DEF Counted, Linked, OnChain, WorkEffect
<1>5. WorkOK'
  <2>1. phase = "room" => Draining
    BY DEF ShutdownIInv, SequenceOK, Phase
  <2>2. phase' = "room" => Linked' \ lost' \subseteq waiting'
    BY <1>1, <1>4, <2>1 DEF ShutdownIInv, WorkOK
  <2>3. \A i \in Op : /\ op'[i] \in {"session", "hydrating"} => Kind[i] # "http"
                      /\ op'[i] = "hydrating" => OnChain(i)
                      /\ op'[i] = "failed" => "pg" \in closing'
    BY <1>1, <1>2 DEF ShutdownIInv, WorkOK, WorkEffect
  <2>4. /\ \A i \in Linked' : chain'[i] # None
        /\ \A i \in Linked' \ lost' : chain'[i] = cache'[RoomOf[i]]
    BY <1>2 DEF Linked, OnChain, WorkEffect
  <2> QED
    BY <2>2, <2>3, <2>4 DEF WorkOK, OnChain
<1>6. DrainComplete'
  <2>1. \A p \in {"http", "room"} : result[p] # None => Draining
    BY DEF ShutdownIInv, SequenceOK
  <2>2. RequestsDrained'
    BY <1>1, <1>4, <2>1 DEF ShutdownIInv, DrainComplete, RequestsDrained
  <2>3. ASSUME result["room"] = "completed", NEW i \in Op, OnChain(i),
               InFlight(i)' \/ op'[i] = "failed"
        PROVE  i \in lost'
    <3>1. Draining
      BY <2>1, <2>3
    <3>2. InFlight(i) \/ op[i] = "failed"
      BY <1>2, <2>3, <3>1 DEF WorkEffect
    <3>3. i \in lost
      BY <2>3, <3>2 DEF ShutdownIInv, DrainComplete, RoomsDrained
    <3> QED
      BY <1>2, <3>3 DEF WorkEffect
  <2>4. RoomsDrained'
    BY <1>1, <2>3 DEF RoomsDrained, OnChain
  <2> QED
    BY <2>2, <2>4 DEF DrainComplete
<1> QED
  BY <1>3, <1>5, <1>6 DEF ShutdownIInv

\* The preStop hook drains; a signal or an exception starts the sequence.
LEMMA TriggerStep ==
    ASSUME ShutdownIInv, EnterDraining \/ Signal \/ Crash
    PROVE  ShutdownIInv'
<1> USE Units
<1>1. CASE EnterDraining
  <2>1. /\ ~Draining /\ state' = "DRAINING"
        /\ UNCHANGED <<code, phase, entered, due, clock, lag, result, waiting,
                       op, aborted, cache, chain, lost, closing, closed, exit,
                       watchdog>>
    BY <1>1 DEF EnterDraining, timeVars, roomVars
  <2>2. ShapesOK' /\ SequenceOK' /\ ClockOK' /\ WatchdogNeedsLag'
    BY <2>1
    DEF ShutdownIInv, ShapesOK, SequenceOK, ClockOK, WatchdogNeedsLag,
        Started, Draining, Budget, Left
  <2>3. WorkOK' /\ DrainComplete'
    BY <2>1
    DEF ShutdownIInv, WorkOK, DrainComplete, RequestsDrained, RoomsDrained, Linked,
        OnChain, InFlight, Counted
  <2> QED
    BY <2>2, <2>3 DEF ShutdownIInv
<1>2. ASSUME NEW c \in {0, 1}, Start(c),
             UNCHANGED <<op, aborted, roomVars, exit, watchdog>>
      PROVE  ShutdownIInv'
  <2>1. /\ ~Started /\ code' = c /\ state' = "STOPPING" /\ phase' = "settle"
        /\ entered' = clock
        /\ due' = clock + Lesser(Cap["settle"], Left(clock))
        /\ UNCHANGED <<clock, lag, result, waiting, closing, closed, op,
                       aborted, cache, chain, lost, exit, watchdog>>
    BY <1>2 DEF Start, roomVars
  <2>2. /\ clock = 0 /\ lag = 0 /\ closing = {}
        /\ \A p \in {"http", "room"} : result[p] = None
    BY <2>1 DEF ShutdownIInv, SequenceOK
  <2>3. /\ due' \in Nat /\ due' <= Cap["settle"] /\ due' <= Global
    <3> DEFINE cap == Cap["settle"]
               left == Left(clock)
               budget == Lesser(cap, left)
    <3>1. cap \in Nat /\ left \in Nat /\ clock + left <= Global
      BY <2>2, Caps, LeftBound DEF Phase
    <3>2. due' = clock + budget
      BY <2>1
    <3> HIDE DEF cap, left
    <3>3. budget \in Nat /\ budget <= cap /\ budget <= left
      BY <3>1, LesserBound
    <3> HIDE DEF budget
    <3>4. due' \in Nat /\ due' <= cap /\ due' <= Global
      BY <2>2, <3>1, <3>2, <3>3
    <3> QED
      BY <3>4 DEF cap
  <2>4. ShapesOK' /\ SequenceOK'
    BY <2>1, <2>2, <2>3
    DEF ShutdownIInv, ShapesOK, SequenceOK, Started, Draining, Phase
  <2>5. ClockOK'
    BY <2>1, <2>2, <2>3, Plan, Caps DEF ShutdownIInv, ClockOK, ShapesOK, Phase
  <2>6. WorkOK' /\ DrainComplete' /\ WatchdogNeedsLag'
    BY <2>1, <2>2
    DEF ShutdownIInv, WorkOK, DrainComplete, RequestsDrained, RoomsDrained, Linked,
        OnChain, InFlight, WatchdogNeedsLag
  <2> QED
    BY <2>4, <2>5, <2>6 DEF ShutdownIInv
<1> QED
  BY <1>1, <1>2 DEF Signal, Crash

\* A phase ends in time or by its timer, and the next one begins.
LEMMA PhaseStep ==
    ASSUME ShutdownIInv, Complete \/ Expire
    PROVE  ShutdownIInv'
<1> USE Units
<1>1. PICK how \in {"completed", "timeout"} :
        /\ phase \in Phase /\ EndPhase(how)
        /\ phase = "http" /\ how = "completed" => Counted = {}
        /\ phase = "room" /\ how = "completed" =>
              \A o \in waiting : ~InFlight(o)
  BY DEF Complete, Expire, Ready, ShutdownIInv, ShapesOK, Phase
<1>2. /\ \A p \in {"http", "room"} :
            result'[p] = IF p = phase THEN how ELSE result[p]
      /\ UNCHANGED <<code, clock, lag, op, aborted, cache, chain, lost, closed,
                     watchdog>>
  BY <1>1 DEF EndPhase, roomVars
<1>3. /\ ShapesOK /\ SequenceOK /\ ClockOK /\ WorkOK /\ Started /\ Draining
      /\ clock \in Nat /\ lag \in Nat
  BY <1>1 DEF ShutdownIInv, SequenceOK, ShapesOK
<1>4. CASE phase = "pg"
  <2>1. /\ exit' = code /\ phase' = None /\ state' = "STOPPED"
        /\ UNCHANGED <<entered, due, waiting, closing>>
    BY <1>1, <1>4 DEF EndPhase, After, Exit
  <2>2. ShapesOK' /\ SequenceOK'
    BY <1>2, <1>3, <1>4, <2>1
    DEF ShutdownIInv, ShapesOK, SequenceOK, Started, Draining
  <2>3. ClockOK' /\ WorkOK' /\ WatchdogNeedsLag'
    BY <1>2, <2>1
    DEF ShutdownIInv, ClockOK, WorkOK, WatchdogNeedsLag, Phase, Linked, OnChain,
        InFlight
  <2>4. DrainComplete'
    BY <1>2, <1>4, <2>1
    DEF ShutdownIInv, DrainComplete, RequestsDrained, RoomsDrained, Counted, OnChain,
        InFlight
  <2> QED
    BY <2>2, <2>3, <2>4 DEF ShutdownIInv
<1>5. CASE phase # "pg"
  <2> DEFINE next == After[phase]
  <2>1. next \in {"http", "room", "socket", "cache", "pg"} /\ next \in Phase
    BY <1>1, <1>5 DEF After, Phase
  <2>2. next # "exit" /\ phase # None
    BY <1>1, <2>1 
  <2>3. Enter(next) /\ UNCHANGED <<exit, state>>
    BY <1>1, <2>2 DEF EndPhase
  <2>4. /\ EndOf(phase) <= EndOf(next)
        /\ next # "socket" => EndOf(phase) + Cap[next] <= EndOf(next)
        /\ next = "socket" => EndOf(phase) + Cap["race"] = EndOf(next)
        /\ next = "room" <=> phase = "http"
        /\ next = "pg" <=> phase = "cache"
    BY <1>1, <1>5, Plan, Caps DEF After, Phase
  <2> HIDE DEF next
  <2>5. /\ phase' = next /\ entered' = clock
        /\ due' = clock + IF next = "socket"
                          THEN Lesser(Cap["race"], Budget(next, clock))
                          ELSE Budget(next, clock)
        /\ waiting' = (IF next = "room" THEN Chains ELSE {})
        /\ closing' = closing \cup Opens(next)
        /\ UNCHANGED <<exit, state>>
    BY <2>3 DEF Enter
  <2>6. Opens(next) \subseteq Resource /\ ("pg" \in Opens(next) => next = "pg")
    BY DEF Opens, Resource
  <2>7. /\ Budget(next, clock) \in Nat /\ Budget(next, clock) <= Cap[next]
        /\ Budget(next, clock) <= Left(clock) /\ Left(clock) \in Nat
    BY <1>3, <2>1, Caps, LesserBound, LeftBound DEF Budget
  <2>8. /\ due' \in Nat /\ due' <= clock + Left(clock) /\ clock <= due'
        /\ next # "socket" => due' <= clock + Cap[next]
        /\ next = "socket" => due' <= clock + Cap["race"]
    <3>1. Cap["race"] \in Nat /\ Cap[next] \in Nat
      BY <2>1, Caps
    <3>2. CASE next = "socket"
      <4>1. due' = clock + Lesser(Cap["race"], Budget(next, clock))
        BY <2>5, <3>2
      <4>2. /\ Lesser(Cap["race"], Budget(next, clock)) \in Nat
            /\ Lesser(Cap["race"], Budget(next, clock)) <= Cap["race"]
            /\ Lesser(Cap["race"], Budget(next, clock)) <= Budget(next, clock)
        BY <2>7, <3>1, LesserBound
      <4> QED
        BY <1>3, <2>7, <3>1, <3>2, <4>1, <4>2
    <3>3. CASE next # "socket"
      <4>1. due' = clock + Budget(next, clock)
        BY <2>5, <3>3
      <4> QED
        BY <1>3, <2>7, <3>1, <3>3, <4>1
    <3> QED
      BY <3>2, <3>3
  <2>9. ShapesOK'
    BY <1>2, <1>3, <2>1, <2>5, <2>6, <2>8 DEF ShapesOK
  <2>10. SequenceOK'
    <3>1. "pg" \notin closing
      BY <1>1, <1>3, <1>5 DEF SequenceOK
    <3> QED
      BY <1>2, <1>3, <2>5, <2>6, <3>1 DEF SequenceOK, Started, Draining
  <2>11. ClockOK'
    <3>1. /\ clock <= EndOf(phase) + lag /\ clock <= Global + lag
          /\ lag <= MaxLag
      BY <1>1, <1>3, <2>2 DEF ClockOK
    <3>2. due' <= Global + lag
      BY <1>3, <2>8, <3>1, LeftBound
    <3>3. clock <= EndOf(next) + lag /\ due' <= EndOf(next) + lag
      BY <1>1, <1>3, <2>1, <2>4, <2>8, <3>1, Plan, Caps DEF Phase
    <3>4. next = "socket" => due' = clock + Lesser(Cap["race"],
                                                   Budget("socket", clock))
      BY <2>5
    <3> QED
      BY <1>2, <1>3, <2>5, <2>8, <3>1, <3>2, <3>3, <3>4
      DEF ClockOK, Budget, Left
  <2>12. WorkOK'
    <3>1. Linked' = Linked
      BY <1>2 DEF Linked, OnChain, InFlight
    <3>2. Linked \ lost \subseteq Chains
      BY <1>3 DEF WorkOK, Chains
    <3>3. phase' = "room" => Linked' \ lost' \subseteq waiting'
      BY <1>2, <2>5, <3>1, <3>2
    <3> QED
      BY <1>2, <1>3, <2>5, <3>1, <3>3 DEF WorkOK, OnChain
  <2>13. DrainComplete'
    <3>1. result'["http"] = "completed" => Counted' = {}
      BY <1>1, <1>2 DEF ShutdownIInv, DrainComplete, RequestsDrained, Counted, InFlight
    <3>2. ASSUME result'["room"] = "completed", NEW o \in Op, OnChain(o),
                 InFlight(o) \/ op[o] = "failed"
          PROVE  o \in lost
      <4>1. CASE phase = "room"
        <5>1. /\ \A i \in waiting : ~InFlight(i)
              /\ Linked \ lost \subseteq waiting
              /\ "pg" \notin closing
          BY <1>1, <1>2, <1>3, <3>2, <4>1 DEF WorkOK, SequenceOK, Phase
        <5>2. o \in Linked
          BY <1>3, <3>2, <5>1 DEF WorkOK, Linked
        <5> QED
          BY <5>1, <5>2 DEF Linked
      <4>2. CASE phase # "room"
        BY <1>2, <3>2, <4>2 DEF ShutdownIInv, DrainComplete, RoomsDrained
      <4> QED
        BY <4>1, <4>2
    <3>3. RoomsDrained'
      BY <1>2, <3>2 DEF RoomsDrained, OnChain, InFlight
    <3> QED
      BY <3>1, <3>3 DEF DrainComplete, RequestsDrained
  <2>14. WatchdogNeedsLag'
    BY <1>2 DEF ShutdownIInv, WatchdogNeedsLag
  <2> QED
    BY <2>9, <2>10, <2>11, <2>12, <2>13, <2>14 DEF ShutdownIInv
<1> QED
  BY <1>4, <1>5

\* The socket phase loses its race and destroys the stragglers, in what the
\* budget of the phase has left.
LEMMA ForceStep ==
    ASSUME ShutdownIInv, ForceSockets
    PROVE  ShutdownIInv'
<1> USE Units
<1> DEFINE budget == Budget("socket", entered)
           race   == Lesser(Cap["race"], budget)
           force  == Lesser(Cap["force"], budget - race)
<1>1. /\ phase = "socket" /\ phase' = "force" /\ entered' = clock
      /\ due' = clock + force
      /\ UNCHANGED <<state, code, clock, lag, result, op, aborted, cache, chain,
                     lost, waiting, closing, closed, exit, watchdog>>
  BY DEF ForceSockets, roomVars
<1>2. /\ ShapesOK /\ SequenceOK /\ ClockOK /\ clock \in Nat /\ lag \in Nat
      /\ entered \in Nat /\ due \in Nat /\ due = entered + race
      /\ phase # None
  BY <1>1 DEF ShutdownIInv, ShapesOK, ClockOK, Phase
<1>3. /\ Cap["race"] \in Nat /\ Cap["force"] \in Nat /\ Cap["socket"] \in Nat
      /\ Left(entered) \in Nat /\ budget \in Nat /\ budget <= Left(entered)
  <2>1. /\ Cap["race"] \in Nat /\ Cap["force"] \in Nat /\ Cap["socket"] \in Nat
        /\ Left(entered) \in Nat
    BY <1>2, Caps, LeftBound DEF Phase
  <2> QED
    BY <2>1, LesserBound DEF Budget
<1> HIDE DEF budget
<1>4. race \in Nat /\ race <= budget
  BY <1>3, LesserBound
<1> HIDE DEF race
<1>5. force \in Nat /\ force <= Cap["force"] /\ force <= budget - race
  <2>1. budget - race \in Nat
    BY <1>3, <1>4
  <2> QED
    BY <1>3, <2>1, LesserBound
<1> HIDE DEF force
<1>6. due' \in Nat /\ due' <= Global + lag
  <2>1. clock <= entered + race + lag /\ clock <= Global + lag
        /\ entered <= clock
    BY <1>2 DEF ClockOK
  <2>2. CASE entered <= Global
    <3>1. entered + Left(entered) <= Global
      BY <1>2, <2>2, LeftBound
    <3> QED
      BY <1>1, <1>2, <1>3, <1>4, <1>5, <2>1, <3>1
  <2>3. CASE entered > Global
    <3>1. Left(entered) = 0
      BY <1>2, <2>3, LeftBound
    <3> QED
      BY <1>1, <1>2, <1>3, <1>4, <1>5, <2>1, <3>1
  <2> QED
    BY <1>2, <2>2, <2>3
<1>7. clock <= EndOf("force") + lag /\ due' <= EndOf("force") + lag
  <2>1. clock <= EndOf("socket") + lag
    BY <1>1, <1>2 DEF ClockOK
  <2>2. /\ EndOf("socket") \in Nat /\ EndOf("force") \in Nat
        /\ EndOf("socket") + Cap["force"] <= EndOf("force")
        /\ EndOf("socket") <= EndOf("force")
    BY Plan DEF Phase
  <2> QED
    BY <1>1, <1>2, <1>3, <1>5, <2>1, <2>2
<1>8. ShapesOK' /\ SequenceOK'
  BY <1>1, <1>2, <1>6
  DEF ShapesOK, SequenceOK, Started, Draining, Phase
<1>9. ClockOK'
  BY <1>1, <1>2, <1>5, <1>6, <1>7 DEF ClockOK
<1>10. WorkOK' /\ DrainComplete' /\ WatchdogNeedsLag'
  BY <1>1
  DEF ShutdownIInv, WorkOK, DrainComplete, RequestsDrained, RoomsDrained, Linked,
      WatchdogNeedsLag, Counted, OnChain, InFlight
<1> QED
  BY <1>8, <1>9, <1>10 DEF ShutdownIInv

\* A close() finishes.
LEMMA CloseStep ==
    ASSUME ShutdownIInv, NEW r \in {"socket", "cache", "pg"}, CloseDone(r)
    PROVE  ShutdownIInv'
<1>1. /\ r \in closing /\ closed' = closed \cup {r}
      /\ UNCHANGED <<state, code, phase, entered, due, clock, lag, result,
                     waiting, op, aborted, cache, chain, lost, closing, exit,
                     watchdog>>
  BY DEF CloseDone, timeVars, roomVars
<1>2. ShapesOK' /\ SequenceOK' /\ ClockOK'
  BY <1>1
  DEF ShutdownIInv, ShapesOK, SequenceOK, ClockOK, Started, Draining, Budget,
      Left
<1>3. WorkOK' /\ DrainComplete' /\ WatchdogNeedsLag'
  BY <1>1
  DEF ShutdownIInv, WorkOK, DrainComplete, RequestsDrained, RoomsDrained, Linked,
      WatchdogNeedsLag, Counted, OnChain, InFlight
<1> QED
  BY <1>2, <1>3 DEF ShutdownIInv

\* The watchdog: the phases are behind their plan by the whole slack.
LEMMA WatchdogStep ==
    ASSUME ShutdownIInv, WatchdogFires
    PROVE  ShutdownIInv'
<1> USE Units
<1>1. /\ phase # None /\ clock >= Global /\ exit' = 1 /\ phase' = None
      /\ UNCHANGED <<state, code, entered, due, clock, lag, result, waiting,
                     op, aborted, cache, chain, lost, closing, closed>>
  BY DEF WatchdogFires, Exit, roomVars
<1>2. ShapesOK' /\ SequenceOK' /\ ClockOK'
  BY <1>1
  DEF ShutdownIInv, ShapesOK, SequenceOK, ClockOK, Started, Draining, Phase
<1>3. WorkOK' /\ DrainComplete'
  BY <1>1
  DEF ShutdownIInv, WorkOK, DrainComplete, RequestsDrained, RoomsDrained, Linked, Phase,
      Counted, OnChain, InFlight
<1>4. WatchdogNeedsLag'
  <2>1. /\ phase \in Phase /\ clock \in Nat /\ lag \in Nat
        /\ clock <= EndOf(phase) + lag
    BY <1>1 DEF ShutdownIInv, ShapesOK, ClockOK
  <2>2. /\ EndOf(phase) \in Nat /\ EndOf("pg") \in Nat
        /\ EndOf(phase) <= EndOf("pg") /\ Slack = Global - EndOf("pg")
    BY <2>1, Plan DEF Phase
  <2>3. lag >= Slack
    BY <1>1, <2>1, <2>2
  <2>4. Slack' = Slack
    BY DEF Slack
  <2> QED
    BY <1>1, <2>3, <2>4 DEF WatchdogNeedsLag
<1> QED
  BY <1>2, <1>3, <1>4 DEF ShutdownIInv

\* Time passes: a timer that is due is late by one more unit.
LEMMA TickStep ==
    ASSUME ShutdownIInv, Tick
    PROVE  ShutdownIInv'
<1> USE Units
<1>1. /\ phase # None /\ clock' = clock + 1
      /\ \/ clock < Lesser(due, Global) /\ lag' = lag
         \/ lag < MaxLag /\ lag' = lag + 1
      /\ UNCHANGED <<state, code, phase, entered, due, result, op, aborted, cache,
                     chain, lost, waiting, closing, closed, exit, watchdog>>
  BY DEF Tick, roomVars
<1>2. /\ ShapesOK /\ SequenceOK /\ ClockOK /\ phase \in Phase
      /\ clock \in Nat /\ lag \in Nat /\ due \in Nat /\ entered \in Nat
      /\ Started /\ EndOf(phase) \in Nat
  BY <1>1, Plan DEF ShutdownIInv, ShapesOK, SequenceOK
<1>3. /\ lag' \in Nat /\ lag <= lag' /\ lag' <= MaxLag
      /\ clock' <= due + lag' /\ clock' <= Global + lag'
      /\ clock' <= EndOf(phase) + lag'
  <2>1. /\ lag <= MaxLag /\ clock <= due + lag /\ clock <= Global + lag
        /\ clock <= EndOf(phase) + lag /\ due <= EndOf(phase) + lag
    BY <1>1, <1>2 DEF ClockOK
  <2>2. CASE clock < Lesser(due, Global) /\ lag' = lag
    <3>1. clock < due /\ clock < Global
      BY <1>2, <2>2 DEF Lesser
    <3> QED
      BY <1>1, <1>2, <2>1, <2>2, <3>1
  <2>3. CASE lag < MaxLag /\ lag' = lag + 1
    BY <1>1, <1>2, <2>1, <2>3
  <2> QED
    BY <1>1, <2>2, <2>3
<1>4. ShapesOK' /\ SequenceOK'
  BY <1>1, <1>2, <1>3 DEF ShapesOK, SequenceOK, Started, Draining
<1>5. ClockOK'
  <2>1. /\ entered <= clock /\ due <= Global + lag
        /\ clock <= due + lag /\ due <= EndOf(phase) + lag
        /\ phase = "socket" =>
              due = entered + Lesser(Cap["race"], Budget("socket", entered))
    BY <1>1, <1>2 DEF ClockOK
  <2>2. entered' <= clock' /\ due' <= Global + lag'
    BY <1>1, <1>2, <1>3, <2>1
  <2>3. clock' <= due' + lag' /\ due' <= EndOf(phase) + lag'
    <3> DEFINE end == EndOf(phase)
    <3>1. due <= end + lag /\ clock' <= due + lag'
      BY <1>3, <2>1
    <3>2. end \in Nat /\ due \in Nat /\ lag \in Nat /\ lag' \in Nat /\ lag <= lag'
      BY <1>2, <1>3
    <3>3. due' = due
      BY <1>1
    <3> HIDE DEF end
    <3>4. due <= end + lag'
      BY <3>1, <3>2, Later
    <3> QED
      BY <3>1, <3>4, <3>3 DEF end
  <2>4. phase' = "socket" =>
          due' = entered' + Lesser(Cap["race"], Budget("socket", entered'))
    BY <1>1, <2>1
  <2> QED
    BY <1>1, <1>3, <2>2, <2>3, <2>4 DEF ClockOK, Budget, Left
<1>6. WorkOK' /\ DrainComplete'
  BY <1>1
  DEF ShutdownIInv, WorkOK, DrainComplete, RequestsDrained, RoomsDrained, Linked,
      Counted, OnChain, InFlight
<1>7. WatchdogNeedsLag'
  <2>1. Slack \in Int /\ Slack' = Slack
    BY Plan DEF Slack, Phase
  <2> QED
    BY <1>1, <1>2, <1>3, <2>1 DEF ShutdownIInv, WatchdogNeedsLag
<1> QED
  BY <1>4, <1>5, <1>6, <1>7 DEF ShutdownIInv

\* Nothing changes.
LEMMA ShutdownStutter ==
    ASSUME ShutdownIInv, UNCHANGED vars
    PROVE  ShutdownIInv'
<1> USE DEF vars, roomVars
<1>1. ShapesOK' /\ SequenceOK' /\ ClockOK'
  BY DEF ShutdownIInv, ShapesOK, SequenceOK, ClockOK, Started, Draining,
         Budget, Left
<1>2. WorkOK' /\ DrainComplete' /\ WatchdogNeedsLag'
  BY DEF ShutdownIInv, WorkOK, DrainComplete, RequestsDrained, RoomsDrained, Linked,
         WatchdogNeedsLag, Counted, OnChain, InFlight
<1> QED
  BY <1>1, <1>2 DEF ShutdownIInv

\* Every step of the clients, the phases and the timers keeps ShutdownIInv.
LEMMA ShutdownNextOK == ShutdownIInv /\ [Next]_vars => ShutdownIInv'
<1> SUFFICES ASSUME ShutdownIInv, [Next]_vars PROVE ShutdownIInv'
  OBVIOUS
<1>1. CASE \E o \in Op : \/ Arrive(o) \/ SessionFails(o) \/ Miss(o)
                         \/ Handle(o) \/ Hydrated(o) \/ Refresh(o) \/ Abort(o)
                         \/ Proceed(o)
  BY <1>1, WorkStep
<1>2. CASE EnterDraining \/ Signal \/ Crash
  BY <1>2, TriggerStep
<1>3. CASE Complete \/ Expire
  BY <1>3, PhaseStep
<1>4. CASE ForceSockets \/ WatchdogFires \/ Tick
  BY <1>4, ForceStep, WatchdogStep, TickStep
<1>5. CASE \E r \in {"socket", "cache", "pg"} : CloseDone(r)
  BY <1>5, CloseStep
<1>6. CASE UNCHANGED vars
  BY <1>6, ShutdownStutter
<1> QED
  BY <1>1, <1>2, <1>3, <1>4, <1>5, <1>6 DEF Next
-----------------------------------------------------------------------------
\* ShutdownIInv holds in every reachable state of services/shutdown.js.
THEOREM ShutdownInvariant == Spec => []ShutdownIInv
  BY ShutdownInitOK, ShutdownNextOK, PTL DEF Spec

\* ShutdownInv: whatever the caps add up to and however work and close() calls
\* hang, the watchdog ends the process only when timers were late by all that
\* the caps leave of GLOBAL_BUDGET_MS.
THEOREM ShutdownSafe == Spec => []ShutdownInv
<1>1. ShutdownIInv => ShutdownInv
  <2> SUFFICES ASSUME ShutdownIInv PROVE ShutdownInv
    OBVIOUS
  <2>1. clock \in 0..(Global + MaxLag) /\ due <= Global + MaxLag
    BY ShutdownAssumption DEF ShutdownIInv, ShapesOK, ClockOK
  <2>2. ShutdownTypeOK
    BY <2>1
    DEF ShutdownIInv, ShapesOK, SequenceOK, ClockOK, Started, ShutdownTypeOK
  <2> QED
    BY <2>2 DEF ShutdownIInv, ShutdownInv
<1> QED
  BY <1>1, ShutdownInvariant, PTL

\* A phase that reports "completed" has left no answer owed to an HTTP client,
\* and no operation of a room in progress but those whose chain had been taken
\* out of activeRooms (DrainComplete).
THEOREM DrainLeavesOnlyLost == Spec => []DrainComplete
<1>1. ShutdownIInv => DrainComplete
  BY DEF ShutdownIInv
<1> QED
  BY <1>1, ShutdownInvariant, PTL
=============================================================================
