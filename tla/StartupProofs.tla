--------------------------- MODULE StartupProofs ----------------------------
(***************************************************************************)
(* Startup for any number of migration files and of concurrent runners:    *)
(* the schema and its record agree, and no process serves without the      *)
(* migrations it needs.                                                    *)
(***************************************************************************)
EXTENDS Startup, TLAPS

RunnerRow == [at : {"off", "lock", "file", "commit"}, file : Nat,
              view : SUBSET File]

SrvRow == [at : {"down", "connect", "cache", "assert", "rebuild", "listen",
                 "serving", "failed"},
           tries : Nat, holder : {"none", "local", "redis"},
           pool : BOOLEAN, ready : BOOLEAN, drain : BOOLEAN]

\* Every variable keeps its shape.
ShapesOK ==
    /\ rows \in [File -> {"none", "legacy", "ok"}]
    /\ schema \subseteq File
    /\ advisory \in Runner \cup {None}
    /\ runner \in [Runner -> RunnerRow]
    /\ srv \in SrvRow /\ mode \in Modes

\* A run between its lock and its end holds the advisory lock; behind its
\* position every file is recorded, ahead of it the record is what it read.
RunOK(r) ==
    /\ runner[r].at \in {"file", "commit"} =>
          /\ advisory = r
          /\ \A f \in File : f < runner[r].file => rows[f] # "none"
          /\ \A f \in File : f >= runner[r].file =>
                (rows[f] # "none" <=> f \in runner[r].view)
    /\ runner[r].at = "commit" => runner[r].file \in File \ runner[r].view
    /\ advisory = r => runner[r].at \in {"file", "commit"}

\* A start that passed the migration check has the schema up to the gate, and
\* one that was not told to stop has its pool and its Redis clients.
ServerOK ==
    /\ srv.tries < Attempts /\ srv.holder \in {"none", mode}
    /\ srv.at \in {"rebuild", "listen", "serving"} => 1 .. Gate \subseteq schema
    /\ srv.at \notin {"down", "failed"} /\ ~srv.drain =>
          srv.pool /\ srv.holder = mode

StartupIInv ==
    /\ ShapesOK
    /\ SchemaIsRecordedPrefix
    /\ \A r \in Runner : RunOK(r)
    /\ ServerOK

-----------------------------------------------------------------------------

\* A fresh deployment, empty or migrated by an older runner up to some file.
LEMMA StartupInitOK == StartupInit => StartupIInv
<1> SUFFICES ASSUME StartupInit PROVE StartupIInv
  OBVIOUS
<1> USE StartupAssumption
<1>1. PICK k \in 0 .. Last :
         /\ schema = 1 .. k
         /\ rows = [f \in File |-> IF f <= k THEN "legacy" ELSE "none"]
  BY DEF StartupInit
<1>2. /\ advisory = None /\ runner = [r \in Runner |-> Resting]
      /\ srv = Down /\ mode \in Modes
  BY DEF StartupInit
<1>3. ShapesOK
  <2>1. Resting \in RunnerRow
    BY DEF Resting, RunnerRow
  <2>2. Down \in SrvRow
    BY DEF Down, SrvRow
  <2>3. schema \subseteq File
    BY <1>1 DEF File
  <2> QED
    BY <1>1, <1>2, <2>1, <2>2, <2>3 DEF ShapesOK
<1>4. SchemaIsRecordedPrefix
  BY <1>1 DEF SchemaIsRecordedPrefix, File
<1>5. \A r \in Runner : RunOK(r)
  BY <1>2 DEF RunOK, Resting
<1>6. ServerOK
  BY <1>2 DEF ServerOK, Down
<1> QED
  BY <1>3, <1>4, <1>5, <1>6 DEF StartupIInv

\* A step of the server or its environment leaves the migrations alone.
LEMMA RunsUntouched ==
    ASSUME StartupIInv, UNCHANGED runVars, srv' \in SrvRow, mode' \in Modes,
           ServerOK'
    PROVE  StartupIInv'
<1>1. rows' = rows /\ schema' = schema /\ advisory' = advisory /\ runner' = runner
  BY DEF runVars
<1>2. ShapesOK'
  BY <1>1 DEF StartupIInv, ShapesOK
<1>3. SchemaIsRecordedPrefix'
  BY <1>1 DEF StartupIInv, SchemaIsRecordedPrefix
<1>4. \A r \in Runner : RunOK(r)'
  BY <1>1 DEF StartupIInv, RunOK
<1> QED
  BY <1>2, <1>3, <1>4 DEF StartupIInv

\* startServer, the shutdown sequence beside it, the probe and the outages.
LEMMA ServerStepOK ==
    ASSUME StartupIInv,
           \/ ServerStep \/ Signal \/ CloseRedisClients \/ EndPool \/ Exit
           \/ ProbeArrives \/ ProbeAnswers \/ Outage
    PROVE  StartupIInv'
<1> USE StartupAssumption
<1>1. /\ srv \in SrvRow /\ mode \in Modes /\ ServerOK /\ schema \subseteq File
      /\ SchemaIsRecordedPrefix
  BY DEF StartupIInv, ShapesOK
<1> SUFFICES /\ UNCHANGED runVars /\ srv' \in SrvRow /\ mode' = mode /\ ServerOK'
  BY <1>1, RunsUntouched
<1>2. Down \in SrvRow
  BY DEF Down, SrvRow
<1>3. CASE UNCHANGED <<runVars, mode>> /\ srv' = Down
  BY <1>2, <1>3 DEF Down, ServerOK
<1>4. CASE UNCHANGED <<runVars, mode>> /\ srv' = srv
  <2>1. schema' = schema
    BY <1>4 DEF runVars
  <2> QED
    BY <1>1, <1>4, <2>1 DEF ServerOK
<1>5. ASSUME Outside, Failed PROVE /\ srv' \in SrvRow /\ ServerOK'
  BY <1>1, <1>5 DEF Outside, Failed, SrvRow, ServerOK
<1>6. ASSUME NEW at \in {"cache", "assert", "listen"}, Outside, Go(at),
             srv.at \notin {"down", "failed"},
             at = "listen" => srv.at = "rebuild"
      PROVE  /\ srv' \in SrvRow /\ ServerOK'
  <2>1. schema' = schema /\ mode' = mode
    BY <1>6 DEF Outside, runVars
  <2>2. srv' = [srv EXCEPT !.at = at]
    BY <1>6 DEF Go
  <2> QED
    BY <1>1, <1>6, <2>1, <2>2 DEF SrvRow, ServerOK
<1>7. CASE Boot
  <2>1. /\ srv' = [Down EXCEPT !.at = IF Valid THEN "connect" ELSE "failed",
                     !.holder = InitRedis, !.pool = Valid,
                     !.drain = ScriptLoads = "unhandled"]
        /\ Outside
    BY <1>7 DEF Boot
  <2> DEFINE at == IF Valid THEN "connect" ELSE "failed"
             pool == Valid
             drain == ScriptLoads = "unhandled"
             holder == InitRedis
  <2>2. ~drain /\ drain \in BOOLEAN /\ pool \in BOOLEAN
    BY DEF ScriptLoads, Valid
  <2>3. \/ mode = "bad" /\ at = "failed" /\ ~pool /\ holder = "none"
        \/ at = "connect" /\ pool /\ holder = mode /\ mode \in {"local", "redis"}
    BY <1>1 DEF Valid, InitRedis, Modes
  <2>4. srv' = [Down EXCEPT !.at = at, !.holder = holder, !.pool = pool,
                            !.drain = drain]
    BY <2>1
  <2> HIDE DEF at, pool, drain, holder
  <2>5. srv' = [at |-> at, tries |-> 0, holder |-> holder, pool |-> pool,
                ready |-> FALSE, drain |-> drain]
    BY <2>4 DEF Down
  <2>6. at \in {"failed", "connect"} /\ holder \in {"none", "local", "redis"}
    BY <2>3
  <2>7. srv' \in SrvRow
    BY <2>2, <2>5, <2>6, Zenon DEF SrvRow
  <2>8. /\ srv'.at = at /\ srv'.tries = 0 /\ srv'.holder = holder
        /\ srv'.pool = pool
    BY <2>5
  <2>9. ServerOK'
    BY <2>1, <2>3, <2>8 DEF Outside, ServerOK
  <2> QED
    BY <2>1, <2>7, <2>9 DEF Outside
<1>8. CASE ConnectWithRetry
  <2>1. srv.at = "connect" /\ Outside
    BY <1>8 DEF ConnectWithRetry
  <2>2. CASE Go("cache")
    BY <1>6, <2>1, <2>2 DEF Outside
  <2>3. CASE Failed
    BY <1>5, <2>1, <2>3 DEF Outside
  <2>4. CASE srv.tries + 1 < Attempts /\ srv' = [srv EXCEPT !.tries = srv.tries + 1]
    BY <1>1, <2>1, <2>4 DEF Outside, SrvRow, ServerOK
  <2> QED
    BY <1>8, <2>1, <2>2, <2>3, <2>4 DEF ConnectWithRetry
<1>9. CASE ConnectRedisOrFail
  <2>1. srv.at = "cache" /\ Outside /\ (Go("assert") \/ Failed)
    BY <1>9 DEF ConnectRedisOrFail
  <2> QED
    BY <1>5, <1>6, <2>1 DEF Outside
<1>10. CASE AssertMigrationsComplete
  <2>1. srv.at = "assert" /\ Outside
    BY <1>10 DEF AssertMigrationsComplete
  <2>2. CASE Failed
    BY <1>5, <2>1, <2>2 DEF Outside
  <2>3. CASE Migrated /\ Go("rebuild")
    <3>1. Gate \in schema
      BY <1>1, <2>3 DEF Migrated, SchemaIsRecordedPrefix, File
    <3>2. 1 .. Gate \subseteq schema
      BY <1>1, <3>1 DEF SchemaIsRecordedPrefix
    <3>3. schema' = schema /\ mode' = mode
      BY <2>1 DEF Outside, runVars
    <3> QED
      BY <1>1, <2>1, <2>3, <3>2, <3>3 DEF Outside, Go, SrvRow, ServerOK
  <2> QED
    BY <1>10, <2>1, <2>2, <2>3 DEF AssertMigrationsComplete
<1>11. CASE RebuildActiveRooms
  <2>1. srv.at = "rebuild" /\ Outside /\ (Go("listen") \/ Failed)
    BY <1>11 DEF RebuildActiveRooms
  <2> QED
    BY <1>5, <1>6, <2>1 DEF Outside
<1>12. CASE Listen
  <2>1. schema' = schema /\ mode' = mode /\ Outside
    BY <1>12 DEF Listen, Outside, runVars
  <2> QED
    BY <1>1, <1>12, <2>1 DEF Listen, Outside, SrvRow, ServerOK
<1>13. CASE Signal
  <2>1. schema' = schema /\ mode' = mode /\ Outside
    BY <1>13 DEF Signal, Outside, runVars
  <2> QED
    BY <1>1, <1>13, <2>1 DEF Signal, Outside, SrvRow, ServerOK
<1>14. CASE CloseRedisClients
  <2>1. schema' = schema /\ mode' = mode /\ Outside
    BY <1>14 DEF CloseRedisClients, Outside, runVars
  <2> QED
    BY <1>1, <1>14, <2>1 DEF CloseRedisClients, Outside, SrvRow, ServerOK
<1>15. CASE EndPool
  <2>1. schema' = schema /\ mode' = mode /\ Outside
    BY <1>15 DEF EndPool, Outside, runVars
  <2> QED
    BY <1>1, <1>15, <2>1 DEF EndPool, Outside, SrvRow, ServerOK
<1>16. CASE FailedExit \/ Exit
  BY <1>3, <1>16 DEF FailedExit, Exit
<1>17. CASE ProbeArrives \/ ProbeAnswers \/ Outage
  BY <1>4, <1>17 DEF ProbeArrives, ProbeAnswers, Outage
<1> QED
  BY <1>7, <1>8, <1>9, <1>10, <1>11, <1>12, <1>13, <1>14, <1>15, <1>16, <1>17
  DEF ServerStep

\* A runner's step: the server is not touched and the schema only grows.
LEMMA ServerUntouched ==
    ASSUME StartupIInv, UNCHANGED <<srv, mode>>, schema \subseteq schema'
    PROVE  ServerOK'
<1>1. srv' = srv /\ mode' = mode
  OBVIOUS
<1> QED
  BY <1>1 DEF StartupIInv, ServerOK

\* Launch, LockAndRead, Skip, Apply, Commit and EndRun of run.js.
LEMMA RunnerStepOK ==
    ASSUME StartupIInv, NEW r \in Runner,
           Launch(r) \/ RunnerStep(r) \/ EndRun(r)
    PROVE  StartupIInv'
<1> USE StartupAssumption
<1>1. /\ ShapesOK /\ SchemaIsRecordedPrefix /\ \A q \in Runner : RunOK(q)
      /\ runner[r] \in RunnerRow
  BY DEF StartupIInv, ShapesOK
<1>2. File \subseteq Nat /\ \A f \in File : f + 1 \in Nat
  BY DEF File
<1>3. CASE Launch(r)
  <2>1. /\ runner[r].at = "off" /\ runner' = [runner EXCEPT ![r].at = "lock"]
        /\ rows' = rows /\ schema' = schema /\ advisory' = advisory
        /\ UNCHANGED <<srv, mode>>
    BY <1>3 DEF Launch, Resting
  <2>2. ShapesOK'
    BY <1>1, <2>1 DEF ShapesOK, RunnerRow
  <2>3. SchemaIsRecordedPrefix'
    BY <1>1, <2>1 DEF SchemaIsRecordedPrefix
  <2>4. \A q \in Runner : RunOK(q)'
    BY <1>1, <2>1 DEF ShapesOK, RunOK, RunnerRow
  <2> QED
    BY <2>1, <2>2, <2>3, <2>4, ServerUntouched DEF StartupIInv
<1>4. CASE LockAndRead(r)
  <2> DEFINE new == [at |-> "file", file |-> 1,
                     view |-> {f \in File : rows[f] # "none"}]
  <2>1. /\ runner[r].at = "lock" /\ advisory = None /\ advisory' = r
        /\ runner' = [runner EXCEPT ![r] = new]
        /\ rows' = rows /\ schema' = schema /\ UNCHANGED <<srv, mode>>
    BY <1>4 DEF LockAndRead
  <2>2. new \in RunnerRow
    BY DEF RunnerRow
  <2>3. ShapesOK'
    BY <1>1, <2>1, <2>2 DEF ShapesOK
  <2>4. SchemaIsRecordedPrefix'
    BY <1>1, <2>1 DEF SchemaIsRecordedPrefix
  <2>5. ASSUME NEW q \in Runner PROVE RunOK(q)'
    <3>1. CASE q = r
      <4>1. runner'[q] = new
        BY <1>1, <2>1, <3>1 DEF ShapesOK
      <4>2. \A f \in File : ~(f < 1)
        BY DEF File
      <4> QED
        BY <2>1, <3>1, <4>1, <4>2 DEF RunOK
    <3>2. CASE q # r
      <4>1. runner'[q] = runner[q] /\ advisory # q
        BY <1>1, <2>1, <3>2 DEF ShapesOK
      <4> QED
        BY <1>1, <2>1, <3>2, <4>1 DEF RunOK
    <3> QED
      BY <3>1, <3>2
  <2> QED
    BY <2>1, <2>3, <2>4, <2>5, ServerUntouched DEF StartupIInv
<1>5. CASE Skip(r)
  <2> DEFINE f == runner[r].file
  <2>1. /\ runner[r].at = "file" /\ f \in runner[r].view
        /\ rows' = [rows EXCEPT ![f] = "ok"]
        /\ runner' = [runner EXCEPT ![r].file = f + 1]
        /\ schema' = schema /\ advisory' = advisory /\ UNCHANGED <<srv, mode>>
    BY <1>5 DEF Skip
  <2>2. f \in File /\ rows[f] # "none" /\ advisory = r
    BY <1>1, <2>1 DEF RunnerRow, RunOK
  <2>3. ShapesOK'
    BY <1>1, <1>2, <2>1, <2>2 DEF ShapesOK, RunnerRow
  <2>4. \A g \in File : rows'[g] # "none" <=> rows[g] # "none"
    BY <1>1, <2>1, <2>2 DEF ShapesOK
  <2>5. SchemaIsRecordedPrefix'
    BY <1>1, <2>1, <2>4 DEF SchemaIsRecordedPrefix
  <2>6. ASSUME NEW q \in Runner PROVE RunOK(q)'
    <3>1. CASE q = r
      <4>1. /\ runner'[q].at = "file" /\ runner'[q].file = f + 1
            /\ runner'[q].view = runner[q].view
        BY <1>1, <2>1, <3>1 DEF ShapesOK, RunnerRow
      <4>2. \A g \in File : g < f + 1 => rows[g] # "none"
        BY <1>1, <1>2, <2>1, <2>2 DEF RunOK
      <4>3. \A g \in File : g >= f + 1 => (rows[g] # "none" <=> g \in runner[r].view)
        BY <1>1, <1>2, <2>1, <2>2 DEF RunOK
      <4> QED
        BY <2>1, <2>2, <2>4, <3>1, <4>1, <4>2, <4>3 DEF RunOK
    <3>2. CASE q # r
      <4>1. runner'[q] = runner[q]
        BY <1>1, <2>1, <3>2 DEF ShapesOK
      <4> QED
        BY <1>1, <2>1, <2>4, <4>1 DEF RunOK
    <3> QED
      BY <3>1, <3>2
  <2> QED
    BY <2>1, <2>3, <2>5, <2>6, ServerUntouched DEF StartupIInv
<1>6. CASE Apply(r)
  <2>1. /\ runner[r].at = "file" /\ runner[r].file \in File \ runner[r].view
        /\ runner' = [runner EXCEPT ![r].at = "commit"]
        /\ rows' = rows /\ schema' = schema /\ advisory' = advisory
        /\ UNCHANGED <<srv, mode>>
    BY <1>6 DEF Apply
  <2>2. ShapesOK'
    BY <1>1, <2>1 DEF ShapesOK, RunnerRow
  <2>3. SchemaIsRecordedPrefix'
    BY <1>1, <2>1 DEF SchemaIsRecordedPrefix
  <2>4. \A q \in Runner : RunOK(q)'
    BY <1>1, <2>1 DEF ShapesOK, RunOK, RunnerRow
  <2> QED
    BY <2>1, <2>2, <2>3, <2>4, ServerUntouched DEF StartupIInv
<1>7. CASE Commit(r)
  <2> DEFINE f == runner[r].file
  <2>1. /\ runner[r].at = "commit" /\ rows[f] = "none"
        /\ rows' = [rows EXCEPT ![f] = "ok"] /\ schema' = schema \cup {f}
        /\ runner' = [runner EXCEPT ![r].at = "file", ![r].file = f + 1]
        /\ advisory' = advisory /\ UNCHANGED <<srv, mode>>
    BY <1>7 DEF Commit
  <2>2. f \in File /\ f \notin runner[r].view /\ advisory = r
    BY <1>1, <2>1 DEF RunOK
  <2>3. ShapesOK'
    BY <1>1, <1>2, <2>1, <2>2 DEF ShapesOK, RunnerRow
  <2>4. \A g \in File : rows'[g] = IF g = f THEN "ok" ELSE rows[g]
    BY <1>1, <2>1, <2>2 DEF ShapesOK
  <2>5. \A g \in File : g < f => g \in schema
    BY <1>1, <2>1 DEF RunOK, SchemaIsRecordedPrefix
  <2>6. SchemaIsRecordedPrefix'
    <3>1. schema' = {g \in File : rows'[g] # "none"}
      BY <1>1, <2>1, <2>2, <2>4 DEF SchemaIsRecordedPrefix
    <3>2. 1 .. f \subseteq schema'
      BY <1>2, <2>1, <2>2, <2>5 DEF File
    <3>3. \A g \in schema : 1 .. g \subseteq schema'
      BY <1>1, <2>1 DEF SchemaIsRecordedPrefix
    <3> QED
      BY <2>1, <3>1, <3>2, <3>3 DEF SchemaIsRecordedPrefix
  <2>7. ASSUME NEW q \in Runner PROVE RunOK(q)'
    <3>1. CASE q = r
      <4>1. /\ runner'[q].at = "file" /\ runner'[q].file = f + 1
            /\ runner'[q].view = runner[q].view
        BY <1>1, <2>1, <3>1 DEF ShapesOK, RunnerRow
      <4>2. \A g \in File : g < f + 1 => rows'[g] # "none"
        BY <1>1, <1>2, <2>1, <2>2, <2>4 DEF RunOK
      <4>3. \A g \in File : g >= f + 1 => (rows'[g] # "none" <=> g \in runner[r].view)
        BY <1>1, <1>2, <2>1, <2>2, <2>4 DEF RunOK
      <4> QED
        BY <2>1, <2>2, <3>1, <4>1, <4>2, <4>3 DEF RunOK
    <3>2. CASE q # r
      <4>1. runner'[q] = runner[q] /\ advisory # q
        BY <1>1, <2>1, <2>2, <3>2 DEF ShapesOK
      <4> QED
        BY <1>1, <2>1, <4>1 DEF RunOK
    <3> QED
      BY <3>1, <3>2
  <2> QED
    BY <2>1, <2>3, <2>6, <2>7, ServerUntouched DEF StartupIInv
<1>8. CASE EndRun(r)
  <2>1. /\ runner' = [runner EXCEPT ![r] = Resting]
        /\ advisory' = IF advisory = r THEN None ELSE advisory
        /\ rows' = rows /\ schema' = schema /\ UNCHANGED <<srv, mode>>
    BY <1>8 DEF EndRun
  <2>2. Resting \in RunnerRow /\ Resting.at = "off"
    BY DEF Resting, RunnerRow
  <2>3. ShapesOK'
    BY <1>1, <2>1, <2>2 DEF ShapesOK
  <2>4. SchemaIsRecordedPrefix'
    BY <1>1, <2>1 DEF SchemaIsRecordedPrefix
  <2>5. \A q \in Runner : RunOK(q)'
    BY <1>1, <2>1, <2>2 DEF ShapesOK, RunOK
  <2> QED
    BY <2>1, <2>3, <2>4, <2>5, ServerUntouched DEF StartupIInv
<1> QED
  BY <1>3, <1>4, <1>5, <1>6, <1>7, <1>8 DEF RunnerStep

\* Every step keeps the invariant.
LEMMA StartupNextOK == StartupIInv /\ [StartupNext]_vars => StartupIInv'
<1> SUFFICES ASSUME StartupIInv, [StartupNext]_vars PROVE StartupIInv'
  OBVIOUS
<1>1. CASE UNCHANGED vars
  <2>1. UNCHANGED <<runVars, srv, mode>>
    BY <1>1 DEF vars, runVars
  <2>2. schema' = schema
    BY <2>1 DEF runVars
  <2> QED
    BY <2>1, <2>2, ServerUntouched, RunsUntouched DEF StartupIInv, ShapesOK
<1> QED
  BY <1>1, ServerStepOK, RunnerStepOK DEF StartupNext

\* The invariant holds through every interleaving of runs, starts and stops.
THEOREM StartupInvariant == StartupSpec => []StartupIInv
  BY StartupInitOK, StartupNextOK, PTL DEF StartupSpec

\* However migration runs overlap, die and are launched again, the statements
\* in effect are those of the recorded files, a prefix in order; no run acts on
\* an old view of the record; and a process that serves has the schema up to
\* the gate (run.js, server.js startServer).
THEOREM StartupSafe == StartupSpec => []StartupInv
<1>1. StartupIInv => StartupInv
  <2> SUFFICES ASSUME StartupIInv PROVE StartupInv
    OBVIOUS
  <2>1. ShapesOK /\ ServerOK /\ \A r \in Runner : RunOK(r)
    BY DEF StartupIInv
  <2>2. StartupTypeOK
    BY <2>1 DEF StartupTypeOK, ShapesOK, ServerOK, RunOK, SrvRow
  <2>3. RunnerViewCurrent
    <3> SUFFICES ASSUME NEW r \in Runner, runner[r].at = "commit"
                 PROVE  rows[runner[r].file] = "none"
      BY DEF RunnerViewCurrent
    <3>1. runner[r].file \in File \ runner[r].view /\ runner[r].file \in Nat
      BY <2>1 DEF RunOK, ShapesOK, RunnerRow
    <3> QED
      BY <2>1, <3>1 DEF RunOK
  <2>4. ServingMeansMigrated
    BY <2>1 DEF ServingMeansMigrated, ServerOK
  <2> QED
    BY <2>2, <2>3, <2>4 DEF StartupInv, StartupIInv
<1> QED
  BY <1>1, StartupInvariant, PTL

\* A probe is admitted only by a process that still has its pool and its Redis
\* clients, whenever a signal meets the start (server.js readiness probe).
THEOREM ProbesMeetClients == StartupSpec => AdmittedHasItsClients
<1> DEFINE A == probe' = "query" /\ probe # "query" =>
                  srv.pool /\ srv.holder = mode
<1>1. StartupIInv /\ [StartupNext]_vars => [A]_vars
  <2> SUFFICES ASSUME StartupIInv, StartupNext, probe' = "query", probe # "query"
               PROVE  srv.pool /\ srv.holder = mode
    OBVIOUS
  <2>1. ProbeArrives
    BY DEF StartupNext, ServerStep, Boot, ConnectWithRetry, ConnectRedisOrFail,
           AssertMigrationsComplete, RebuildActiveRooms, Listen, FailedExit,
           Signal, CloseRedisClients, EndPool, Exit, ProbeAnswers, Outage,
           Launch, RunnerStep, LockAndRead, Skip, Apply, Commit, EndRun, Outside
  <2>2. srv.at = "serving" /\ ~srv.drain
    BY <2>1 DEF ProbeArrives, Admitted
  <2> QED
    BY <2>2 DEF StartupIInv, ServerOK
<1> QED
  BY <1>1, StartupInvariant, PTL DEF StartupSpec, AdmittedHasItsClients

=============================================================================
