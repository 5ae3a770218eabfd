------------------------------- MODULE Startup -------------------------------
(***************************************************************************)
(* The migration runners (Database/migrations/run.js) and one backend      *)
(* process that starts beside them (server.js startServer), loses its      *)
(* database or cache, is told to stop in the middle of starting, and is    *)
(* started again.  Migration files are numbered in the order of their      *)
(* names.                                                                  *)
(***************************************************************************)
EXTENDS Naturals, FiniteSets

\* Asserted are the files assertMigrationsComplete names; Gate is the one the
\* readiness probe looks up; Attempts bounds connectWithRetry.
CONSTANTS Runner, Last, Asserted, Gate, Attempts, None

ASSUME StartupAssumption ==
    /\ Last \in Nat /\ Attempts \in Nat \ {0}
    /\ Asserted \subseteq 1 .. Last /\ Gate \in Asserted
    /\ \A f \in Asserted : f <= Gate
    /\ None \notin Runner

VARIABLES rows,      \* schema_migrations: "none", "legacy" (no checksum), "ok"
          schema,    \* the files whose statements are committed
          advisory,  \* the runner that holds the advisory lock
          runner, srv, mode, db, cache, probe

vars == <<rows, schema, advisory, runner, srv, mode, db, cache, probe>>
runVars == <<rows, schema, advisory, runner>>

File == 1 .. Last
\* What the environment selects; "bad" stands for every setting that
\* validateEnvironment or redisConfig refuses.
Modes == {"local", "redis", "bad"}
Resting == [at |-> "off", file |-> 0, view |-> {}]
Down == [at |-> "down", tries |-> 0, holder |-> "none", pool |-> FALSE,
         ready |-> FALSE, drain |-> FALSE]

StartupInit ==
    /\ \E k \in 0 .. Last :
          /\ schema = 1 .. k
          /\ rows = [f \in File |-> IF f <= k THEN "legacy" ELSE "none"]
    /\ advisory = None
    /\ runner = [r \in Runner |-> Resting]
    /\ srv = Down /\ mode \in Modes
    /\ db = TRUE /\ cache = TRUE /\ probe = "idle"
-----------------------------------------------------------------------------
\* The runners.

Launch(r) ==
    /\ runner[r] = Resting /\ \E f \in File : rows[f] # "ok"
    /\ runner' = [runner EXCEPT ![r].at = "lock"]
    /\ UNCHANGED <<rows, schema, advisory, srv, mode, db, cache, probe>>

\* Bug: the table is read before the lock is held.
LockAndReadEarly(r) ==
    /\ runner[r].at = "lock" /\ db
    /\ advisory' = IF advisory = None THEN r ELSE advisory
    /\ runner' = [runner EXCEPT ![r] =
          [at |-> "file", file |-> 1, view |-> {f \in File : rows[f] # "none"}]]
    /\ UNCHANGED <<rows, schema, srv, mode, db, cache, probe>>

\* pg_advisory_lock, ensureMigrationsTable and the map of applied files.
LockAndRead(r) ==
    /\ runner[r].at = "lock" /\ db /\ advisory = None
    /\ advisory' = r
    /\ runner' = [runner EXCEPT ![r] =
          [at |-> "file", file |-> 1, view |-> {f \in File : rows[f] # "none"}]]
    /\ UNCHANGED <<rows, schema, srv, mode, db, cache, probe>>

\* A recorded file is skipped; a missing checksum is filled in.
Skip(r) ==
    LET f == runner[r].file IN
    /\ runner[r].at = "file" /\ f \in runner[r].view /\ db
    /\ rows' = [rows EXCEPT ![f] = "ok"]
    /\ runner' = [runner EXCEPT ![r].file = f + 1]
    /\ UNCHANGED <<schema, advisory, srv, mode, db, cache, probe>>

\* BEGIN, the file, and its row: seen by nobody before COMMIT.
Apply(r) ==
    /\ runner[r].at = "file" /\ runner[r].file \in File \ runner[r].view /\ db
    /\ runner' = [runner EXCEPT ![r].at = "commit"]
    /\ UNCHANGED <<rows, schema, advisory, srv, mode, db, cache, probe>>

Commit(r) ==
    LET f == runner[r].file IN
    /\ runner[r].at = "commit" /\ db /\ rows[f] = "none"
    /\ rows' = [rows EXCEPT ![f] = "ok"]
    /\ schema' = schema \cup {f}
    /\ runner' = [runner EXCEPT ![r].at = "file", ![r].file = f + 1]
    /\ UNCHANGED <<advisory, srv, mode, db, cache, probe>>

\* The run ends: after the last file, by an error, by a crash, or because the
\* database is gone; the session's advisory lock ends with it.
EndRun(r) ==
    /\ runner[r].at # "off"
    /\ runner' = [runner EXCEPT ![r] = Resting]
    /\ advisory' = IF advisory = r THEN None ELSE advisory
    /\ UNCHANGED <<rows, schema, srv, mode, db, cache, probe>>

RunnerStep(r) == LockAndRead(r) \/ Skip(r) \/ Apply(r) \/ Commit(r)
                 \/ (runner[r].file > Last /\ EndRun(r))
-----------------------------------------------------------------------------
\* startServer, one step per await.

Go(at) == srv' = [srv EXCEPT !.at = at]
\* The catch of the entry point ends the pool; exitCode is set, and the
\* process ends when nothing keeps its event loop alive.
Failed == srv' = [srv EXCEPT !.at = "failed", !.pool = FALSE]
Outside == /\ UNCHANGED <<runVars, mode, db, cache, probe>>

\* sendLimiterCommand refuses at once while the client is not connected,
\* instead of queueing the command.
LimiterCommand(connected) == IF connected THEN "answered" ELSE "rejected"

\* Bug: the scripts of the Redis stores are loaded before the client is
\* connected and nobody handles the rejection.
ScriptLoadsUnhandled ==
    IF mode = "redis" /\ LimiterCommand(FALSE) = "rejected" THEN "unhandled"
                                                           ELSE "none"

\* The stores load their scripts when they are created; the rejections are
\* caught.  An unhandled one would start the shutdown sequence.
ScriptLoads ==
    IF mode = "redis" /\ LimiterCommand(FALSE) = "rejected" THEN "caught"
                                                           ELSE "none"

Valid == mode # "bad"

\* initRedis: the holder of the clients, none of them connected yet.
InitRedis == IF Valid THEN mode ELSE "none"

\* createApplication throws on a bad configuration; otherwise the clients are
\* created and the shutdown handlers installed.
Boot ==
    /\ srv = Down
    /\ srv' = [Down EXCEPT !.at = IF Valid THEN "connect" ELSE "failed",
                           !.holder = InitRedis, !.pool = Valid,
                           !.drain = ScriptLoads = "unhandled"]
    /\ Outside

ConnectWithRetry ==
    /\ srv.at = "connect"
    /\ IF srv.pool /\ db THEN Go("cache")
       ELSE IF srv.tries + 1 < Attempts
       THEN srv' = [srv EXCEPT !.tries = @ + 1]
       ELSE Failed
    /\ Outside

\* getRedis throws when a shutdown has closed the clients.
ConnectRedisOrFail ==
    /\ srv.at = "cache"
    /\ IF srv.holder = "local" \/ (srv.holder = "redis" /\ cache)
       THEN Go("assert") ELSE Failed
    /\ Outside

Migrated == \A f \in Asserted : rows[f] = "ok"

AssertMigrationsComplete ==
    /\ srv.at = "assert"
    /\ IF srv.pool /\ db /\ Migrated THEN Go("rebuild") ELSE Failed
    /\ Outside

RebuildActiveRooms ==
    /\ srv.at = "rebuild"
    /\ IF srv.pool /\ db THEN Go("listen") ELSE Failed
    /\ Outside

Listen ==
    /\ srv.at = "listen"
    /\ srv' = [srv EXCEPT !.at = "serving", !.ready = TRUE]
    /\ Outside

\* The retryStrategy never gives up: open clients reconnect for ever.
Reconnecting == srv.holder = "redis"

\* After a failed start the Redis clients, which nobody closes, keep the
\* process alive.
FailedExit ==
    /\ srv.at = "failed" /\ ~Reconnecting
    /\ srv' = Down /\ probe' = "idle"
    /\ UNCHANGED <<runVars, mode, db, cache>>

\* SIGTERM: a roll-out, or the kubelet after failed liveness probes.
Signal ==
    /\ srv.at # "down" /\ Valid /\ ~srv.drain
    /\ srv' = [srv EXCEPT !.drain = TRUE]
    /\ Outside

\* Bug: only a process that serves closes its clients.
CloseRedisClientsServing ==
    /\ srv.drain /\ srv.holder # "none" /\ srv.at = "serving"
    /\ srv' = [srv EXCEPT !.holder = "none"]
    /\ Outside

\* The last phases of the shutdown sequence run while startServer goes on.
CloseRedisClients ==
    /\ srv.drain /\ srv.holder # "none"
    /\ srv' = [srv EXCEPT !.holder = "none"]
    /\ Outside

EndPool ==
    /\ srv.drain /\ srv.holder = "none" /\ srv.pool
    /\ srv' = [srv EXCEPT !.pool = FALSE]
    /\ Outside

Exit ==
    /\ srv.drain /\ srv.holder = "none" /\ ~srv.pool
    /\ srv' = Down /\ probe' = "idle"
    /\ UNCHANGED <<runVars, mode, db, cache>>
-----------------------------------------------------------------------------
\* The readiness probe and the environment.

\* Bug: the drain is not looked at.
AdmittedDraining == srv.ready

Admitted == srv.ready /\ ~srv.drain

\* The state of the store client, without a command.
RedisReady == srv.holder = "redis" => cache

ProbeArrives ==
    /\ srv.at = "serving" /\ probe \in {"idle", "ready"}
    /\ probe' = IF Admitted /\ RedisReady
                THEN "query" ELSE "idle"
    /\ UNCHANGED <<runVars, srv, mode, db, cache>>

ProbeAnswers ==
    /\ probe = "query"
    /\ probe' = IF srv.pool /\ db /\ rows[Gate] = "ok" THEN "ready" ELSE "idle"
    /\ UNCHANGED <<runVars, srv, mode, db, cache>>

\* The database and the cache come and go; an outage ends the runs.
Flap ==
    \/ db' = ~db /\ cache' = cache
    \/ mode = "redis" /\ cache' = ~cache /\ db' = db
Outage == Flap /\ UNCHANGED <<runVars, srv, mode, probe>>

ServerStep == Boot \/ ConnectWithRetry \/ ConnectRedisOrFail
              \/ AssertMigrationsComplete \/ RebuildActiveRooms \/ Listen
              \/ FailedExit

StartupNext ==
    \/ ServerStep \/ Signal \/ CloseRedisClients \/ EndPool \/ Exit
    \/ ProbeArrives \/ ProbeAnswers \/ Outage
    \/ \E r \in Runner : Launch(r) \/ RunnerStep(r) \/ EndRun(r)

\* Awaits return (connect, command and statement timeouts), a job is launched
\* again until it is complete, a stuck process is signalled by the kubelet,
\* and the shutdown sequence ends (Shutdown!ShutdownEnds).
StartupSpec ==
    /\ StartupInit /\ [][StartupNext]_vars
    /\ WF_vars(ServerStep) /\ WF_vars(srv.at = "failed" /\ Signal)
    /\ WF_vars(CloseRedisClients \/ EndPool \/ Exit)
    /\ WF_vars(ProbeArrives) /\ WF_vars(ProbeAnswers)
    /\ \A r \in Runner : WF_vars(Launch(r)) /\ SF_vars(RunnerStep(r))
-----------------------------------------------------------------------------
\* Type correctness; only a run in progress holds the advisory lock.
StartupTypeOK ==
    /\ rows \in [File -> {"none", "legacy", "ok"}]
    /\ schema \subseteq File
    /\ advisory # None => runner[advisory].at \in {"file", "commit"}
    /\ srv.holder \in {"none", mode} /\ srv.tries < Attempts
    /\ srv.at \in {"down", "connect", "cache", "assert", "rebuild", "listen",
                   "serving", "failed"}

\* Whatever runs overlap or die, the statements that took effect are those of
\* the recorded files, and these are the first ones in order.
SchemaIsRecordedPrefix ==
    /\ schema = {f \in File : rows[f] # "none"}
    /\ \A f \in schema : 1 .. f \subseteq schema

\* The map of applied files a run reads once is still right when it applies a
\* file: no run fails because another one was there first.
RunnerViewCurrent ==
    \A r \in Runner : runner[r].at = "commit" => rows[runner[r].file] = "none"

\* A process that serves has every migration up to the gate, the files that
\* assertMigrationsComplete does not name included, although it may have
\* started in the middle of a run.
ServingMeansMigrated == srv.at = "serving" => 1 .. Gate \subseteq schema

\* The schema and its record agree, no migration run acts on an old view of
\* them, and no process serves without them.
StartupInv ==
    /\ StartupTypeOK
    /\ SchemaIsRecordedPrefix /\ RunnerViewCurrent
    /\ ServingMeansMigrated

\* A probe is admitted only by a process whose pool and Redis clients are
\* still there, although a signal may meet a start in progress.
AdmittedHasItsClients ==
    [][probe' = "query" /\ probe # "query" =>
          srv.pool /\ srv.holder = mode]_vars

\* A failed start does not stay: the process ends and is started again.
FailedStartsEnd == srv.at = "failed" ~> srv.at = "down"

\* With a good configuration the backend becomes ready once the database and
\* the cache stay up, runs are no longer interrupted and nobody stops it.
BecomesReady ==
    (/\ mode # "bad" /\ <>[](db /\ cache)
     /\ <>[][~Signal \/ srv.at = "failed"]_vars
     /\ <>[][\A r \in Runner : runner'[r] = Resting =>
                runner[r] = Resting \/ runner[r].file > Last]_vars)
    => <>(probe = "ready")
=============================================================================
