------------------------------- MODULE Avatars -------------------------------
(***************************************************************************)
(* One user's avatar: uploads from several tabs (middleware/upload.js,     *)
(* routes/auth.js), the two stores (services/avatarStore.js) and the users *)
(* row (models/User.js replaceAvatar).  A command that timed out may still *)
(* be carried out by S3 later; the process may crash; the deployment moves *)
(* from local files to S3 with the legacy fallback switched on.            *)
(***************************************************************************)
EXTENDS FiniteSets, Naturals

CONSTANTS Conn, File, None

ASSUME AvatarAssumption == None \notin Conn \cup File

VARIABLES mode, disk, bucket,
          puts, dels,  \* commands given up by withTimeout, still on their way
          row,         \* users.avatar_url
          lock,        \* the users row, FOR UPDATE
          req,
          faulty,      \* files one of whose steps failed: left to the runbook
          unknown      \* files whose COMMIT took effect without an answer

vars == <<mode, disk, bucket, puts, dels, row, lock, req, faulty, unknown>>
stores == <<disk, bucket, puts, dels>>

Idle == [at |-> "idle", file |-> None, old |-> None]
Flying == {c \in Conn : req[c] # Idle}

AvatarInit ==
    /\ mode = "local" /\ bucket = {} /\ puts = {} /\ dels = {}
    /\ row \in {None} \cup File /\ disk = {row} \ {None}
    /\ lock = None /\ req = [c \in Conn |-> Idle]
    /\ faulty = {} /\ unknown = {}

Store == IF mode = "local" THEN disk ELSE bucket
SetStore(S) == IF mode = "local" THEN disk' = S /\ UNCHANGED bucket
               ELSE bucket' = S /\ UNCHANGED disk

ReadLocal(f) == f \in disk

\* readAvatar: a miss in S3 falls back to the local file.
ReadAvatar(f) == IF mode = "local" THEN ReadLocal(f)
                                   ELSE f \in bucket \/ ReadLocal(f)

\* The uuid of a new upload was never used before.
Fresh == File \ ({row} \cup disk \cup bucket \cup puts \cup faulty \cup unknown
                 \cup {req[c].file : c \in Conn} \cup {req[c].old : c \in Conn})
-----------------------------------------------------------------------------
\* inspectAndStoreAvatar: the image is normalised and named.
Upload(c) ==
    /\ req[c] = Idle
    /\ \E f \in Fresh : req' = [req EXCEPT ![c].at = "put", ![c].file = f]
    /\ UNCHANGED <<mode, stores, row, lock, faulty, unknown>>

\* Written to the one configured store.
WriteAvatar(c) ==
    /\ req[c].at = "put"
    /\ SetStore(Store \cup {req[c].file})
    /\ req' = [req EXCEPT ![c].at = "lock"]
    /\ UNCHANGED <<mode, puts, dels, row, lock, faulty, unknown>>

\* The write fails or is given up: 500 (or 400) and no clean-up, although a
\* part of the file or a late PutObject may be left behind.
WriteFails(c) ==
    LET f == req[c].file IN
    /\ req[c].at = "put"
    /\ req' = [req EXCEPT ![c] = Idle]
    /\ faulty' = faulty \cup {f}
    /\ \E left \in {{}, {f}} :
          IF mode = "local" THEN disk' = disk \cup left /\ UNCHANGED puts
          ELSE puts' = puts \cup left /\ UNCHANGED disk
    /\ UNCHANGED <<mode, bucket, dels, row, lock, unknown>>

\* Bug: the previous value is read without FOR UPDATE.
ReplaceLocksPlain(c) ==
    /\ req[c].at = "lock"
    /\ lock' = IF lock = None THEN c ELSE lock
    /\ req' = [req EXCEPT ![c].at = "commit", ![c].old = row]
    /\ UNCHANGED <<mode, stores, row, faulty, unknown>>

\* replaceAvatar: BEGIN, SELECT ... FOR UPDATE, UPDATE.
ReplaceLocks(c) ==
    /\ req[c].at = "lock" /\ lock = None
    /\ lock' = c
    /\ req' = [req EXCEPT ![c].at = "commit", ![c].old = row]
    /\ UNCHANGED <<mode, stores, row, faulty, unknown>>

Unlocked(c) == IF lock = c THEN None ELSE lock

\* COMMIT; the answer is sent when there is no managed avatar to delete.
ReplaceCommits(c) ==
    /\ req[c].at = "commit"
    /\ row' = req[c].file /\ lock' = Unlocked(c)
    /\ req' = [req EXCEPT ![c] = IF @.old = None THEN Idle
                                 ELSE [@ EXCEPT !.at = "clean"]]
    /\ UNCHANGED <<mode, stores, faulty, unknown>>

\* Bug: the connection is released without ROLLBACK.
ReplaceFailsLocked(c) ==
    /\ req[c].at \in {"lock", "commit"}
    /\ req' = [req EXCEPT ![c].at = "undo"]
    /\ UNCHANGED <<mode, stores, row, lock, faulty, unknown>>

\* A statement fails: ROLLBACK and the handler's catch.
ReplaceFails(c) ==
    /\ req[c].at \in {"lock", "commit"}
    /\ lock' = Unlocked(c)
    /\ req' = [req EXCEPT ![c].at = "undo"]
    /\ UNCHANGED <<mode, stores, row, faulty, unknown>>

\* COMMIT takes effect and its answer is lost: the same catch.
CommitUnknown(c) ==
    /\ req[c].at = "commit"
    /\ row' = req[c].file /\ lock' = Unlocked(c)
    /\ req' = [req EXCEPT ![c].at = "undo"]
    /\ faulty' = faulty \cup ({req[c].old} \ {None})
    /\ unknown' = unknown \cup {req[c].file}
    /\ UNCHANGED <<mode, stores>>
-----------------------------------------------------------------------------
\* Bug: the catch deletes the avatar the row still names.
TargetSwapped(c) == IF req[c].at = "undo" /\ req[c].old # None
                    THEN req[c].old ELSE req[c].file

\* The replaced avatar after a commit, the new one after a failure.
Target(c) == IF req[c].at = "clean" THEN req[c].old ELSE req[c].file

DeleteAvatar(c) ==
    /\ req[c].at \in {"clean", "undo"}
    /\ SetStore(Store \ {Target(c)})
    /\ req' = [req EXCEPT ![c] = Idle]
    /\ UNCHANGED <<mode, puts, dels, row, lock, faulty, unknown>>

\* The delete fails or is given up; the request is answered all the same.
DeleteFails(c) ==
    /\ req[c].at \in {"clean", "undo"}
    /\ \E left \in {{}, {Target(c)}} :
          dels' = IF mode = "s3" THEN dels \cup left ELSE dels
    /\ faulty' = faulty \cup {Target(c)}
    /\ req' = [req EXCEPT ![c] = Idle]
    /\ UNCHANGED <<mode, disk, bucket, puts, row, lock, unknown>>

\* S3 carries out a command that was given up.
LatePut(f) ==
    /\ f \in puts /\ puts' = puts \ {f} /\ bucket' = bucket \cup {f}
    /\ UNCHANGED <<mode, disk, dels, row, lock, req, faulty, unknown>>

LateDelete(f) ==
    /\ f \in dels /\ dels' = dels \ {f} /\ bucket' = bucket \ {f}
    /\ UNCHANGED <<mode, disk, puts, row, lock, req, faulty, unknown>>

\* The process ends with its requests; an open transaction is rolled back and
\* a PutObject it had sent may still arrive.
Crash ==
    /\ Flying # {}
    /\ req' = [c \in Conn |-> Idle] /\ lock' = None
    /\ faulty' = (faulty \cup {req[c].file : c \in Flying}
                          \cup {req[c].old : c \in Flying}) \ {None}
    /\ \E sent \in SUBSET {req[c].file : c \in {d \in Conn : req[d].at = "put"}} :
          puts' = IF mode = "s3" THEN puts \cup sent ELSE puts
    /\ UNCHANGED <<mode, disk, bucket, dels, row, unknown>>

\* AVATAR_STORAGE becomes s3 with the next roll-out.
Deploy ==
    /\ mode = "local" /\ Flying = {}
    /\ mode' = "s3"
    /\ UNCHANGED <<stores, row, lock, req, faulty, unknown>>

Step(c) == \/ WriteAvatar(c) \/ ReplaceLocks(c) \/ ReplaceCommits(c)
           \/ DeleteAvatar(c)

AvatarNext ==
    \/ \E c \in Conn : \/ Upload(c) \/ Step(c) \/ WriteFails(c)
                       \/ ReplaceFails(c) \/ CommitUnknown(c) \/ DeleteFails(c)
    \/ \E f \in File : LatePut(f) \/ LateDelete(f)
    \/ Crash \/ Deploy

\* Every command returns or times out; a waiting transaction gets the row lock
\* in its turn.
AvatarSpec == /\ AvatarInit /\ [][AvatarNext]_vars
              /\ \A c \in Conn : SF_vars(Step(c))
-----------------------------------------------------------------------------
\* Type correctness; the row is locked by a transaction in progress.
AvatarTypeOK ==
    /\ mode \in {"local", "s3"} /\ row \in {None} \cup File
    /\ disk \cup bucket \cup puts \cup dels \subseteq File
    /\ faulty \cup unknown \subseteq File
    /\ lock # None => req[lock].at = "commit"

\* The avatar the users row names can be read, through overlapping uploads,
\* failed ones, late deletes and the move to S3; the exception is a COMMIT
\* whose answer was lost, after which the catch deletes the file in use.
RowIsServed == row \notin unknown \cup {None} => ReadAvatar(row)

\* A file in the configured store is the current avatar, or a request is still
\* going to deal with it, or one of its steps failed: overlapping uploads
\* leave nothing behind by themselves.
NoSilentOrphans ==
    Store \subseteq {row} \cup faulty \cup unknown \cup puts
                    \cup {req[c].file : c \in Conn}
                    \cup {req[c].old : c \in {d \in Conn : req[d].at = "clean"}}

\* Requests and stores are well formed, and no file is left behind unnoticed.
AvatarInv == AvatarTypeOK /\ NoSilentOrphans

\* Every upload is answered.
UploadsEnd == \A c \in Conn : req[c] # Idle ~> req[c] = Idle
=============================================================================
