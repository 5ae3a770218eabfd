--------------------------- MODULE AvatarsProofs ----------------------------
(***************************************************************************)
(* Avatars for any number of concurrent uploads and of files: the avatar   *)
(* the users row names can be read, and no file is left behind unnoticed.  *)
(***************************************************************************)
EXTENDS Avatars, TLAPS

ReqRow == [at : {"idle", "put", "lock", "commit", "clean", "undo"},
           file : File \cup {None}, old : File \cup {None}]

\* Every variable keeps its shape; nothing of S3 is used before the move.
ShapesOK ==
    /\ mode \in {"local", "s3"} /\ row \in {None} \cup File
    /\ disk \subseteq File /\ bucket \subseteq File
    /\ puts \subseteq faulty /\ dels \subseteq faulty
    /\ faulty \subseteq File /\ unknown \subseteq File
    /\ lock \in Conn \cup {None} /\ req \in [Conn -> ReqRow]
    /\ mode = "local" => bucket = {} /\ puts = {} /\ dels = {}

\* Before its commit, the file of an upload is known to nobody else, and is in
\* the store once it was written.
NotYetNamed(c) ==
    req[c].at \in {"put", "lock", "commit"} =>
       /\ req[c].file # row
       /\ req[c].file \notin faulty \cup unknown
       /\ \A d \in Conn : req[d].old # req[c].file
       /\ req[c].at # "put" => req[c].file \in Store

\* What a request is about to delete is not the avatar in use, unless the
\* answer to its COMMIT was lost.
ReqOK(c) ==
    /\ req[c].at = "idle" => req[c] = Idle
    /\ req[c].at # "idle" => req[c].file \in File
    /\ req[c].at = "commit" <=> lock = c
    /\ req[c].at = "commit" => req[c].old = row
    /\ req[c].at = "clean" => req[c].old \in File /\ req[c].old # row
    /\ req[c].at = "undo" => req[c].file # row \/ req[c].file \in unknown

\* Two uploads never share a file.
FilesApart ==
    \A c, d \in Conn : req[c].file # None /\ req[c].file = req[d].file => c = d

LateDeletesHarmless == row \in dels => row \in unknown

\* NoSilentOrphans, without counting on the file of an upload that has
\* committed and is only cleaning up.
Accounted ==
    Store \subseteq {row} \cup faulty \cup unknown
       \cup {req[c].file : c \in {d \in Conn : req[d].at \in
                                     {"put", "lock", "commit", "undo"}}}
       \cup {req[c].old : c \in {d \in Conn : req[d].at = "clean"}}

AvatarIInv ==
    /\ ShapesOK
    /\ \A c \in Conn : NotYetNamed(c) /\ ReqOK(c)
    /\ FilesApart
    /\ LateDeletesHarmless
    /\ Accounted
    /\ RowIsServed

-----------------------------------------------------------------------------

\* A first avatar or none, in the local store.
LEMMA AvatarInitOK == AvatarInit => AvatarIInv
<1> SUFFICES ASSUME AvatarInit PROVE AvatarIInv
  OBVIOUS
<1> USE AvatarAssumption
<1>1. Idle \in ReqRow
  BY DEF Idle, ReqRow
<1>2. ShapesOK
  BY <1>1 DEF AvatarInit, ShapesOK
<1>3. \A c \in Conn : NotYetNamed(c) /\ ReqOK(c)
  BY DEF AvatarInit, NotYetNamed, ReqOK, Idle
<1>4. FilesApart /\ LateDeletesHarmless
  BY DEF AvatarInit, FilesApart, LateDeletesHarmless, Idle
<1>5. Accounted /\ RowIsServed
  BY DEF AvatarInit, Accounted, RowIsServed, Store, ReadAvatar, ReadLocal
<1> QED
  BY <1>2, <1>3, <1>4, <1>5 DEF AvatarIInv

\* The file of an upload is written: only its own request knows it.
LEMMA WriteOK ==
    ASSUME AvatarIInv, NEW c \in Conn, WriteAvatar(c)
    PROVE  AvatarIInv'
<1> USE AvatarAssumption
<1> DEFINE new == [req[c] EXCEPT !.at = "lock"]
<1>1. /\ ShapesOK /\ FilesApart /\ LateDeletesHarmless
      /\ Accounted /\ RowIsServed
      /\ \A d \in Conn : NotYetNamed(d) /\ ReqOK(d)
  BY DEF AvatarIInv
<1>2. req[c] \in ReqRow /\ req \in [Conn -> ReqRow]
  BY <1>1 DEF ShapesOK
<1>3. /\ req[c].at = "put" /\ req' = [req EXCEPT ![c] = new]
      /\ SetStore(Store \cup {req[c].file})
      /\ UNCHANGED <<mode, puts, dels, row, lock, faulty, unknown>>
  BY DEF WriteAvatar
<1>4. /\ new \in ReqRow /\ new.at = "lock" /\ new.file = req[c].file
      /\ new.old = req[c].old /\ req[c].file \in File
  BY <1>1, <1>2, <1>3 DEF ReqRow, ReqOK
<1> HIDE DEF new
<1>5. req'[c] = new /\ \A d \in Conn : d # c => req'[d] = req[d]
  BY <1>2, <1>3
<1>6. ShapesOK'
  BY <1>1, <1>3, <1>4 DEF ShapesOK, Store, SetStore
<1>7. \A d \in Conn : NotYetNamed(d)'
  BY <1>1, <1>3, <1>4 DEF NotYetNamed, Store, Store, SetStore
<1>8. \A d \in Conn : ReqOK(d)'
  BY <1>1, <1>3, <1>4 DEF ReqOK
<1>9. FilesApart'
  BY <1>1, <1>4, <1>5 DEF FilesApart
<1>10. LateDeletesHarmless'
  BY <1>1, <1>3 DEF LateDeletesHarmless
<1>11. Accounted'
  BY <1>1, <1>3, <1>4 DEF Accounted, Store, Store, SetStore
<1>12. RowIsServed'
  BY <1>1, <1>3 DEF RowIsServed, ReadAvatar, ReadLocal, Store, Store, SetStore
<1> QED
  BY <1>6, <1>7, <1>8, <1>9, <1>10, <1>11, <1>12 DEF AvatarIInv

\* The row is locked and the avatar it names remembered.
LEMMA LockOK ==
    ASSUME AvatarIInv, NEW c \in Conn, ReplaceLocks(c)
    PROVE  AvatarIInv'
<1> USE AvatarAssumption
<1> DEFINE new == [req[c] EXCEPT !.at = "commit", !.old = row]
<1>1. /\ ShapesOK /\ FilesApart /\ LateDeletesHarmless
      /\ Accounted /\ RowIsServed
      /\ \A d \in Conn : NotYetNamed(d) /\ ReqOK(d)
  BY DEF AvatarIInv
<1>2. req[c] \in ReqRow /\ req \in [Conn -> ReqRow]
  BY <1>1 DEF ShapesOK
<1>3. /\ req[c].at = "lock" /\ lock = None /\ lock' = c
      /\ req' = [req EXCEPT ![c] = new]
      /\ UNCHANGED <<mode, disk, bucket, puts, dels, row, faulty, unknown>>
  BY DEF ReplaceLocks, stores
<1>4. /\ new \in ReqRow /\ new.at = "commit" /\ new.file = req[c].file
      /\ new.old = row /\ req[c].file \in File
  BY <1>1, <1>2, <1>3 DEF ReqRow, ReqOK, ShapesOK
<1> HIDE DEF new
<1>5. req'[c] = new /\ \A d \in Conn : d # c => req'[d] = req[d]
  BY <1>2, <1>3
<1>6. ShapesOK'
  BY <1>1, <1>3, <1>4 DEF ShapesOK
<1>7. \A d \in Conn : NotYetNamed(d)'
  BY <1>1, <1>3, <1>4 DEF NotYetNamed, Store
<1>8. \A d \in Conn : ReqOK(d)'
  BY <1>1, <1>3, <1>4, <1>5 DEF ReqOK
<1>9. FilesApart'
  BY <1>1, <1>4, <1>5 DEF FilesApart
<1>10. LateDeletesHarmless'
  BY <1>1, <1>3 DEF LateDeletesHarmless
<1>11. Accounted'
  BY <1>1, <1>3, <1>4 DEF Accounted, Store
<1>12. RowIsServed'
  BY <1>1, <1>3 DEF RowIsServed, ReadAvatar, ReadLocal
<1> QED
  BY <1>6, <1>7, <1>8, <1>9, <1>10, <1>11, <1>12 DEF AvatarIInv

\* COMMIT when there was an avatar: the old one is left to be deleted.
LEMMA CommitKeepsOld ==
    ASSUME AvatarIInv, NEW c \in Conn, ReplaceCommits(c), req[c].old # None
    PROVE  AvatarIInv'
<1> USE AvatarAssumption
<1> DEFINE new == [req[c] EXCEPT !.at = "clean"]
<1>1. /\ ShapesOK /\ FilesApart /\ LateDeletesHarmless
      /\ Accounted /\ RowIsServed
      /\ \A d \in Conn : NotYetNamed(d) /\ ReqOK(d)
  BY DEF AvatarIInv
<1>2. req[c] \in ReqRow /\ req \in [Conn -> ReqRow]
  BY <1>1 DEF ShapesOK
<1>3. /\ req[c].at = "commit" /\ row' = req[c].file
      /\ lock' = (IF lock = c THEN None ELSE lock)
      /\ req' = [req EXCEPT ![c] = new] /\ req[c].old # None
      /\ UNCHANGED <<mode, disk, bucket, puts, dels, faulty, unknown>>
  BY DEF ReplaceCommits, Unlocked, stores
<1>4. /\ new \in ReqRow /\ new.at = "clean"
      /\ new.file = req[c].file /\ new.old = req[c].old
      /\ req[c].file \in File
  BY <1>1, <1>2, <1>3 DEF ReqRow, ReqOK
<1> HIDE DEF new
<1>5. req'[c] = new /\ \A d \in Conn : d # c => req'[d] = req[d]
  BY <1>2, <1>3
<1>6. ShapesOK'
  BY <1>1, <1>3, <1>4 DEF ShapesOK
<1>7. \A d \in Conn : NotYetNamed(d)'
  BY <1>1, <1>3, <1>4, <1>5 DEF NotYetNamed, FilesApart, Store
<1>8. \A d \in Conn : ReqOK(d)'
  BY <1>1, <1>3, <1>4 DEF ShapesOK, NotYetNamed, ReqOK, FilesApart
<1>9. FilesApart'
  BY <1>1, <1>4, <1>5 DEF FilesApart
<1>10. LateDeletesHarmless'
  BY <1>1, <1>3 DEF LateDeletesHarmless, ShapesOK, NotYetNamed
<1>11. Accounted'
  BY <1>1, <1>3, <1>4, <1>5 DEF Accounted, Store, ReqOK
<1>12. RowIsServed'
  BY <1>1, <1>3 DEF RowIsServed, ReadAvatar, ReadLocal, NotYetNamed, Store
<1> QED
  BY <1>6, <1>7, <1>8, <1>9, <1>10, <1>11, <1>12 DEF AvatarIInv

\* COMMIT of a first avatar: the request is done.
LEMMA CommitFirst ==
    ASSUME AvatarIInv, NEW c \in Conn, ReplaceCommits(c), req[c].old = None
    PROVE  AvatarIInv'
<1> USE AvatarAssumption
<1> DEFINE new == Idle
<1>1. /\ ShapesOK /\ FilesApart /\ LateDeletesHarmless
      /\ Accounted /\ RowIsServed
      /\ \A d \in Conn : NotYetNamed(d) /\ ReqOK(d)
  BY DEF AvatarIInv
<1>2. req[c] \in ReqRow /\ req \in [Conn -> ReqRow]
  BY <1>1 DEF ShapesOK
<1>3. /\ req[c].at = "commit" /\ row' = req[c].file
      /\ lock' = (IF lock = c THEN None ELSE lock)
      /\ req' = [req EXCEPT ![c] = new] /\ req[c].old = None
      /\ UNCHANGED <<mode, disk, bucket, puts, dels, faulty, unknown>>
  BY DEF ReplaceCommits, Unlocked, stores
<1>4. /\ new = Idle
      /\ new \in ReqRow /\ new.at = "idle" /\ new.file = None /\ new.old = None
      /\ req[c].file \in File
  BY <1>1, <1>2, <1>3 DEF ReqRow, NotYetNamed, Idle
<1> HIDE DEF new
<1>5. req'[c] = new /\ \A d \in Conn : d # c => req'[d] = req[d]
  BY <1>2, <1>3
<1>6. ShapesOK'
  BY <1>1, <1>3, <1>4 DEF ShapesOK
<1>7. \A d \in Conn : NotYetNamed(d)'
  BY <1>1, <1>3, <1>4, <1>5 DEF NotYetNamed, FilesApart, Store
<1>8. \A d \in Conn : ReqOK(d)'
  BY <1>1, <1>3, <1>4, <1>5 DEF NotYetNamed, ReqOK, FilesApart
<1>9. FilesApart'
  BY <1>1, <1>4, <1>5 DEF FilesApart
<1>10. LateDeletesHarmless'
  BY <1>1, <1>3 DEF LateDeletesHarmless, ShapesOK, NotYetNamed
<1>11. Accounted'
  BY <1>1, <1>3 DEF Accounted, Store, ShapesOK, ReqOK
<1>12. RowIsServed'
  BY <1>1, <1>3 DEF RowIsServed, ReadAvatar, ReadLocal, NotYetNamed, Store
<1> QED
  BY <1>6, <1>7, <1>8, <1>9, <1>10, <1>11, <1>12 DEF AvatarIInv

\* ROLLBACK: the row keeps its avatar and the new file is left to be deleted.
LEMMA FailOK ==
    ASSUME AvatarIInv, NEW c \in Conn, ReplaceFails(c)
    PROVE  AvatarIInv'
<1> USE AvatarAssumption
<1> DEFINE new == [req[c] EXCEPT !.at = "undo"]
<1>1. /\ ShapesOK /\ FilesApart /\ LateDeletesHarmless
      /\ Accounted /\ RowIsServed
      /\ \A d \in Conn : NotYetNamed(d) /\ ReqOK(d)
  BY DEF AvatarIInv
<1>2. req[c] \in ReqRow /\ req \in [Conn -> ReqRow]
  BY <1>1 DEF ShapesOK
<1>3. /\ req[c].at \in {"lock", "commit"}
      /\ lock' = (IF lock = c THEN None ELSE lock)
      /\ req' = [req EXCEPT ![c] = new]
      /\ UNCHANGED <<mode, disk, bucket, puts, dels, row, faulty, unknown>>
  BY DEF ReplaceFails, Unlocked, stores
<1>4. /\ new \in ReqRow /\ new.at = "undo"
      /\ new.file = req[c].file /\ new.old = req[c].old
      /\ req[c].file \in File
  BY <1>1, <1>2, <1>3 DEF ReqRow, ReqOK
<1> HIDE DEF new
<1>5. req'[c] = new /\ \A d \in Conn : d # c => req'[d] = req[d]
  BY <1>2, <1>3
<1>6. ShapesOK'
  BY <1>1, <1>3, <1>4 DEF ShapesOK
<1>7. \A d \in Conn : NotYetNamed(d)'
  BY <1>1, <1>3, <1>4 DEF NotYetNamed, Store
<1>8. \A d \in Conn : ReqOK(d)'
  BY <1>1, <1>3, <1>4, <1>5 DEF NotYetNamed, ReqOK
<1>9. FilesApart'
  BY <1>1, <1>4, <1>5 DEF FilesApart
<1>10. LateDeletesHarmless'
  BY <1>1, <1>3 DEF LateDeletesHarmless
<1>11. Accounted'
  BY <1>1, <1>3, <1>4 DEF Accounted, Store
<1>12. RowIsServed'
  BY <1>1, <1>3 DEF RowIsServed, ReadAvatar, ReadLocal
<1> QED
  BY <1>6, <1>7, <1>8, <1>9, <1>10, <1>11, <1>12 DEF AvatarIInv

\* COMMIT without an answer: the file about to be deleted is marked unknown.
LEMMA UnknownOK ==
    ASSUME AvatarIInv, NEW c \in Conn, CommitUnknown(c)
    PROVE  AvatarIInv'
<1> USE AvatarAssumption
<1> DEFINE new == [req[c] EXCEPT !.at = "undo"]
<1>1. /\ ShapesOK /\ FilesApart /\ LateDeletesHarmless
      /\ Accounted /\ RowIsServed
      /\ \A d \in Conn : NotYetNamed(d) /\ ReqOK(d)
  BY DEF AvatarIInv
<1>2. req[c] \in ReqRow /\ req \in [Conn -> ReqRow]
  BY <1>1 DEF ShapesOK
<1>3. /\ req[c].at = "commit" /\ row' = req[c].file
      /\ lock' = (IF lock = c THEN None ELSE lock)
      /\ req' = [req EXCEPT ![c] = new]
      /\ faulty' = faulty \cup ({req[c].old} \ {None})
      /\ unknown' = unknown \cup {req[c].file}
      /\ UNCHANGED <<mode, disk, bucket, puts, dels>>
  BY DEF CommitUnknown, Unlocked, stores
<1>4. /\ new \in ReqRow /\ new.at = "undo"
      /\ new.file = req[c].file /\ new.old = req[c].old
      /\ req[c].file \in File /\ req[c].old \in File \cup {None}
  BY <1>1, <1>2, <1>3 DEF ReqRow, ReqOK
<1> HIDE DEF new
<1>5. req'[c] = new /\ \A d \in Conn : d # c => req'[d] = req[d]
  BY <1>2, <1>3
<1>6. ShapesOK'
  BY <1>1, <1>3, <1>4 DEF ShapesOK
<1>7. \A d \in Conn : NotYetNamed(d)'
  BY <1>1, <1>3, <1>4, <1>5 DEF NotYetNamed, FilesApart, Store
<1>8. \A d \in Conn : ReqOK(d)'
  BY <1>1, <1>3, <1>4, <1>5 DEF NotYetNamed, ReqOK
<1>9. FilesApart'
  BY <1>1, <1>4, <1>5 DEF FilesApart
<1>10. LateDeletesHarmless'
  BY <1>3 DEF LateDeletesHarmless
<1>11. Accounted'
  BY <1>1, <1>3 DEF Accounted, Store, ShapesOK, ReqOK
<1>12. RowIsServed'
  BY <1>3 DEF RowIsServed
<1> QED
  BY <1>6, <1>7, <1>8, <1>9, <1>10, <1>11, <1>12 DEF AvatarIInv

\* A new upload: its file was never used.
LEMMA UploadOK ==
    ASSUME AvatarIInv, NEW c \in Conn, Upload(c)
    PROVE  AvatarIInv'
<1> USE AvatarAssumption
<1> PICK f \in Fresh : req' = [req EXCEPT ![c].at = "put", ![c].file = f]
  BY DEF Upload
<1> DEFINE new == [Idle EXCEPT !.at = "put", !.file = f]
<1>1. /\ ShapesOK /\ FilesApart /\ LateDeletesHarmless
      /\ Accounted /\ RowIsServed
      /\ \A d \in Conn : NotYetNamed(d) /\ ReqOK(d)
  BY DEF AvatarIInv
<1>2. req[c] \in ReqRow /\ req \in [Conn -> ReqRow]
  BY <1>1 DEF ShapesOK
<1>3. /\ req[c] = Idle /\ req' = [req EXCEPT ![c] = new]
      /\ UNCHANGED <<mode, disk, bucket, puts, dels, row, lock, faulty, unknown>>
  BY DEF Upload, stores
<1>4. /\ new \in ReqRow /\ new.at = "put" /\ new.file = f /\ new.old = None
      /\ req[c].at = "idle" /\ req[c].file = None /\ req[c].old = None
      /\ f \in File /\ f \in Fresh
  BY <1>2, <1>3 DEF Idle, Fresh
<1> HIDE DEF new
<1>5. req'[c] = new /\ \A d \in Conn : d # c => req'[d] = req[d]
  BY <1>2, <1>3
<1>6. ShapesOK'
  BY <1>1, <1>3, <1>4 DEF ShapesOK
<1>7. \A d \in Conn : NotYetNamed(d)'
  BY <1>1, <1>2, <1>3 DEF NotYetNamed, Store, Fresh
<1>8. \A d \in Conn : ReqOK(d)'
  BY <1>1, <1>3, <1>4, <1>5 DEF ReqOK
<1>9. FilesApart'
  BY <1>1, <1>3, <1>4, <1>5 DEF FilesApart, Fresh
<1>10. LateDeletesHarmless'
  BY <1>1, <1>3 DEF LateDeletesHarmless
<1>11. Accounted'
  BY <1>1, <1>2, <1>3, <1>4 DEF Accounted, Store
<1>12. RowIsServed'
  BY <1>1, <1>3 DEF RowIsServed, ReadAvatar, ReadLocal
<1> QED
  BY <1>6, <1>7, <1>8, <1>9, <1>10, <1>11, <1>12 DEF AvatarIInv

\* A write that failed or was given up: the file is marked faulty.
LEMMA WriteFailsOK ==
    ASSUME AvatarIInv, NEW c \in Conn, WriteFails(c)
    PROVE  AvatarIInv'
<1> USE AvatarAssumption
<1> DEFINE new == Idle
<1>1. /\ ShapesOK /\ FilesApart /\ LateDeletesHarmless
      /\ Accounted /\ RowIsServed
      /\ \A d \in Conn : NotYetNamed(d) /\ ReqOK(d)
  BY DEF AvatarIInv
<1>2. req[c] \in ReqRow /\ req \in [Conn -> ReqRow]
  BY <1>1 DEF ShapesOK
<1>3. /\ req[c].at = "put" /\ req' = [req EXCEPT ![c] = new]
      /\ faulty' = faulty \cup {req[c].file}
      /\ disk \subseteq disk' /\ disk' \subseteq disk \cup {req[c].file}
      /\ puts' \subseteq puts \cup {req[c].file}
      /\ mode = "local" => puts' = puts
      /\ mode # "local" => disk' = disk
      /\ UNCHANGED <<mode, bucket, dels, row, lock, unknown>>
  BY DEF WriteFails
<1>4. /\ new = Idle
      /\ new \in ReqRow /\ new.at = "idle" /\ new.file = None /\ new.old = None
      /\ req[c].file \in File
  BY <1>1, <1>3 DEF ReqRow, ReqOK, Idle
<1> HIDE DEF new
<1>5. req'[c] = new /\ \A d \in Conn : d # c => req'[d] = req[d]
  BY <1>2, <1>3
<1>6. ShapesOK'
  BY <1>1, <1>3, <1>4 DEF ShapesOK
<1>7. \A d \in Conn : NotYetNamed(d)'
  BY <1>1, <1>3, <1>4, <1>5 DEF NotYetNamed, ReqOK, FilesApart, Store
<1>8. \A d \in Conn : ReqOK(d)'
  BY <1>1, <1>3, <1>4 DEF ReqOK
<1>9. FilesApart'
  BY <1>1, <1>4, <1>5 DEF FilesApart
<1>10. LateDeletesHarmless'
  BY <1>1, <1>3 DEF LateDeletesHarmless
<1>11. Accounted'
  BY <1>1, <1>3 DEF Accounted, Store
<1>12. RowIsServed'
  BY <1>1, <1>3 DEF RowIsServed, ReadAvatar, ReadLocal
<1> QED
  BY <1>6, <1>7, <1>8, <1>9, <1>10, <1>11, <1>12 DEF AvatarIInv

\* A delete: its target is not the avatar in use, or its commit is unknown.
LEMMA DeleteOK ==
    ASSUME AvatarIInv, NEW c \in Conn, DeleteAvatar(c)
    PROVE  AvatarIInv'
<1> USE AvatarAssumption
<1> DEFINE new == Idle
<1>1. /\ ShapesOK /\ FilesApart /\ LateDeletesHarmless
      /\ Accounted /\ RowIsServed
      /\ \A d \in Conn : NotYetNamed(d) /\ ReqOK(d)
  BY DEF AvatarIInv
<1>2. req[c] \in ReqRow /\ req \in [Conn -> ReqRow]
  BY <1>1 DEF ShapesOK
<1>3. /\ req[c].at \in {"clean", "undo"} /\ req' = [req EXCEPT ![c] = new]
      /\ SetStore(Store \ {Target(c)})
      /\ UNCHANGED <<mode, puts, dels, row, lock, faulty, unknown>>
  BY DEF DeleteAvatar
<1>4. /\ new = Idle
      /\ new \in ReqRow /\ new.at = "idle" /\ new.file = None /\ new.old = None
      /\ req[c].file \in File
  BY <1>1, <1>3 DEF ReqRow, ReqOK, Idle
<1> HIDE DEF new
<1>5. req'[c] = new /\ \A d \in Conn : d # c => req'[d] = req[d]
  BY <1>2, <1>3
<1>6. ShapesOK'
  BY <1>1, <1>3, <1>4 DEF ShapesOK, Store, SetStore
<1>7. \A d \in Conn : NotYetNamed(d)'
  BY <1>1, <1>3, <1>4
  DEF NotYetNamed, ReqOK, FilesApart, Store, Store, SetStore, Target
<1>8. \A d \in Conn : ReqOK(d)'
  BY <1>1, <1>3, <1>4 DEF ReqOK
<1>9. FilesApart'
  BY <1>1, <1>4, <1>5 DEF FilesApart
<1>10. LateDeletesHarmless'
  BY <1>1, <1>3 DEF LateDeletesHarmless
<1>11. Accounted'
  BY <1>1, <1>3 DEF Accounted, Store, Store, SetStore, Target
<1>12. RowIsServed'
  BY <1>1, <1>3
  DEF RowIsServed, ReadAvatar, ReadLocal, ReqOK, Store, Store, SetStore, Target
<1> QED
  BY <1>6, <1>7, <1>8, <1>9, <1>10, <1>11, <1>12 DEF AvatarIInv

\* A delete that failed or was given up: its target is marked faulty.
LEMMA DeleteFailsOK ==
    ASSUME AvatarIInv, NEW c \in Conn, DeleteFails(c)
    PROVE  AvatarIInv'
<1> USE AvatarAssumption
<1> DEFINE new == Idle
<1>1. /\ ShapesOK /\ FilesApart /\ LateDeletesHarmless
      /\ Accounted /\ RowIsServed
      /\ \A d \in Conn : NotYetNamed(d) /\ ReqOK(d)
  BY DEF AvatarIInv
<1>2. req[c] \in ReqRow /\ req \in [Conn -> ReqRow]
  BY <1>1 DEF ShapesOK
<1>3. /\ req[c].at \in {"clean", "undo"} /\ req' = [req EXCEPT ![c] = new]
      /\ faulty' = faulty \cup {Target(c)}
      /\ dels' \subseteq dels \cup {Target(c)}
      /\ mode = "local" => dels' = dels
      /\ UNCHANGED <<mode, disk, bucket, puts, row, lock, unknown>>
  BY DEF DeleteFails
<1>4. /\ new = Idle
      /\ new \in ReqRow /\ new.at = "idle" /\ new.file = None /\ new.old = None
      /\ req[c].file \in File
      /\ Target(c) \in File
      /\ Target(c) # row \/ Target(c) \in unknown
  BY <1>1, <1>3 DEF ReqRow, ReqOK, Idle, Target
<1> HIDE DEF new
<1>5. req'[c] = new /\ \A d \in Conn : d # c => req'[d] = req[d]
  BY <1>2, <1>3
<1>6. ShapesOK'
  BY <1>1, <1>3, <1>4 DEF ShapesOK
<1>7. \A d \in Conn : NotYetNamed(d)'
  BY <1>1, <1>3, <1>4 DEF NotYetNamed, ReqOK, FilesApart, Store, Target
<1>8. \A d \in Conn : ReqOK(d)'
  BY <1>1, <1>3, <1>4 DEF ReqOK
<1>9. FilesApart'
  BY <1>1, <1>4, <1>5 DEF FilesApart
<1>10. LateDeletesHarmless'
  BY <1>1, <1>3, <1>4 DEF LateDeletesHarmless
<1>11. Accounted'
  BY <1>1, <1>3 DEF Accounted, Store, Target
<1>12. RowIsServed'
  BY <1>1, <1>3 DEF RowIsServed, ReadAvatar, ReadLocal
<1> QED
  BY <1>6, <1>7, <1>8, <1>9, <1>10, <1>11, <1>12 DEF AvatarIInv

\* A PutObject given up arrives: its file was marked when it was given up.
LEMMA LatePutOK ==
    ASSUME AvatarIInv, NEW f \in File, LatePut(f)
    PROVE  AvatarIInv'
<1> USE AvatarAssumption
<1>1. /\ f \in puts /\ puts' = puts \ {f} /\ bucket' = bucket \cup {f}
      /\ UNCHANGED <<mode, disk, dels, row, lock, req, faulty, unknown>>
  BY DEF LatePut
<1>2. ShapesOK' /\ f \in faulty /\ mode # "local"
  BY <1>1 DEF AvatarIInv, ShapesOK
<1>3. \A c \in Conn : NotYetNamed(c)' /\ ReqOK(c)'
  BY <1>1 DEF AvatarIInv, NotYetNamed, ReqOK, Store
<1>4. FilesApart' /\ LateDeletesHarmless'
  BY <1>1 DEF AvatarIInv, FilesApart, LateDeletesHarmless
<1>5. Accounted'
  BY <1>1, <1>2 DEF AvatarIInv, Accounted, Store
<1>6. RowIsServed'
  BY <1>1 DEF AvatarIInv, RowIsServed, ReadAvatar, ReadLocal
<1> QED
  BY <1>2, <1>3, <1>4, <1>5, <1>6 DEF AvatarIInv

\* A DeleteObject given up arrives: its file is not the avatar in use, and an
\* upload before its commit still has its own.
LEMMA LateDeleteOK ==
    ASSUME AvatarIInv, NEW f \in File, LateDelete(f)
    PROVE  AvatarIInv'
<1> USE AvatarAssumption
<1>1. /\ f \in dels /\ dels' = dels \ {f} /\ bucket' = bucket \ {f}
      /\ UNCHANGED <<mode, disk, puts, row, lock, req, faulty, unknown>>
  BY DEF LateDelete
<1>2. ShapesOK' /\ f \in faulty /\ mode # "local"
  BY <1>1 DEF AvatarIInv, ShapesOK
<1>3. \A c \in Conn : NotYetNamed(c)' /\ ReqOK(c)'
  BY <1>1, <1>2 DEF AvatarIInv, NotYetNamed, ReqOK, Store
<1>4. FilesApart' /\ LateDeletesHarmless'
  BY <1>1 DEF AvatarIInv, FilesApart, LateDeletesHarmless
<1>5. Accounted'
  BY <1>1 DEF AvatarIInv, Accounted, Store
<1>6. RowIsServed'
  BY <1>1
  DEF AvatarIInv, LateDeletesHarmless, RowIsServed, ReadAvatar, ReadLocal
<1> QED
  BY <1>2, <1>3, <1>4, <1>5, <1>6 DEF AvatarIInv

\* A crash: what the requests were dealing with is marked, and the row keeps
\* the avatar it names.
LEMMA CrashOK ==
    ASSUME AvatarIInv, Crash
    PROVE  AvatarIInv'
<1> USE AvatarAssumption
<1>1. /\ \A c \in Conn : req'[c] = Idle
      /\ req' = [c \in Conn |-> Idle] /\ lock' = None
      /\ UNCHANGED <<mode, disk, bucket, dels, row, unknown>>
  BY DEF Crash
<1>2. /\ faulty' = (faulty \cup {req[c].file : c \in Flying}
                           \cup {req[c].old : c \in Flying}) \ {None}
      /\ puts' \subseteq puts
            \cup {req[c].file : c \in {d \in Conn : req[d].at = "put"}}
      /\ mode = "local" => puts' = puts
  BY DEF Crash
<1>3. \A c \in Conn : /\ req[c] \in ReqRow
                      /\ req[c].at # "idle" => req[c].file \in File /\ c \in Flying
                      /\ req[c].at = "clean" => req[c].old \in File
  BY DEF AvatarIInv, ShapesOK, ReqOK, Flying, Idle
<1>4. faulty \subseteq faulty' /\ faulty' \subseteq File
  <2>1. faulty \subseteq File /\ Flying \subseteq Conn
    BY DEF AvatarIInv, ShapesOK, Flying
  <2>2. \A c \in Flying : req[c].file \in File \cup {None}
                          /\ req[c].old \in File \cup {None}
    BY <1>3, <2>1 DEF ReqRow
  <2> QED
    BY <1>2, <2>1, <2>2
<1>5. \A c \in Conn : req[c].at # "idle" => req[c].file \in faulty'
  BY <1>2, <1>3
<1>6. \A c \in Conn : req[c].at = "clean" => req[c].old \in faulty'
  BY <1>2, <1>3
<1>7. ShapesOK'
  <2>1. Idle \in ReqRow
    BY DEF Idle, ReqRow
  <2>2. puts \subseteq faulty /\ puts' \subseteq faulty'
    BY <1>2, <1>5 DEF AvatarIInv, ShapesOK
  <2> QED
    BY <1>1, <1>2, <1>4, <2>1, <2>2 DEF AvatarIInv, ShapesOK
<1>8. \A c \in Conn : NotYetNamed(c)' /\ ReqOK(c)'
  BY <1>1 DEF NotYetNamed, ReqOK, Idle
<1>9. FilesApart' /\ LateDeletesHarmless'
  BY <1>1 DEF AvatarIInv, FilesApart, LateDeletesHarmless, Idle
<1>10. Accounted'
  BY <1>1, <1>4, <1>5, <1>6 DEF AvatarIInv, Accounted, Store
<1>11. RowIsServed'
  BY <1>1 DEF AvatarIInv, RowIsServed, ReadAvatar, ReadLocal
<1> QED
  BY <1>7, <1>8, <1>9, <1>10, <1>11 DEF AvatarIInv

\* The move to S3, between two processes: the local file still serves the row.
LEMMA DeployOK ==
    ASSUME AvatarIInv, Deploy
    PROVE  AvatarIInv'
<1> USE AvatarAssumption
<1>1. /\ mode = "local" /\ mode' = "s3" /\ \A c \in Conn : req[c] = Idle
      /\ UNCHANGED <<disk, bucket, puts, dels, row, lock, req, faulty, unknown>>
  BY DEF Deploy, Flying, stores
<1>2. ShapesOK' /\ bucket = {}
  BY <1>1 DEF AvatarIInv, ShapesOK
<1>3. \A c \in Conn : NotYetNamed(c)' /\ ReqOK(c)'
  BY <1>1 DEF AvatarIInv, NotYetNamed, ReqOK, Idle
<1>4. FilesApart' /\ LateDeletesHarmless'
  BY <1>1 DEF AvatarIInv, FilesApart, LateDeletesHarmless
<1>5. Accounted'
  BY <1>1, <1>2 DEF Accounted, Store
<1>6. RowIsServed'
  BY <1>1 DEF AvatarIInv, RowIsServed, ReadAvatar, ReadLocal
<1> QED
  BY <1>2, <1>3, <1>4, <1>5, <1>6 DEF AvatarIInv

\* A step that leaves every variable as it is.
LEMMA AvatarStutterOK ==
    ASSUME AvatarIInv, UNCHANGED vars
    PROVE  AvatarIInv'
  BY DEF vars, AvatarIInv, ShapesOK, NotYetNamed, ReqOK, FilesApart,
      LateDeletesHarmless, Accounted, RowIsServed, ReadAvatar, ReadLocal, Store

\* Every step of the uploads, of S3 and of the deployment keeps AvatarIInv.
LEMMA AvatarNextOK == AvatarIInv /\ [AvatarNext]_vars => AvatarIInv'
<1> SUFFICES ASSUME AvatarIInv, [AvatarNext]_vars PROVE AvatarIInv'
  OBVIOUS
<1>1. ASSUME NEW c \in Conn, Upload(c) PROVE AvatarIInv'
  BY <1>1, UploadOK
<1>2. ASSUME NEW c \in Conn, WriteAvatar(c) \/ WriteFails(c) PROVE AvatarIInv'
  BY <1>2, WriteOK, WriteFailsOK
<1>3. ASSUME NEW c \in Conn, ReplaceLocks(c) \/ ReplaceFails(c)
      PROVE AvatarIInv'
  BY <1>3, LockOK, FailOK
<1>4. ASSUME NEW c \in Conn, ReplaceCommits(c) PROVE AvatarIInv'
  BY <1>4, CommitKeepsOld, CommitFirst
<1>5. ASSUME NEW c \in Conn, CommitUnknown(c) PROVE AvatarIInv'
  BY <1>5, UnknownOK
<1>6. ASSUME NEW c \in Conn, DeleteAvatar(c) \/ DeleteFails(c)
      PROVE AvatarIInv'
  BY <1>6, DeleteOK, DeleteFailsOK
<1>7. ASSUME NEW f \in File, LatePut(f) \/ LateDelete(f) PROVE AvatarIInv'
  BY <1>7, LatePutOK, LateDeleteOK
<1>8. CASE Crash \/ Deploy
  BY <1>8, CrashOK, DeployOK
<1>9. CASE UNCHANGED vars
  BY <1>9, AvatarStutterOK
<1> QED
  BY <1>1, <1>2, <1>3, <1>4, <1>5, <1>6, <1>7, <1>8, <1>9 DEF AvatarNext, Step
-----------------------------------------------------------------------------
\* AvatarIInv holds in every reachable state of inspectAndStoreAvatar,
\* replaceAvatar and the two avatar stores.
THEOREM AvatarInvariant == AvatarSpec => []AvatarIInv
  BY AvatarInitOK, AvatarNextOK, PTL DEF AvatarSpec

\* AvatarInv: the stores hold no file that is neither in use, nor in the hands
\* of a request of routes/auth.js, nor marked by a step of its that failed.
THEOREM AvatarSafe == AvatarSpec => []AvatarInv
<1>1. AvatarIInv => AvatarInv
  <2> SUFFICES ASSUME AvatarIInv PROVE AvatarInv
    OBVIOUS
  <2>1. AvatarTypeOK
    BY DEF AvatarIInv, AvatarTypeOK, ShapesOK, ReqOK
  <2>2. NoSilentOrphans
    BY DEF AvatarIInv, NoSilentOrphans, Accounted
  <2> QED
    BY <2>1, <2>2 DEF AvatarInv
<1> QED
  BY <1>1, AvatarInvariant, PTL

\* RowIsServed: readAvatar finds the avatar users.avatar_url names, through
\* overlapping and failed uploads, late commands, crashes and the move to S3,
\* unless the answer to the COMMIT that named it was lost.
THEOREM CurrentAvatarServed == AvatarSpec => []RowIsServed
<1>1. AvatarIInv => RowIsServed
  BY DEF AvatarIInv
<1> QED
  BY <1>1, AvatarInvariant, PTL

=============================================================================
