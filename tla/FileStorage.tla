---------------------------- MODULE FileStorage ----------------------------
(***************************************************************************)
(* One content in the local storage: stores and deletions of it that       *)
(* overlap (app/services/local_storage_service.py). Contents share nothing:*)
(* the record is keyed by the hash, and every path has the hash in it.     *)
(*                                                                         *)
(* The same content is stored once. Its record names the path of the first *)
(* store and counts the later ones, who are answered with that path. The   *)
(* path also depends on the file's name, vendor and organisation: stores   *)
(* that overlap before there is a record write the same path again, or a   *)
(* second one. Each query is a session of its own, its failure is logged   *)
(* and the operation goes on; only a failed write of the file ends it.     *)
(*                                                                         *)
(* Not here: compression, the copies under originals, the links, the audit *)
(* log, and reads, which change the time of the last access only.          *)
(***************************************************************************)
EXTENDS Naturals

CONSTANTS
    Requests,   \* calls of the storage
    Users,      \* their callers
    Paths,      \* the paths the content can get
    NoRequest   \* no request

ASSUME StorageAssumption == NoRequest \notin Requests

Record == [id : Requests, path : Paths, count : Nat]
NoRecord == [id |-> NoRequest]
Records == Record \union {NoRecord}

Grant == [by : Requests, path : Paths, user : Users]

Steps ==
    {"idle", "load", "count", "open", "write", "record", "grant", "look", "unlink", "move",
     "loadDown", "countDown", "revoke", "stored", "deleted", "refused"}

VARIABLES
    record,   \* the row of the content in file_deduplication
    grants,   \* the rows of its paths in file_access_control
    disk,     \* the file at each path: "none", "partial" or "whole"
    pc,       \* what each request does next
    user,     \* its caller
    path,     \* the path it works on, or is answered with
    seen,     \* the record its session has loaded
    handle,   \* requests whose open file is the one the path names
    written,  \* ghost: paths that have held the whole content
    removed,  \* ghost: paths whose file was deleted or archived
    cut,      \* ghost: those removed while a store was writing the file
    torn,     \* ghost: paths a failed write has left
    counted   \* ghost: stores the record has counted

tables == <<record, grants, counted>>
files == <<disk, handle, written, removed, cut, torn>>
vars == <<tables, files, pc, user, path, seen>>

Init ==
    /\ record = NoRecord
    /\ grants = {}
    /\ disk = [p \in Paths |-> "none"]
    /\ pc = [r \in Requests |-> "idle"]
    /\ user \in [Requests -> Users]
    /\ path \in [Requests -> Paths]
    /\ seen = [r \in Requests |-> NoRecord]
    /\ handle = {}
    /\ written = {}
    /\ removed = {}
    /\ cut = {}
    /\ torn = {}
    /\ counted = 0

Go(r, from, to) == pc[r] = from /\ pc' = [pc EXCEPT ![r] = to]

-----------------------------------------------------------------------------
(* store_file                                                              *)

\* The path is made only when there is no record; a failed query finds none.
CheckDeduplication(r, ok) ==
    LET found == ok /\ record # NoRecord IN
    /\ Go(r, "idle", IF found THEN "load" ELSE "open")
    /\ path' = IF found THEN [path EXCEPT ![r] = record.path] ELSE path
    /\ UNCHANGED <<tables, files, user, seen>>

\* The count is read and written in one session, and nothing is locked. A
\* duplicate is answered whether or not it was counted.
LoadReference(r, ok) ==
    LET found == ok /\ record # NoRecord IN
    /\ Go(r, "load", IF found THEN "count" ELSE "stored")
    /\ seen' = IF found THEN [seen EXCEPT ![r] = record] ELSE seen
    /\ UNCHANGED <<tables, files, user, path>>

\* The row is written by its key: there is none to write when it was deleted.
Reaches(r) == record.id = seen[r].id

UpdateReference(r, ok) ==
    /\ Go(r, "count", "stored")
    /\ IF ok /\ Reaches(r)
       THEN /\ record' = [seen[r] EXCEPT !.count = @ + 1]
            /\ counted' = counted + 1
       ELSE UNCHANGED <<record, counted>>
    /\ UNCHANGED <<grants, files, user, path, seen>>

\* Mutant: the record is saved before the file is written.
OpenRecorded(r) ==
    /\ Go(r, "open", "write")
    /\ disk' = [disk EXCEPT ![path[r]] = "partial"]
    /\ handle' = handle \union {r}
    /\ record' = IF record = NoRecord THEN [id |-> r, path |-> path[r], count |-> 1]
                 ELSE record
    /\ counted' = IF record = NoRecord THEN counted + 1 ELSE counted
    /\ UNCHANGED <<grants, written, removed, cut, torn, user, path, seen>>

\* The file is created, or what is there is truncated.
OpenFile(r) ==
    /\ Go(r, "open", "write")
    /\ disk' = [disk EXCEPT ![path[r]] = "partial"]
    /\ handle' = handle \union {r}
    /\ UNCHANGED <<tables, written, removed, cut, torn, user, path, seen>>

OpenFails(r) ==
    /\ Go(r, "open", "refused")
    /\ UNCHANGED <<tables, files, user, path, seen>>

\* A file removed while it is written stays removed. The copy under originals is
\* written next, and its failure also ends the store.
WriteFile(r, copied) ==
    /\ Go(r, "write", IF copied THEN "record" ELSE "refused")
    /\ IF r \in handle
       THEN /\ disk' = [disk EXCEPT ![path[r]] = "whole"]
            /\ written' = written \union {path[r]}
       ELSE UNCHANGED <<disk, written>>
    /\ handle' = handle \ {r}
    /\ UNCHANGED <<tables, removed, cut, torn, user, path, seen>>

\* Mutant: a failed write is logged and the store goes on.
WriteFailsUnseen(r) ==
    /\ Go(r, "write", "record")
    /\ handle' = handle \ {r}
    /\ UNCHANGED <<tables, disk, written, removed, cut, torn, user, path, seen>>

WriteFails(r) ==
    /\ Go(r, "write", "refused")
    /\ torn' = IF r \in handle THEN torn \union {path[r]} ELSE torn
    /\ handle' = handle \ {r}
    /\ UNCHANGED <<tables, disk, written, removed, cut, user, path, seen>>

\* The hash is unique: the second record of two first stores is refused.
SaveRecord(r, ok) ==
    /\ Go(r, "record", "grant")
    /\ IF ok /\ record = NoRecord
       THEN /\ record' = [id |-> r, path |-> path[r], count |-> 1]
            /\ counted' = counted + 1
       ELSE UNCHANGED <<record, counted>>
    /\ UNCHANGED <<grants, files, user, path, seen>>

\* Each first store adds a row: the path of a file is not unique in this table.
SetAccess(r, ok) ==
    /\ Go(r, "grant", "stored")
    /\ grants' = IF ok
                 THEN grants \union {[by |-> r, path |-> path[r], user |-> user[r]]}
                 ELSE grants
    /\ UNCHANGED <<record, counted, files, user, path, seen>>

-----------------------------------------------------------------------------
(* delete_file                                                             *)

\* A file without a row is open to all; with two, the query raises and all are
\* refused.
Allowed(u, p) ==
    LET ofPath == {g \in grants : g.path = p} IN
    \/ ofPath = {}
    \/ \E g \in ofPath : ofPath = {g} /\ g.user = u

CheckAccess(r) ==
    /\ Go(r, "idle", IF Allowed(user[r], path[r]) THEN "look" ELSE "refused")
    /\ UNCHANGED <<tables, files, user, path, seen>>

\* The file is there; its hash is looked up by the path, for a permanent
\* deletion or an archival.
LookUp(r, permanent, ok) ==
    /\ Go(r, "look", IF disk[path[r]] = "none" THEN "refused"
                     ELSE IF permanent THEN "unlink" ELSE "move")
    /\ seen' = IF ok /\ record # NoRecord /\ record.path = path[r]
               THEN [seen EXCEPT ![r] = record] ELSE seen
    /\ UNCHANGED <<tables, files, user, path>>

Remove(r) ==
    /\ disk[path[r]] # "none"
    /\ disk' = [disk EXCEPT ![path[r]] = "none"]
    /\ removed' = removed \union {path[r]}
    /\ cut' = cut \union {path[h] : h \in {h \in handle : path[h] = path[r]}}
    /\ handle' = {h \in handle : path[h] # path[r]}
    /\ UNCHANGED <<written, torn>>

\* Whoever else was answered with the path, its file goes.
Unlink(r) ==
    /\ Go(r, "unlink", IF seen[r] = NoRecord THEN "revoke" ELSE "loadDown")
    /\ Remove(r)
    /\ UNCHANGED <<tables, user, path, seen>>

\* Moved to the archive: the record and the grants stay.
Move(r) ==
    /\ Go(r, "move", "deleted")
    /\ Remove(r)
    /\ UNCHANGED <<tables, user, path, seen>>

\* Another deletion came first.
RemoveFails(r) ==
    /\ pc[r] \in {"unlink", "move"}
    /\ disk[path[r]] = "none"
    /\ pc' = [pc EXCEPT ![r] = "refused"]
    /\ UNCHANGED <<tables, files, user, path, seen>>

\* The record is loaded again, now by the hash.
LoadDown(r, ok) ==
    LET found == ok /\ record # NoRecord IN
    /\ Go(r, "loadDown", IF found THEN "countDown" ELSE "revoke")
    /\ seen' = IF found THEN [seen EXCEPT ![r] = record] ELSE seen
    /\ UNCHANGED <<tables, files, user, path>>

\* Mutant: the row stays when its last reference goes.
DownKeepingRow(seenRecord) == [seenRecord EXCEPT !.count = @ - 1]

\* The row goes with its last reference.
Down(seenRecord) ==
    IF seenRecord.count <= 1 THEN NoRecord ELSE [seenRecord EXCEPT !.count = @ - 1]

CountDown(r, ok) ==
    /\ Go(r, "countDown", "revoke")
    /\ record' = IF ok /\ Reaches(r) THEN Down(seen[r]) ELSE record
    /\ UNCHANGED <<grants, counted, files, user, path, seen>>

\* Every row of the path, whoever added it.
DeleteAccess(r, ok) ==
    /\ Go(r, "revoke", "deleted")
    /\ grants' = IF ok THEN {g \in grants : g.path # path[r]} ELSE grants
    /\ UNCHANGED <<record, counted, files, user, path, seen>>

-----------------------------------------------------------------------------
Store(r) ==
    \/ \E ok \in BOOLEAN : \/ CheckDeduplication(r, ok)
                           \/ LoadReference(r, ok)
                           \/ UpdateReference(r, ok)
                           \/ SaveRecord(r, ok)
                           \/ SetAccess(r, ok)
    \/ OpenFile(r)
    \/ OpenFails(r)
    \/ \E copied \in BOOLEAN : WriteFile(r, copied)
    \/ WriteFails(r)

Delete(r) ==
    \/ CheckAccess(r)
    \/ \E permanent, ok \in BOOLEAN : LookUp(r, permanent, ok)
    \/ Unlink(r)
    \/ Move(r)
    \/ RemoveFails(r)
    \/ \E ok \in BOOLEAN : LoadDown(r, ok) \/ CountDown(r, ok) \/ DeleteAccess(r, ok)

Next == \E r \in Requests : Store(r) \/ Delete(r)

Spec == Init /\ [][Next]_vars

-----------------------------------------------------------------------------
(* Properties                                                              *)

TypeOK ==
    /\ record \in Records
    /\ grants \in SUBSET Grant
    /\ disk \in [Paths -> {"none", "partial", "whole"}]
    /\ pc \in [Requests -> Steps]
    /\ user \in [Requests -> Users]
    /\ path \in [Requests -> Paths]
    /\ seen \in [Requests -> Records]
    /\ handle \in SUBSET Requests
    /\ written \in SUBSET Paths
    /\ removed \in SUBSET Paths
    /\ cut \in SUBSET Paths
    /\ torn \in SUBSET Paths
    /\ counted \in Nat

\* The record names a path that has held the whole content, as later stores of the
\* content are answered with it and write nothing. The one exception: a deletion
\* took the file away while a store was writing it, who saves its record all the same.
RecordIsBacked == record # NoRecord => record.path \in written \union cut

\* A path that a store was answered with holds the whole content until it is
\* deleted or archived, or a store that had checked before there was a record
\* writes it again: while it writes, and for good when that write fails.
StoredIsThere ==
    \A r \in Requests : pc[r] = "stored" =>
        \/ disk[path[r]] = "whole"
        \/ path[r] \in removed \union torn
        \/ \E w \in handle : pc[w] = "write" /\ path[w] = path[r]

\* References are lost when two are counted from one reading, but never made up:
\* the count is at most the stores it has counted, and a row counts at least one.
CountIsSound == record # NoRecord => record.count \in 1..counted

=============================================================================
