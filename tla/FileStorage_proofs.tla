------------------------- MODULE FileStorage_proofs -------------------------
(***************************************************************************)
(* The safety of overlapping stores and deletions of one content, for any  *)
(* requests, users and paths.                                              *)
(*                                                                         *)
(* The invariant follows the file: a path that has held the content keeps  *)
(* it, or was removed, or torn, or has a writer whose open file it names;  *)
(* and records, loaded records and answers only name such paths.           *)
(***************************************************************************)
EXTENDS FileStorage, TLAPS

Known == written \union cut

\* What became of a path that has held the whole content.
Kept ==
    \A p \in written :
        \/ disk[p] = "whole"
        \/ p \in removed \union torn
        \/ \E w \in handle : pc[w] = "write" /\ path[w] = p

\* A writer holds its file until it is removed under it.
Handles ==
    /\ cut \subseteq removed
    /\ \A r \in Requests :
          /\ r \in handle => pc[r] = "write"
          /\ pc[r] = "write" /\ r \notin handle => path[r] \in cut

\* Records and loaded records name paths that have held the content.
Backed ==
    /\ RecordIsBacked
    /\ \A r \in Requests : seen[r] # NoRecord => seen[r].path \in Known

\* So does everything a store is answered with, or about to be.
Answers ==
    \A r \in Requests :
        pc[r] \in {"load", "count", "record", "grant", "stored"} => path[r] \in Known

\* Loaded counts are as sound as the record they come from.
Counts ==
    /\ CountIsSound
    /\ \A r \in Requests :
          /\ seen[r] # NoRecord => seen[r].count \in 1..counted
          /\ pc[r] \in {"count", "countDown"} => seen[r] # NoRecord

IInv ==
    /\ TypeOK
    /\ Kept
    /\ Handles
    /\ Backed
    /\ Answers
    /\ Counts

USE DEF Steps

LEMMA InitHolds == Init => IInv
<1> SUFFICES ASSUME Init PROVE IInv
    OBVIOUS
<1> USE DEF Init
<1>1. TypeOK
  BY DEF TypeOK, Records
<1>2. Kept /\ Handles /\ Answers
  BY DEF Kept, Handles, Answers
<1>3. Backed /\ Counts
  BY DEF Backed, RecordIsBacked, Counts, CountIsSound
<1> QED BY <1>1, <1>2, <1>3 DEF IInv

\* The answer of a store is a path the invariant follows.
LEMMA StoredFollows == IInv => StoredIsThere
BY DEF IInv, Kept, Handles, Answers, Known, StoredIsThere

LEMMA RecordFacts ==
  ASSUME NEW x \in Records, x # NoRecord
  PROVE  x \in Record /\ x.id \in Requests /\ x.path \in Paths /\ x.count \in Nat
BY DEF Records, Record

-----------------------------------------------------------------------------
(* Steps that leave the files alone: the request was not writing, and only *)
(* goes on to where its path is known.                                     *)

LEMMA QuietFiles ==
  ASSUME IInv, NEW r \in Requests, UNCHANGED files, TypeOK',
         pc[r] # "write",
         \A q \in Requests : q # r => pc'[q] = pc[q] /\ path'[q] = path[q],
         pc'[r] # "write"
  PROVE  Kept' /\ Handles'
<1> USE DEF IInv, files
<1>1. r \notin handle
  BY DEF Handles
<1>2. \A w \in handle : w \in Requests /\ pc'[w] = pc[w] /\ path'[w] = path[w]
  BY <1>1 DEF TypeOK
<1>3. Kept'
  BY <1>2 DEF Kept
<1>4. Handles'
  BY <1>1 DEF Handles
<1> QED BY <1>3, <1>4

LEMMA CheckDeduplicationStep ==
  ASSUME IInv, NEW r \in Requests, NEW ok \in BOOLEAN, CheckDeduplication(r, ok)
  PROVE  IInv'
<1> USE DEF IInv, CheckDeduplication, Go, tables, files
<1>1. TypeOK'
  BY RecordFacts DEF TypeOK
<1>2. Kept' /\ Handles'
  BY <1>1, QuietFiles DEF TypeOK
<1>3. Backed'
  BY DEF Backed, RecordIsBacked, Known
<1>4. Answers'
  BY DEF Answers, Backed, RecordIsBacked, Known, TypeOK
<1>5. Counts'
  BY DEF Counts, CountIsSound, TypeOK
<1> QED BY <1>1, <1>2, <1>3, <1>4, <1>5

LEMMA LoadReferenceStep ==
  ASSUME IInv, NEW r \in Requests, NEW ok \in BOOLEAN, LoadReference(r, ok)
  PROVE  IInv'
<1> USE DEF IInv, LoadReference, Go, tables, files
<1>1. TypeOK'
  BY DEF TypeOK
<1>2. Kept' /\ Handles'
  BY <1>1, QuietFiles DEF TypeOK
<1>3. Backed'
  BY DEF Backed, RecordIsBacked, Known, TypeOK
<1>4. Answers'
  BY DEF Answers, Known, TypeOK
<1>5. Counts'
  BY DEF Counts, CountIsSound, TypeOK
<1> QED BY <1>1, <1>2, <1>3, <1>4, <1>5

LEMMA UpdateReferenceStep ==
  ASSUME IInv, NEW r \in Requests, NEW ok \in BOOLEAN, UpdateReference(r, ok)
  PROVE  IInv'
<1> USE DEF IInv, UpdateReference, Go, files
<1>0. /\ seen[r] \in Record
      /\ seen[r].path \in Known
      /\ seen[r].count \in 1..counted
  BY DEF Counts, Backed, TypeOK, Records
<1>1. \/ /\ record' = record
         /\ counted' = counted
      \/ /\ record' = [seen[r] EXCEPT !.count = @ + 1]
         /\ counted' = counted + 1
  OBVIOUS
<1>2. [seen[r] EXCEPT !.count = @ + 1] \in Record
  BY <1>0 DEF Record
<1>3. [seen[r] EXCEPT !.count = @ + 1].path = seen[r].path
  BY <1>0 DEF Record
<1>4. [seen[r] EXCEPT !.count = @ + 1].count = seen[r].count + 1
  BY <1>0 DEF Record
<1>5. TypeOK'
  BY <1>1, <1>2 DEF TypeOK, Records
<1>6. Kept' /\ Handles'
  BY <1>5, QuietFiles DEF TypeOK
<1>7. Backed'
  BY <1>0, <1>1, <1>3 DEF Backed, RecordIsBacked, Known
<1>8. Answers'
  BY DEF Answers, Known, TypeOK
<1>9. Counts'
  <2>1. counted \in Nat /\ counted' \in Nat /\ counted' >= counted
    BY <1>1 DEF TypeOK
  <2>2. CountIsSound'
    <3>1. CASE record' = record
      BY <2>1, <3>1, RecordFacts DEF Counts, CountIsSound, TypeOK
    <3>2. CASE record' = [seen[r] EXCEPT !.count = @ + 1] /\ counted' = counted + 1
      <4>1. seen[r].count + 1 \in 1..(counted + 1)
        BY <1>0, <2>1
      <4> QED BY <1>4, <3>2, <4>1 DEF CountIsSound
    <3> QED BY <1>1, <3>1, <3>2
  <2>3. \A q \in Requests : seen[q] # NoRecord => seen[q].count \in 1..counted'
    BY <2>1, RecordFacts DEF Counts, TypeOK
  <2> QED BY <2>2, <2>3 DEF Counts, TypeOK
<1> QED BY <1>5, <1>6, <1>7, <1>8, <1>9

LEMMA OpenFileStep ==
  ASSUME IInv, NEW r \in Requests, OpenFile(r)
  PROVE  IInv'
<1> USE DEF IInv, OpenFile, Go, tables
<1>1. TypeOK'
  BY DEF TypeOK
<1>2. r \in handle' /\ pc'[r] = "write" /\ path'[r] = path[r]
  BY DEF TypeOK
<1>3. \A w \in handle : w \in Requests /\ w # r /\ pc'[w] = pc[w]
  BY DEF Handles, TypeOK
<1>4. Kept'
  <2> SUFFICES ASSUME NEW p \in written
               PROVE  \/ disk'[p] = "whole"
                      \/ p \in removed \union torn
                      \/ \E w \in handle' : pc'[w] = "write" /\ path'[w] = p
      BY DEF Kept
  <2>1. CASE p = path[r]
    BY <1>2, <2>1
  <2>2. CASE p # path[r]
    <3>1. disk'[p] = disk[p]
      BY <2>2 DEF TypeOK
    <3> QED BY <1>3, <3>1 DEF Kept
  <2> QED BY <2>1, <2>2
<1>5. Handles'
  BY <1>2, <1>3 DEF Handles, TypeOK
<1>6. Backed'
  BY DEF Backed, RecordIsBacked, Known
<1>7. Answers'
  BY DEF Answers, Known, TypeOK
<1>8. Counts'
  BY DEF Counts, CountIsSound, TypeOK
<1> QED BY <1>1, <1>4, <1>5, <1>6, <1>7, <1>8

LEMMA OpenFailsStep ==
  ASSUME IInv, NEW r \in Requests, OpenFails(r)
  PROVE  IInv'
<1> USE DEF IInv, OpenFails, Go, tables, files
<1>1. TypeOK'
  BY DEF TypeOK
<1>2. Kept' /\ Handles'
  BY <1>1, QuietFiles DEF TypeOK
<1>3. Backed'
  BY DEF Backed, RecordIsBacked, Known
<1>4. Answers' /\ Counts'
  BY DEF Answers, Known, Counts, CountIsSound, TypeOK
<1> QED BY <1>1, <1>2, <1>3, <1>4

LEMMA WriteFileStep ==
  ASSUME IInv, NEW r \in Requests, NEW copied \in BOOLEAN, WriteFile(r, copied)
  PROVE  IInv'
<1> USE DEF IInv, WriteFile, Go, tables
<1>1. TypeOK'
  BY DEF TypeOK
<1>2. \A w \in handle' : w \in Requests /\ w # r /\ pc'[w] = pc[w] /\ path'[w] = path[w]
  BY DEF TypeOK
<1>3. path[r] \in Known'
  BY DEF Handles, Known
<1>4. Known \subseteq Known'
  BY DEF Known
<1>5. Kept'
  <2> SUFFICES ASSUME NEW p \in written'
               PROVE  \/ disk'[p] = "whole"
                      \/ p \in removed \union torn
                      \/ \E w \in handle' : pc'[w] = "write" /\ path'[w] = p
      BY DEF Kept
  <2>1. CASE r \in handle /\ p = path[r]
    BY <2>1 DEF TypeOK
  <2>2. CASE r \in handle /\ p # path[r]
    <3>1. p \in written /\ disk'[p] = disk[p]
      BY <2>2 DEF TypeOK
    <3>2. \A w \in handle : path[w] = p => w # r
      BY <2>2
    <3> QED BY <3>1, <3>2, <1>2 DEF Kept, TypeOK
  <2>3. CASE r \notin handle
    BY <2>3, <1>2 DEF Kept, TypeOK
  <2> QED BY <2>1, <2>2, <2>3
<1>6. Handles'
  BY <1>2 DEF Handles, TypeOK
<1>7. Backed'
  BY <1>4 DEF Backed, RecordIsBacked, Known
<1>8. Answers'
  BY <1>3, <1>4 DEF Answers, TypeOK
<1>9. Counts'
  BY DEF Counts, CountIsSound, TypeOK
<1> QED BY <1>1, <1>5, <1>6, <1>7, <1>8, <1>9

LEMMA WriteFailsStep ==
  ASSUME IInv, NEW r \in Requests, WriteFails(r)
  PROVE  IInv'
<1> USE DEF IInv, WriteFails, Go, tables
<1>1. TypeOK'
  BY DEF TypeOK
<1>2. \A w \in handle' : w \in Requests /\ w # r /\ pc'[w] = pc[w] /\ path'[w] = path[w]
  BY DEF TypeOK
<1>3. Kept'
  <2> SUFFICES ASSUME NEW p \in written
               PROVE  \/ disk[p] = "whole"
                      \/ p \in removed \union torn'
                      \/ \E w \in handle' : pc'[w] = "write" /\ path'[w] = p
      BY DEF Kept
  <2>1. CASE r \in handle /\ p = path[r]
    BY <2>1
  <2>2. CASE r \notin handle \/ p # path[r]
    <3>1. \A w \in handle : path[w] = p => w # r
      BY <2>2
    <3> QED BY <3>1, <1>2 DEF Kept, TypeOK
  <2> QED BY <2>1, <2>2
<1>4. Handles'
  BY <1>2 DEF Handles, TypeOK
<1>5. Backed'
  BY DEF Backed, RecordIsBacked, Known
<1>6. Answers' /\ Counts'
  BY DEF Answers, Known, Counts, CountIsSound, TypeOK
<1> QED BY <1>1, <1>3, <1>4, <1>5, <1>6

LEMMA SaveRecordStep ==
  ASSUME IInv, NEW r \in Requests, NEW ok \in BOOLEAN, SaveRecord(r, ok)
  PROVE  IInv'
<1> DEFINE new == [id |-> r, path |-> path[r], count |-> 1]
<1> USE DEF IInv, SaveRecord, Go, files
<1>1. new \in Record
  BY DEF Record, TypeOK
<1>2. \/ /\ record' = record
         /\ counted' = counted
      \/ /\ record' = new
         /\ counted' = counted + 1
  OBVIOUS
<1>3. TypeOK'
  BY <1>1, <1>2 DEF TypeOK, Records
<1>4. Kept' /\ Handles'
  BY <1>3, QuietFiles DEF TypeOK
<1>5. Backed'
  BY <1>2 DEF Backed, RecordIsBacked, Answers, Known
<1>6. Answers'
  BY DEF Answers, Known, TypeOK
<1>7. Counts'
  <2>1. counted \in Nat /\ counted' \in Nat /\ counted' >= counted
    BY <1>2 DEF TypeOK
  <2>2. CountIsSound'
    BY <1>2, <2>1 DEF Counts, CountIsSound
  <2>3. \A q \in Requests : seen[q] # NoRecord => seen[q].count \in 1..counted'
    BY <2>1, RecordFacts DEF Counts, TypeOK
  <2> QED BY <2>2, <2>3 DEF Counts, TypeOK
<1> QED BY <1>3, <1>4, <1>5, <1>6, <1>7

LEMMA SetAccessStep ==
  ASSUME IInv, NEW r \in Requests, NEW ok \in BOOLEAN, SetAccess(r, ok)
  PROVE  IInv'
<1> USE DEF IInv, SetAccess, Go, files
<1>1. TypeOK'
  BY DEF TypeOK, Grant
<1>2. Kept' /\ Handles'
  BY <1>1, QuietFiles DEF TypeOK
<1>3. Backed'
  BY DEF Backed, RecordIsBacked, Known
<1>4. Answers' /\ Counts'
  BY DEF Answers, Known, Counts, CountIsSound, TypeOK
<1> QED BY <1>1, <1>2, <1>3, <1>4

-----------------------------------------------------------------------------
(* Deletions                                                               *)

LEMMA CheckAccessStep ==
  ASSUME IInv, NEW r \in Requests, CheckAccess(r)
  PROVE  IInv'
<1> USE DEF IInv, CheckAccess, Go, tables, files
<1>1. TypeOK'
  BY DEF TypeOK
<1>2. Kept' /\ Handles'
  BY <1>1, QuietFiles DEF TypeOK
<1>3. Backed'
  BY DEF Backed, RecordIsBacked, Known
<1>4. Answers' /\ Counts'
  BY DEF Answers, Known, Counts, CountIsSound, TypeOK
<1> QED BY <1>1, <1>2, <1>3, <1>4

LEMMA LookUpStep ==
  ASSUME IInv, NEW r \in Requests, NEW permanent \in BOOLEAN, NEW ok \in BOOLEAN,
         LookUp(r, permanent, ok)
  PROVE  IInv'
<1> USE DEF IInv, LookUp, Go, tables, files
<1>1. TypeOK'
  BY DEF TypeOK
<1>2. Kept' /\ Handles'
  BY <1>1, QuietFiles DEF TypeOK
<1>3. Backed'
  BY DEF Backed, RecordIsBacked, Known, TypeOK
<1>4. Answers'
  BY DEF Answers, Known, TypeOK
<1>5. Counts'
  BY DEF Counts, CountIsSound, TypeOK
<1> QED BY <1>1, <1>2, <1>3, <1>4, <1>5

\* The file goes, and with it the hold of those that are writing it.
LEMMA RemoveStep ==
  ASSUME IInv, NEW r \in Requests, Remove(r), UNCHANGED <<tables, user, path, seen>>,
         pc[r] \in {"unlink", "move"},
         NEW to \in {"loadDown", "revoke", "deleted"}, pc' = [pc EXCEPT ![r] = to]
  PROVE  IInv'
<1> USE DEF IInv, Remove, tables
<1>1. TypeOK'
  BY DEF TypeOK
<1>2. Known \subseteq Known'
  BY DEF Known
<1>3. \A q \in Requests : pc'[q] # pc[q] => q = r
  BY DEF TypeOK
<1>4. r \notin handle
  BY DEF Handles
<1>5. Kept'
  <2> SUFFICES ASSUME NEW p \in written
               PROVE  \/ disk'[p] = "whole"
                      \/ p \in removed' \union torn
                      \/ \E w \in handle' : pc'[w] = "write" /\ path'[w] = p
      BY DEF Kept
  <2>1. CASE p = path[r]
    BY <2>1
  <2>2. CASE p # path[r]
    <3>1. disk'[p] = disk[p]
      BY <2>2 DEF TypeOK
    <3>2. \A w \in handle : path[w] = p => w \in handle' /\ pc'[w] = pc[w]
      BY <2>2, <1>3, <1>4 DEF TypeOK
    <3> QED BY <3>1, <3>2 DEF Kept
  <2> QED BY <2>1, <2>2
<1>6. Handles'
  BY <1>4 DEF Handles, TypeOK
<1>7. Backed'
  BY <1>2 DEF Backed, RecordIsBacked, Known
<1>8. Answers'
  BY <1>2 DEF Answers, TypeOK
<1>9. Counts'
  BY DEF Counts, CountIsSound, TypeOK
<1> QED BY <1>1, <1>5, <1>6, <1>7, <1>8, <1>9

LEMMA RemoveFailsStep ==
  ASSUME IInv, NEW r \in Requests, RemoveFails(r)
  PROVE  IInv'
<1> USE DEF IInv, RemoveFails, tables, files
<1>1. TypeOK'
  BY DEF TypeOK
<1>2. Kept' /\ Handles'
  BY <1>1, QuietFiles DEF TypeOK
<1>3. Backed'
  BY DEF Backed, RecordIsBacked, Known
<1>4. Answers' /\ Counts'
  BY DEF Answers, Known, Counts, CountIsSound, TypeOK
<1> QED BY <1>1, <1>2, <1>3, <1>4

LEMMA LoadDownStep ==
  ASSUME IInv, NEW r \in Requests, NEW ok \in BOOLEAN, LoadDown(r, ok)
  PROVE  IInv'
<1> USE DEF IInv, LoadDown, Go, tables, files
<1>1. TypeOK'
  BY DEF TypeOK
<1>2. Kept' /\ Handles'
  BY <1>1, QuietFiles DEF TypeOK
<1>3. Backed'
  BY DEF Backed, RecordIsBacked, Known, TypeOK
<1>4. Answers'
  BY DEF Answers, Known, TypeOK
<1>5. Counts'
  BY DEF Counts, CountIsSound, TypeOK
<1> QED BY <1>1, <1>2, <1>3, <1>4, <1>5

LEMMA CountDownStep ==
  ASSUME IInv, NEW r \in Requests, NEW ok \in BOOLEAN, CountDown(r, ok)
  PROVE  IInv'
<1> USE DEF IInv, CountDown, Go, files
<1>0. /\ seen[r] \in Record
      /\ seen[r].path \in Known
      /\ seen[r].count \in 1..counted
  BY DEF Counts, Backed, TypeOK, Records
<1>1. /\ Down(seen[r]) \in Records
      /\ Down(seen[r]) # NoRecord =>
           /\ Down(seen[r]).path \in Known
           /\ Down(seen[r]).count \in 1..counted
  <2>1. CASE seen[r].count <= 1
    BY <2>1 DEF Down, Records
  <2>2. CASE ~(seen[r].count <= 1)
    <3>1. counted \in Nat /\ seen[r].count - 1 \in 1..counted
      BY <1>0, <2>2 DEF TypeOK
    <3>2. /\ Down(seen[r]).path = seen[r].path
          /\ Down(seen[r]).count = seen[r].count - 1
          /\ Down(seen[r]) \in Record
      BY <1>0, <2>2, <3>1 DEF Down, Record
    <3> QED BY <1>0, <3>1, <3>2 DEF Records
  <2> QED BY <2>1, <2>2
<1>2. record' \in {record, Down(seen[r])}
  OBVIOUS
<1>3. TypeOK'
  BY <1>1, <1>2 DEF TypeOK
<1>4. Kept' /\ Handles'
  BY <1>3, QuietFiles DEF TypeOK
<1>5. Backed'
  BY <1>1, <1>2 DEF Backed, RecordIsBacked, Known
<1>6. Answers'
  BY DEF Answers, Known, TypeOK
<1>7. Counts'
  BY <1>1, <1>2 DEF Counts, CountIsSound, TypeOK
<1> QED BY <1>3, <1>4, <1>5, <1>6, <1>7

LEMMA DeleteAccessStep ==
  ASSUME IInv, NEW r \in Requests, NEW ok \in BOOLEAN, DeleteAccess(r, ok)
  PROVE  IInv'
<1> USE DEF IInv, DeleteAccess, Go, files
<1>1. TypeOK'
  BY DEF TypeOK
<1>2. Kept' /\ Handles'
  BY <1>1, QuietFiles DEF TypeOK
<1>3. Backed'
  BY DEF Backed, RecordIsBacked, Known
<1>4. Answers' /\ Counts'
  BY DEF Answers, Known, Counts, CountIsSound, TypeOK
<1> QED BY <1>1, <1>2, <1>3, <1>4

-----------------------------------------------------------------------------
LEMMA NextHolds == IInv /\ [Next]_vars => IInv'
<1> SUFFICES ASSUME IInv, [Next]_vars PROVE IInv'
    OBVIOUS
<1>1. CASE \E r \in Requests : Store(r)
  BY <1>1, CheckDeduplicationStep, LoadReferenceStep, UpdateReferenceStep, SaveRecordStep,
     SetAccessStep, OpenFileStep, OpenFailsStep, WriteFileStep, WriteFailsStep DEF Store
<1>2. CASE \E r \in Requests : Delete(r)
  <2> PICK r \in Requests : Delete(r)
    BY <1>2
  <2>1. CASE CheckAccess(r)
    BY <2>1, CheckAccessStep
  <2>2. CASE \E permanent, ok \in BOOLEAN : LookUp(r, permanent, ok)
    BY <2>2, LookUpStep
  <2>3. CASE Unlink(r) \/ Move(r)
    <3>1. \E to \in {"loadDown", "revoke", "deleted"} : pc' = [pc EXCEPT ![r] = to]
      BY <2>3 DEF Unlink, Move, Go
    <3>2. /\ Remove(r)
          /\ UNCHANGED <<tables, user, path, seen>>
          /\ pc[r] \in {"unlink", "move"}
      BY <2>3 DEF Unlink, Move, Go
    <3> QED BY <3>1, <3>2, RemoveStep
  <2>4. CASE RemoveFails(r)
    BY <2>4, RemoveFailsStep
  <2>5. CASE \E ok \in BOOLEAN : LoadDown(r, ok) \/ CountDown(r, ok) \/ DeleteAccess(r, ok)
    BY <2>5, LoadDownStep, CountDownStep, DeleteAccessStep
  <2> QED BY <2>1, <2>2, <2>3, <2>4, <2>5 DEF Delete
<1>3. CASE UNCHANGED vars
  BY <1>3 DEF vars, tables, files, IInv, TypeOK, Kept, Handles, Backed, RecordIsBacked,
              Answers, Counts, CountIsSound, Known
<1> QED BY <1>1, <1>2, <1>3 DEF Next

\* The invariant holds in every state the requests can reach.
THEOREM Invariance == Spec => []IInv
BY InitHolds, NextHolds, PTL DEF Spec

\* The tables, the files and the requests keep their types.
THEOREM TypeCorrect == Spec => []TypeOK
<1>1. IInv => TypeOK
  BY DEF IInv
<1> QED BY <1>1, Invariance, PTL

\* The record only names a path that has held the whole content, or whose file was
\* removed while a store was writing it.
THEOREM RecordBacked == Spec => []RecordIsBacked
<1>1. IInv => RecordIsBacked
  BY DEF IInv, Backed
<1> QED BY <1>1, Invariance, PTL

\* A path a store was answered with holds the content until it is removed, or
\* written again by a store that had checked before there was a record.
THEOREM StoredThere == Spec => []StoredIsThere
BY StoredFollows, Invariance, PTL

\* References are never made up, and a record counts at least one.
THEOREM CountSound == Spec => []CountIsSound
<1>1. IInv => CountIsSound
  BY DEF IInv, Counts
<1> QED BY <1>1, Invariance, PTL

=============================================================================
