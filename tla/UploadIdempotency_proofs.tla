---------------------- MODULE UploadIdempotency_proofs ----------------------
(***************************************************************************)
(* Proofs about the idempotency keys for any number of requests and keys   *)
(* and any number of faults.                                               *)
(***************************************************************************)
EXTENDS UploadIdempotency, TLAPS

\* Every step keeps the types.
LEMMA StepTypeOK ==
  ASSUME TypeOK, [Next]_vars
  PROVE  TypeOK'
  <1>1. ASSUME NEW r \in Requests, Step(r) PROVE TypeOK'
    <2>1. CASE Conflict(r)
      BY <2>1 DEF TypeOK, Conflict, Answer
    <2>2. CASE NotFound(r)
      BY <2>2 DEF TypeOK, NotFound
    <2>3. CASE LookupFails(r)
      BY <2>3 DEF TypeOK, LookupFails
    <2>4. CASE Insert(r)
      BY <2>4 DEF TypeOK, Insert, Answer
    <2>5. ASSUME NEW stored \in BOOLEAN, Ingest(r, stored) PROVE TypeOK'
      BY <2>5 DEF TypeOK, Ingest
    <2>6. CASE Respond(r)
      BY <2>6 DEF TypeOK, Respond, Answer
    <2> QED
      BY <1>1, <2>1, <2>2, <2>3, <2>4, <2>5, <2>6 DEF Step
  <1>2. ASSUME NEW r \in Requests, Crash(r) PROVE TypeOK'
    BY <1>2 DEF TypeOK, Crash
  <1>3. CASE UNCHANGED vars
    BY <1>3 DEF TypeOK, vars
  <1> QED
    BY <1>1, <1>2, <1>3 DEF Next

\* A step that ingests nothing, creates no record and lets nobody begin to
\* ingest keeps OneIngester.
LEMMA IngesterFrame ==
  ASSUME OneIngester, key' = key, record' = record, ingested' = ingested,
         \A r \in Requests : pc'[r] = "ingest" => pc[r] = "ingest"
  PROVE  OneIngester'
  BY DEF OneIngester, IngestedAtMostOnce

\* Every step keeps OneIngester.
LEMMA StepOneIngester ==
  ASSUME TypeOK, OneIngester, [Next]_vars
  PROVE  OneIngester'
  <1> USE DEF TypeOK
  <1>1. ASSUME NEW r \in Requests, Conflict(r) \/ NotFound(r) \/ LookupFails(r) \/ Respond(r) \/ Crash(r)
        PROVE  OneIngester'
    BY <1>1, IngesterFrame DEF Conflict, NotFound, LookupFails, Respond, Crash, Answer
  <1>2. ASSUME NEW r \in Requests, Insert(r) PROVE OneIngester'
    <2>1. CASE record[key[r]] = "none"
      <3>1. /\ record' = [record EXCEPT ![key[r]] = "pending"]
            /\ pc' = [pc EXCEPT ![r] = "ingest"]
            /\ UNCHANGED <<key, ingested>>
        BY <1>2, <2>1 DEF Insert
      <3>2. ingested[key[r]] = 0
        BY <2>1 DEF OneIngester
      <3>3. \A q \in Requests : pc[q] = "ingest" => key[q] # key[r]
        BY <2>1 DEF OneIngester
      <3> QED
        BY <3>1, <3>2, <3>3 DEF OneIngester, IngestedAtMostOnce
    <2>2. CASE record[key[r]] # "none"
      BY <1>2, <2>2, IngesterFrame DEF Insert, Answer
    <2> QED
      BY <2>1, <2>2
  <1>3. ASSUME NEW r \in Requests, NEW stored \in BOOLEAN, Ingest(r, stored) PROVE OneIngester'
    <2>1. /\ pc[r] = "ingest" /\ pc' = [pc EXCEPT ![r] = "respond"]
          /\ UNCHANGED <<record, key>>
      BY <1>3 DEF Ingest
    <2>2. record[key[r]] = "pending" /\ ingested[key[r]] = 0
      BY <2>1 DEF OneIngester
    <2>3. \A q \in Requests : pc'[q] = "ingest" => pc[q] = "ingest" /\ key[q] # key[r]
      BY <2>1 DEF OneIngester
    <2>4. /\ \A k \in Keys : k # key[r] => ingested'[k] = ingested[k]
          /\ ingested'[key[r]] \in {0, 1}
      BY <1>3, <2>2 DEF Ingest
    <2> QED
      BY <2>1, <2>2, <2>3, <2>4 DEF OneIngester, IngestedAtMostOnce
  <1>4. CASE UNCHANGED vars
    BY <1>4, IngesterFrame DEF vars
  <1> QED
    BY <1>1, <1>2, <1>3, <1>4 DEF Next, Step

\* The types hold in every reachable state: in particular a record never leaves
\* "pending", whatever check_and_create_idempotency_record is raced with.
THEOREM TypesHold == Spec => []TypeOK
  <1>1. Init => TypeOK
    BY IdempotencyAssumption DEF Init, TypeOK
  <1> QED
    BY <1>1, StepTypeOK, PTL DEF Spec

\* However many requests with one key are sent, at the same time or one after
\* the other, the file is ingested at most once.
THEOREM KeysWork == Spec => []IngestedAtMostOnce
  <1>1. Init => TypeOK /\ OneIngester
    BY IdempotencyAssumption DEF Init, TypeOK, OneIngester, IngestedAtMostOnce
  <1>2. TypeOK /\ OneIngester /\ [Next]_vars => (TypeOK /\ OneIngester)'
    BY StepTypeOK, StepOneIngester
  <1>3. OneIngester => IngestedAtMostOnce
    BY DEF OneIngester
  <1> QED
    BY <1>1, <1>2, <1>3, PTL DEF Spec
=============================================================================
