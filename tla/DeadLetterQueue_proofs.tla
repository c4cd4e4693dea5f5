----------------------- MODULE DeadLetterQueue_proofs -----------------------
(***************************************************************************)
(* Proofs about the dead letter queue for any number of entries and        *)
(* redrivers, any batch size, any retry limits and any number of crashes.  *)
(***************************************************************************)
EXTENDS DeadLetterQueue, TLAPS

\* The definitions that only abbreviate.
USE DEF Statuses, Redrivable, Present, Holding, NotLoaded, rowVars, runVars

-----------------------------------------------------------------------------
(* Type correctness                                                        *)

\* The initial state is well typed.
LEMMA InitTypeOK == Init => TypeOK
  BY DLQAssumption DEF Init, TypeOK

\* Whatever a record step writes is a row.
LEMMA WriteTypeOK ==
  ASSUME TypeOK, NEW r \in Redrivers, NEW s \in Statuses, cur[r] \in Entries, Write(r, s)
  PROVE  /\ status' \in [Entries -> Statuses \union {"none", "gone"}]
         /\ retries' \in [Entries -> Nat]
         /\ broken' \in [Redrivers -> BOOLEAN]
  <1> DEFINE e == cur[r]
  <1>0. seen[r].retries \in Nat
    BY DEF TypeOK
  <1>1. CASE Present(e)
    <2>1. retries' = [retries EXCEPT ![e] = seen[r].retries + 1]
      BY <1>1 DEF Write
    <2>2. status' = status \/ status' = [status EXCEPT ![e] = s]
      BY <1>1 DEF Write
    <2>3. broken' = broken
      BY <1>1 DEF Write
    <2> QED
      BY <1>0, <2>1, <2>2, <2>3 DEF TypeOK
  <1>2. CASE ~Present(e)
    BY <1>2 DEF TypeOK, Write
  <1> QED
    BY <1>1, <1>2

\* While a redriver is past the choice of an entry, it has one.
CurIsEntry == \A r \in Redrivers : pc[r] \in {"claim"} \union Holding => cur[r] \in Entries

Typed == TypeOK /\ CurIsEntry

\* No step leaves the types, or loses the entry a redriver works on.
LEMMA StepTyped ==
  ASSUME Typed, [Next]_vars
  PROVE  Typed'
  <1> USE DEF Typed
  <1>1. ASSUME NEW e \in Entries, Create(e) PROVE Typed'
    BY <1>1 DEF TypeOK, CurIsEntry, Create
  <1>2. ASSUME NEW e \in Entries, Delete(e) PROVE Typed'
    BY <1>2 DEF TypeOK, CurIsEntry, Delete
  <1>3. ASSUME NEW n \in Entries, NEW f \in SUBSET Statuses, Cleanup(n, f) PROVE Typed'
    BY <1>3 DEF TypeOK, CurIsEntry, Cleanup
  <1>4. ASSUME NEW r \in Redrivers, NEW b \in SUBSET Entries, NEW m \in {"api", "forced"},
               StartBulk(r, b, m)
        PROVE  Typed'
    BY <1>4 DEF TypeOK, CurIsEntry, StartBulk, Begin
  <1>5. ASSUME NEW r \in Redrivers, StartAuto(r) PROVE Typed'
    BY <1>5 DEF TypeOK, CurIsEntry, StartAuto, Begin, ReadyForRetry
  <1>6. ASSUME NEW r \in Redrivers, NEW e \in Entries, Skip(r, e) PROVE Typed'
    BY <1>6 DEF TypeOK, CurIsEntry, Skip
  <1>7. ASSUME NEW r \in Redrivers, NEW e \in Entries, Check(r, e) PROVE Typed'
    <2> DEFINE read == IF e \in cached[r] THEN "pending" ELSE status[e]
    <2>1. read \in Statuses
      BY <1>7 DEF Check, MayRedrive
    <2>2. seen' = [seen EXCEPT ![r].status = read]
      BY <1>7 DEF Check
    <2>3. seen' \in [Redrivers -> [status : Statuses, retries : Nat]]
      BY <2>1, <2>2 DEF TypeOK
    <2> QED
      BY <1>7, <2>3 DEF TypeOK, CurIsEntry, Check
  <1>8. ASSUME NEW r \in Redrivers, Claim(r) PROVE Typed'
    <2>1. CASE Present(cur[r])
      <3>1. raced' = raced \/ raced' = raced \union {cur[r]}
        BY <1>8, <2>1 DEF Claim
      <3>2. cur[r] \in Entries
        BY <1>8 DEF CurIsEntry, Claim
      <3>3. /\ status' = [status EXCEPT ![cur[r]] = "processing"]
            /\ pc' = [pc EXCEPT ![r] = "execute"]
            /\ cached' = [cached EXCEPT ![r] = {}]
            /\ seen' = [seen EXCEPT ![r] = NotLoaded]
            /\ UNCHANGED <<retries, sent, todo, cur, mode, outcome, fails, broken,
                           apiCalls, crashes>>
        BY <1>8, <2>1 DEF Claim
      <3> QED
        BY <3>1, <3>2, <3>3 DEF TypeOK, CurIsEntry
    <2>2. CASE ~Present(cur[r])
      BY <1>8, <2>2 DEF TypeOK, CurIsEntry, Claim
    <2> QED
      BY <2>1, <2>2
  <1>9. ASSUME NEW r \in Redrivers, NEW ok \in BOOLEAN, Publish(r, ok) PROVE Typed'
    BY <1>9 DEF TypeOK, CurIsEntry, Publish
  <1>10. ASSUME NEW r \in Redrivers, Vanished(r) PROVE Typed'
    BY <1>10 DEF TypeOK, CurIsEntry, Vanished
  <1>16. ASSUME NEW r \in Redrivers, Reload(r) PROVE Typed'
    <2>1. [status |-> status[cur[r]], retries |-> retries[cur[r]]] \in [status : Statuses, retries : Nat]
      BY <1>16 DEF TypeOK, CurIsEntry, Reload
    <2>2. seen' \in [Redrivers -> [status : Statuses, retries : Nat]]
      BY <1>16, <2>1 DEF TypeOK, Reload
    <2> QED
      BY <1>16, <2>2 DEF TypeOK, CurIsEntry, Reload
  <1>11. ASSUME NEW r \in Redrivers, RecordSuccess(r) PROVE Typed'
    <2>1. cur[r] \in Entries
      BY <1>11 DEF CurIsEntry, RecordSuccess
    <2>2. /\ status' \in [Entries -> Statuses \union {"none", "gone"}]
          /\ retries' \in [Entries -> Nat]
          /\ broken' \in [Redrivers -> BOOLEAN]
      BY <1>11, <2>1, WriteTypeOK DEF RecordSuccess, RecordAs
    <2> QED
      BY <1>11, <2>2 DEF TypeOK, CurIsEntry, RecordSuccess, RecordAs
  <1>12. ASSUME NEW r \in Redrivers, RecordFailure(r) PROVE Typed'
    <2>1. cur[r] \in Entries
      BY <1>12 DEF CurIsEntry, RecordFailure
    <2>2. /\ status' \in [Entries -> Statuses \union {"none", "gone"}]
          /\ retries' \in [Entries -> Nat]
          /\ broken' \in [Redrivers -> BOOLEAN]
      <3>1. CASE Write(r, "failed_permanently")
        BY <2>1, <3>1, WriteTypeOK
      <3>2. CASE broken' = [broken EXCEPT ![r] = TRUE] /\ UNCHANGED rowVars
        BY <3>2 DEF TypeOK
      <3> QED
        BY <1>12, <3>1, <3>2 DEF RecordFailure
    <2>3. /\ fails' = [fails EXCEPT ![r] = @ + 1]
          /\ pc' = [pc EXCEPT ![r] = "next"]
          /\ seen' = [seen EXCEPT ![r] = NotLoaded]
          /\ outcome' = [outcome EXCEPT ![r] = "none"]
          /\ cur' = [cur EXCEPT ![r] = 0]
          /\ UNCHANGED <<sent, raced, todo, cached, mode, apiCalls, crashes>>
      BY <1>12 DEF RecordFailure
    <2> QED
      BY <2>2, <2>3 DEF TypeOK, CurIsEntry
  <1>13. ASSUME NEW r \in Redrivers, Finish(r) PROVE Typed'
    BY <1>13 DEF TypeOK, CurIsEntry, Finish, End
  <1>17. ASSUME NEW r \in Redrivers, Abort(r) PROVE Typed'
    BY <1>17 DEF TypeOK, CurIsEntry, Abort, End
  <1>14. ASSUME NEW r \in Redrivers, Crash(r) PROVE Typed'
    BY <1>14 DEF TypeOK, CurIsEntry, Crash, End
  <1>15. CASE UNCHANGED vars
    BY <1>15 DEF TypeOK, CurIsEntry, vars
  <1> QED
    BY <1>1, <1>2, <1>3, <1>4, <1>5, <1>6, <1>7, <1>8, <1>9, <1>10, <1>11, <1>12,
       <1>13, <1>14, <1>15, <1>16, <1>17 DEF Next, Operator, Step

\* The types hold in every reachable state.
THEOREM TypeCorrect == Spec => []Typed
  <1>1. Init => Typed
    BY InitTypeOK DEF Typed, CurIsEntry, Init
  <1> QED
    BY <1>1, StepTyped, PTL DEF Spec

\* Every row and every redriver keeps its types, the bound on the retry count
\* (mark_redrive_attempt) included.
THEOREM TypesHold == Spec => []TypeOK
  <1>1. Typed => TypeOK
    BY DEF Typed
  <1> QED
    BY <1>1, TypeCorrect, PTL

-----------------------------------------------------------------------------
(* The inductive invariant                                                 *)

USE DEF Holds

\* Initially there is no row and no redriver at work.
LEMMA InitIInv == Init => IInv
  BY DLQAssumption DEF Init, IInv, ReadWasRedrivable, OutcomeIsTrue, FreeIsUnsent, HolderIsUnique,
     HeldIsProcessing, SentAtMostOnceUnlessRaced, CompletedWasSent,
     PermanentFailureIsExhausted

\* Rows appear, disappear and are listed without touching a holder.
LEMMA OperatorIInv ==
  ASSUME Typed, IInv, Operator \/ \E r \in Redrivers : StartAuto(r)
  PROVE  IInv'
  <1> USE DEF Typed, IInv
  <1>1. ASSUME NEW e \in Entries, Create(e) PROVE IInv'
    BY <1>1 DEF Create, TypeOK, ReadWasRedrivable, OutcomeIsTrue, FreeIsUnsent, HolderIsUnique,
       HeldIsProcessing, SentAtMostOnceUnlessRaced, CompletedWasSent,
       PermanentFailureIsExhausted
  <1>2. ASSUME NEW e \in Entries, Delete(e) PROVE IInv'
    BY <1>2 DEF Delete, TypeOK, ReadWasRedrivable, OutcomeIsTrue, FreeIsUnsent, HolderIsUnique,
       HeldIsProcessing, SentAtMostOnceUnlessRaced, CompletedWasSent,
       PermanentFailureIsExhausted
  <1>3. ASSUME NEW n \in Entries, NEW f \in SUBSET Statuses, Cleanup(n, f) PROVE IInv'
    BY <1>3 DEF Cleanup, TypeOK, ReadWasRedrivable, OutcomeIsTrue, FreeIsUnsent, HolderIsUnique,
       HeldIsProcessing, SentAtMostOnceUnlessRaced, CompletedWasSent,
       PermanentFailureIsExhausted
  <1>4. ASSUME NEW r \in Redrivers, NEW b, NEW c, NEW f, Begin(r, b, c, f) PROVE IInv'
    BY <1>4 DEF Begin, TypeOK, ReadWasRedrivable, OutcomeIsTrue, FreeIsUnsent, HolderIsUnique,
       HeldIsProcessing, SentAtMostOnceUnlessRaced, CompletedWasSent,
       PermanentFailureIsExhausted
  <1> QED
    BY <1>1, <1>2, <1>3, <1>4 DEF Operator, StartBulk, StartAuto

\* Steps that leave rows and messages alone and hold nothing new.
LEMMA LocalIInv ==
  ASSUME Typed, IInv, NEW r \in Redrivers,
         \/ \E e \in Entries : Skip(r, e) \/ Check(r, e)
         \/ Vanished(r) \/ Finish(r) \/ Abort(r) \/ Crash(r)
  PROVE  IInv'
  <1>1. /\ UNCHANGED <<status, retries, sent, raced>>
        /\ \A q \in Redrivers \ {r} : pc'[q] = pc[q] /\ cur'[q] = cur[q] /\ outcome'[q] = outcome[q]
        /\ pc'[r] \in {"idle", "next", "claim"}
    BY DEF Typed, TypeOK, Skip, Check, Vanished, Finish, Abort, Crash, End
  <1>2. \A q \in Redrivers, e \in Entries : Holds(q, e)' => q # r /\ Holds(q, e)
    BY <1>1
  <1>0. ReadWasRedrivable'
    <2>1. ASSUME NEW e \in Entries, Check(r, e) PROVE ReadWasRedrivable'
      <3>1. e \in cached[r] \/ status[e] \in Redrivable
        BY <2>1 DEF Check, MayRedrive
      <3>2. seen' = [seen EXCEPT ![r].status = IF e \in cached[r] THEN "pending" ELSE status[e]]
        BY <2>1 DEF Check
      <3>3. seen'[r].status \in Redrivable
        BY <3>1, <3>2 DEF Typed, TypeOK
      <3>4. \A q \in Redrivers \ {r} : seen'[q] = seen[q]
        BY <3>2 DEF Typed, TypeOK
      <3> QED
        BY <1>1, <3>3, <3>4 DEF IInv, ReadWasRedrivable
    <2>2. ASSUME \/ \E e \in Entries : Skip(r, e)
                 \/ Vanished(r) \/ Finish(r) \/ Abort(r) \/ Crash(r)
          PROVE  ReadWasRedrivable'
      <3>1. pc'[r] # "claim" /\ \A q \in Redrivers \ {r} : seen'[q] = seen[q]
        BY <2>2 DEF Typed, TypeOK, Skip, Vanished, Finish, Abort, Crash, End
      <3> QED
        BY <1>1, <3>1 DEF IInv, ReadWasRedrivable
    <2> QED
      BY <2>1, <2>2
  <1>3. OutcomeIsTrue'
    <2> SUFFICES ASSUME NEW q \in Redrivers, pc'[q] = "record"
                 PROVE  /\ outcome'[q] \in {"sent", "failed"}
                        /\ outcome'[q] = "sent" => sent'[cur'[q]] >= 1
      BY DEF OutcomeIsTrue
    <2>1. q # r
      BY <1>1
    <2> QED
      BY <1>1, <2>1 DEF IInv, OutcomeIsTrue
  <1>4. FreeIsUnsent' /\ HolderIsUnique'
    BY <1>1, <1>2 DEF IInv, FreeIsUnsent, HolderIsUnique
  <1>5. HeldIsProcessing'
    BY <1>1, <1>2 DEF IInv, HeldIsProcessing
  <1>6. (SentAtMostOnceUnlessRaced /\ CompletedWasSent /\ PermanentFailureIsExhausted)'
    BY <1>1 DEF IInv, SentAtMostOnceUnlessRaced, CompletedWasSent, PermanentFailureIsExhausted
  <1> QED
    BY <1>0, <1>3, <1>4, <1>5, <1>6 DEF IInv

\* A claim takes a free entry, or marks the entry as raced.
LEMMA ClaimIInv ==
  ASSUME Typed, IInv, NEW r \in Redrivers, Claim(r)
  PROVE  IInv'
  <1> DEFINE e == cur[r]
  <1>0. e \in Entries
    BY DEF Typed, CurIsEntry, Claim
  <1>3. ReadWasRedrivable'
    BY DEF Claim, Typed, TypeOK, IInv, ReadWasRedrivable
  <1>1. CASE Present(e)
    <2>1. /\ status' = [status EXCEPT ![e] = "processing"]
          /\ pc' = [pc EXCEPT ![r] = "execute"]
          /\ raced \subseteq raced'
          /\ status[e] \in Redrivable \/ e \in raced'
          /\ UNCHANGED <<retries, sent, cur, outcome>>
      BY <1>1 DEF Claim, IInv, ReadWasRedrivable
    <2>2. \A q \in Redrivers, f \in Entries : Holds(q, f)' <=> Holds(q, f) \/ (q = r /\ f = e)
      BY <1>0, <2>1 DEF Typed, TypeOK, Claim
    <2>3. OutcomeIsTrue'
      BY <1>0, <2>1 DEF Typed, TypeOK, IInv, OutcomeIsTrue
    <2>4. FreeIsUnsent'
      BY <1>0, <2>1, <2>2 DEF Typed, TypeOK, IInv, FreeIsUnsent
    <2>5. HolderIsUnique'
      BY <1>0, <2>1, <2>2 DEF IInv, HolderIsUnique, FreeIsUnsent
    <2>6. HeldIsProcessing'
      <3> SUFFICES ASSUME NEW f \in Entries \ raced', NEW q \in Redrivers, Holds(q, f)'
                   PROVE  /\ status'[f] \in {"processing", "gone"}
                          /\ pc'[q] \in {"execute", "publish"} \/ outcome'[q] = "failed" => sent'[f] = 0
        BY DEF HeldIsProcessing
      <3>1. CASE f = e
        BY <1>0, <2>1, <2>2, <3>1 DEF Typed, TypeOK, IInv, FreeIsUnsent
      <3>2. CASE f # e
        BY <1>0, <2>1, <2>2, <3>2 DEF Typed, TypeOK, IInv, HeldIsProcessing
      <3> QED
        BY <3>1, <3>2
    <2>7. (SentAtMostOnceUnlessRaced /\ CompletedWasSent /\ PermanentFailureIsExhausted)'
      BY <1>0, <2>1 DEF Typed, TypeOK, IInv, SentAtMostOnceUnlessRaced, CompletedWasSent,
         PermanentFailureIsExhausted
    <2> QED
      BY <1>3, <2>3, <2>4, <2>5, <2>6, <2>7 DEF IInv
  <1>2. CASE ~Present(e)
    <2>1. /\ pc' = [pc EXCEPT ![r] = "next"] /\ cur' = [cur EXCEPT ![r] = 0]
          /\ UNCHANGED <<status, retries, sent, raced, outcome>>
      BY <1>2 DEF Claim
    <2> QED
      BY <1>0, <1>3, <2>1 DEF Typed, IInv, TypeOK, OutcomeIsTrue, FreeIsUnsent, HolderIsUnique,
         HeldIsProcessing, SentAtMostOnceUnlessRaced, CompletedWasSent,
         PermanentFailureIsExhausted
  <1> QED
    BY <1>1, <1>2

\* The holder reads the row anew.
LEMMA ReloadIInv ==
  ASSUME Typed, IInv, NEW r \in Redrivers, Reload(r)
  PROVE  IInv'
  <1>1. /\ pc[r] = "execute" /\ pc' = [pc EXCEPT ![r] = "publish"]
        /\ UNCHANGED <<status, retries, sent, raced, cur, outcome>>
        /\ ReadWasRedrivable'
    BY DEF Reload, Typed, TypeOK, IInv, ReadWasRedrivable
  <1> QED
    BY <1>1 DEF Typed, IInv, TypeOK, OutcomeIsTrue, FreeIsUnsent, HolderIsUnique,
       HeldIsProcessing, SentAtMostOnceUnlessRaced, CompletedWasSent,
       PermanentFailureIsExhausted

\* Only the holder publishes, and only once.
LEMMA PublishIInv ==
  ASSUME Typed, IInv, NEW r \in Redrivers, NEW ok \in BOOLEAN, Publish(r, ok)
  PROVE  IInv'
  <1> DEFINE e == cur[r]
  <1>0. e \in Entries /\ pc[r] = "publish" /\ sent[e] \in Nat
    BY DEF Typed, TypeOK, CurIsEntry, Publish
  <1>1. /\ pc' = [pc EXCEPT ![r] = "record"]
        /\ UNCHANGED <<status, retries, raced, cur>>
        /\ ReadWasRedrivable'
    BY DEF Publish, Typed, TypeOK, IInv, ReadWasRedrivable
  <1>2. CASE ok
    <2>1. outcome' = [outcome EXCEPT ![r] = "sent"] /\ sent' = [sent EXCEPT ![e] = sent[e] + 1]
      BY <1>2 DEF Publish
    <2> QED
      BY <1>0, <1>1, <2>1 DEF Typed, IInv, TypeOK, OutcomeIsTrue, FreeIsUnsent, HolderIsUnique,
         HeldIsProcessing, SentAtMostOnceUnlessRaced, CompletedWasSent,
         PermanentFailureIsExhausted
  <1>3. CASE ~ok
    <2>1. outcome' = [outcome EXCEPT ![r] = "failed"] /\ sent' = sent
      BY <1>0, <1>3 DEF Publish, Typed, TypeOK
    <2> QED
      BY <1>0, <1>1, <2>1 DEF Typed, IInv, TypeOK, OutcomeIsTrue, FreeIsUnsent, HolderIsUnique,
         HeldIsProcessing, SentAtMostOnceUnlessRaced, CompletedWasSent,
         PermanentFailureIsExhausted
  <1> QED
    BY <1>2, <1>3

\* What a record step does to the row and to the holder.
Recorded(r, s) ==
    /\ \/ /\ Present(cur[r])
          /\ retries' = [retries EXCEPT ![cur[r]] = seen[r].retries + 1]
          /\ status' = status \/ status' = [status EXCEPT ![cur[r]] = s]
       \/ UNCHANGED <<status, retries>>
    /\ pc' = [pc EXCEPT ![r] = "next"]
    /\ cur' = [cur EXCEPT ![r] = 0]
    /\ outcome' = [outcome EXCEPT ![r] = "none"]
    /\ seen' = [seen EXCEPT ![r] = NotLoaded]
    /\ UNCHANGED <<sent, raced>>

\* The holder that published completes the row.
LEMMA SuccessIInv ==
  ASSUME Typed, IInv, NEW r \in Redrivers, RecordSuccess(r)
  PROVE  IInv'
  <1>0. /\ cur[r] \in Entries /\ pc[r] = "record" /\ outcome[r] = "sent"
        /\ seen[r].retries \in Nat
    BY DEF Typed, TypeOK, CurIsEntry, RecordSuccess
  <1>1. Recorded(r, "completed")
    BY DEF RecordSuccess, RecordAs, Recorded, Write
  <1>2. ReadWasRedrivable' /\ OutcomeIsTrue' /\ FreeIsUnsent' /\ HolderIsUnique' /\ HeldIsProcessing'
    BY <1>0, <1>1 DEF Recorded, Typed, IInv, TypeOK, ReadWasRedrivable, OutcomeIsTrue, FreeIsUnsent,
       HolderIsUnique, HeldIsProcessing
  <1>3. SentAtMostOnceUnlessRaced' /\ CompletedWasSent'
    BY <1>0, <1>1 DEF Recorded, Typed, IInv, TypeOK, OutcomeIsTrue, SentAtMostOnceUnlessRaced,
       CompletedWasSent
  <1>4. PermanentFailureIsExhausted'
    <2> SUFFICES ASSUME NEW e \in Entries \ raced', status'[e] = "failed_permanently"
                 PROVE  retries'[e] >= MaxRetries[e]
      BY DEF PermanentFailureIsExhausted
    <2>1. e \in Entries \ raced /\ status[e] = "failed_permanently"
      BY <1>0, <1>1 DEF Recorded, Typed, TypeOK
    <2>2. e # cur[r]
      BY <1>0, <2>1 DEF IInv, HeldIsProcessing
    <2> QED
      BY <1>0, <1>1, <2>1, <2>2 DEF Recorded, Typed, TypeOK, IInv, PermanentFailureIsExhausted
  <1> QED
    BY <1>2, <1>3, <1>4 DEF IInv

\* The holder that did not publish gives the row up, or changes nothing.
LEMMA FailureIInv ==
  ASSUME Typed, IInv, NEW r \in Redrivers, RecordFailure(r)
  PROVE  IInv'
  <1>0. /\ cur[r] \in Entries /\ pc[r] = "record" /\ outcome[r] = "failed"
        /\ seen[r].retries \in Nat
    BY DEF Typed, TypeOK, CurIsEntry, RecordFailure
  <1>1. Recorded(r, "failed_permanently")
    BY DEF RecordFailure, Recorded, Write
  <1>2. retries' # retries \/ status' # status => seen[r].retries + 1 >= MaxRetries[cur[r]]
    BY DEF RecordFailure
  <1>3. status' # status => retries' = [retries EXCEPT ![cur[r]] = seen[r].retries + 1]
    BY DEF RecordFailure, Write
  <1>4. ReadWasRedrivable' /\ OutcomeIsTrue' /\ FreeIsUnsent' /\ HolderIsUnique' /\ HeldIsProcessing'
    BY <1>0, <1>1 DEF Recorded, Typed, IInv, TypeOK, ReadWasRedrivable, OutcomeIsTrue, FreeIsUnsent,
       HolderIsUnique, HeldIsProcessing
  <1>5. SentAtMostOnceUnlessRaced' /\ CompletedWasSent'
    BY <1>0, <1>1 DEF Recorded, Typed, IInv, TypeOK, SentAtMostOnceUnlessRaced, CompletedWasSent
  <1>6. PermanentFailureIsExhausted'
    <2> SUFFICES ASSUME NEW e \in Entries \ raced', status'[e] = "failed_permanently"
                 PROVE  retries'[e] >= MaxRetries[e]
      BY DEF PermanentFailureIsExhausted
    <2>1. CASE e # cur[r] \/ UNCHANGED <<status, retries>>
      BY <1>0, <1>1, <2>1 DEF Recorded, Typed, TypeOK, IInv, PermanentFailureIsExhausted
    <2>2. CASE e = cur[r] /\ retries' # retries
      <3>1. retries' = [retries EXCEPT ![e] = seen[r].retries + 1]
        BY <1>1, <2>2 DEF Recorded
      <3>2. retries'[e] = seen[r].retries + 1
        BY <1>0, <2>2, <3>1 DEF Typed, TypeOK
      <3> QED
        BY <1>2, <2>2, <3>2
    <2>3. CASE e = cur[r] /\ status' # status
      BY <1>0, <1>2, <1>3, <2>3 DEF Typed, TypeOK
    <2> QED
      BY <2>1, <2>2, <2>3
  <1> QED
    BY <1>4, <1>5, <1>6 DEF IInv

\* The invariant is inductive.
LEMMA NextIInv ==
  ASSUME Typed, IInv, [Next]_vars
  PROVE  IInv'
  <1>1. CASE UNCHANGED vars
    BY <1>1 DEF vars, IInv, ReadWasRedrivable, OutcomeIsTrue, FreeIsUnsent, HolderIsUnique,
       HeldIsProcessing, SentAtMostOnceUnlessRaced, CompletedWasSent,
       PermanentFailureIsExhausted
  <1>2. CASE Operator
    BY <1>2, OperatorIInv
  <1>3. ASSUME NEW r \in Redrivers, StartAuto(r) \/ Step(r) \/ Crash(r) PROVE IInv'
    <2>1. CASE StartAuto(r)
      BY <2>1, OperatorIInv
    <2>2. CASE \/ \E e \in Entries : Skip(r, e) \/ Check(r, e)
               \/ Vanished(r) \/ Finish(r) \/ Abort(r) \/ Crash(r)
      BY <2>2, LocalIInv
    <2>3. CASE Claim(r)
      BY <2>3, ClaimIInv
    <2>4. ASSUME NEW ok \in BOOLEAN, Publish(r, ok) PROVE IInv'
      BY <2>4, PublishIInv
    <2>7. CASE Reload(r)
      BY <2>7, ReloadIInv
    <2>5. CASE RecordSuccess(r)
      BY <2>5, SuccessIInv
    <2>6. CASE RecordFailure(r)
      BY <2>6, FailureIInv
    <2> QED
      BY <1>3, <2>1, <2>2, <2>3, <2>4, <2>5, <2>6, <2>7 DEF Step
  <1> QED
    BY <1>1, <1>2, <1>3 DEF Next

\* In every reachable state: an unraced task is published at most once, a
\* completed one was published, a permanently failed one has no retries left.
THEOREM AtMostOnce ==
  Spec => [](SentAtMostOnceUnlessRaced /\ CompletedWasSent /\ PermanentFailureIsExhausted)
  <1>1. Spec => []IInv
    BY InitIInv, NextIInv, TypeCorrect, PTL DEF Spec
  <1>2. IInv => SentAtMostOnceUnlessRaced /\ CompletedWasSent /\ PermanentFailureIsExhausted
    BY DEF IInv
  <1> QED
    BY <1>1, <1>2, PTL

\* A row marked completed was published to the broker (_redrive_single_task marks
\* it only after send_task).
THEOREM CompletedSent == Spec => []CompletedWasSent
  BY AtMostOnce, PTL

\* A row fails permanently only when its retries are used up.
THEOREM FailuresExhausted == Spec => []PermanentFailureIsExhausted
  BY AtMostOnce, PTL

\* A completed entry that was never raced is not redriven again.
LEMMA CompletedStep ==
  ASSUME Typed, IInv, [Next]_vars, NEW e \in Entries,
         status[e] = "completed", e \notin raced'
  PROVE  status'[e] \in {"completed", "gone"}
  <1> USE DEF Typed, TypeOK
  <1>1. ASSUME NEW f \in Entries, Create(f) \/ Delete(f) PROVE status'[e] \in {"completed", "gone"}
    BY <1>1 DEF Create, Delete
  <1>2. ASSUME NEW n, NEW F, Cleanup(n, F) PROVE status'[e] \in {"completed", "gone"}
    BY <1>2 DEF Cleanup
  <1>3. ASSUME NEW r \in Redrivers, Claim(r) PROVE status'[e] \in {"completed", "gone"}
    <2>1. CASE Present(cur[r])
      BY <1>3, <2>1 DEF Claim, IInv, ReadWasRedrivable
    <2>2. CASE ~Present(cur[r])
      BY <1>3, <2>2 DEF Claim
    <2> QED
      BY <2>1, <2>2
  <1>4. ASSUME NEW r \in Redrivers, RecordSuccess(r) \/ RecordFailure(r)
        PROVE  status'[e] \in {"completed", "gone"}
    <2>1. e \notin raced /\ pc[r] = "record"
      BY <1>4 DEF RecordSuccess, RecordAs, RecordFailure
    <2>2. cur[r] # e
      BY <2>1 DEF IInv, HeldIsProcessing
    <2>3. \A f \in Entries : f # cur[r] => status'[f] = status[f]
      BY <1>4 DEF RecordSuccess, RecordAs, RecordFailure, Write
    <2> QED
      BY <2>2, <2>3
  <1>5. ASSUME NEW r \in Redrivers, StartAuto(r) \/ Crash(r) PROVE status' = status
    BY <1>5 DEF StartAuto, Begin, Crash, End
  <1>6. ASSUME NEW r \in Redrivers, NEW b, NEW f, StartBulk(r, b, f) PROVE status' = status
    BY <1>6 DEF StartBulk, Begin
  <1>7. ASSUME NEW r \in Redrivers,
               \/ \E f \in Entries : Skip(r, f) \/ Check(r, f)
               \/ \E ok \in BOOLEAN : Publish(r, ok)
               \/ Reload(r) \/ Vanished(r) \/ Finish(r) \/ Abort(r)
        PROVE  status' = status
    BY <1>7 DEF Skip, Check, Publish, Reload, Vanished, Finish, Abort, End
  <1>8. CASE UNCHANGED vars
    BY <1>8 DEF vars
  <1> QED
    BY <1>1, <1>2, <1>3, <1>4, <1>5, <1>6, <1>7, <1>8 DEF Next, Operator, Step

\* The action property CompletedIsFinal holds of every step of every behaviour.
THEOREM CompletedStays == Spec => CompletedIsFinal
  <1>1. Spec => []IInv
    BY InitIInv, NextIInv, TypeCorrect, PTL DEF Spec
  <1>2. Typed /\ IInv /\ [Next]_vars =>
          [\A e \in Entries : status[e] = "completed" /\ e \notin raced'
                             => status'[e] \in {"completed", "gone"}]_vars
    BY CompletedStep
  <1> QED
    BY <1>1, <1>2, TypeCorrect, PTL DEF Spec, CompletedIsFinal

-----------------------------------------------------------------------------
(* The refinement of RedriveProtocol                                       *)

\* The phase of an unraced entry that is held: what its one holder has done.
HeldPhases ==
    \A e \in Entries \ raced : \A r \in Redrivers :
       Holds(r, e) =>
          /\ status[e] = "processing" =>
                Phase(e) = IF pc[r] = "execute" THEN "taken"
                           ELSE IF pc[r] = "publish" THEN "loaded"
                           ELSE IF outcome[r] = "sent" THEN "sent" ELSE "refused"
          /\ status[e] = "gone" =>
                Phase(e) = IF pc[r] = "publish" THEN "orphaned" ELSE "gone"

\* There is only one holder to ask.
LEMMA HolderTellsPhase == IInv => HeldPhases
  <1> SUFFICES ASSUME IInv, NEW e \in Entries \ raced, NEW r \in Redrivers, Holds(r, e)
               PROVE  /\ status[e] = "processing" =>
                            Phase(e) = IF pc[r] = "execute" THEN "taken"
                                       ELSE IF pc[r] = "publish" THEN "loaded"
                                       ELSE IF outcome[r] = "sent" THEN "sent" ELSE "refused"
                      /\ status[e] = "gone" =>
                            Phase(e) = IF pc[r] = "publish" THEN "orphaned" ELSE "gone"
    BY DEF HeldPhases
  <1>1. \A q \in AtWorkOn(e) : q = r
    BY DEF IInv, HolderIsUnique, AtWorkOn
  <1>2. r \in AtWorkOn(e)
    BY DEF AtWorkOn
  <1> QED
    BY <1>1, <1>2 DEF Phase

\* The phase of any other unraced entry.
LEMMA UnheldPhase ==
  ASSUME NEW e \in Entries \ raced
  PROVE  /\ status[e] \notin {"processing", "gone"} => Phase(e) = status[e]
         /\ status[e] = "gone" =>
              /\ (\A r \in Redrivers : ~Holds(r, e)) => Phase(e) = "gone"
              /\ Phase(e) \in {"orphaned", "gone"}
         /\ status[e] = "processing" =>
              /\ (\A r \in Redrivers : ~Holds(r, e)) => Phase(e) = "stranded"
              /\ Phase(e) \in {"taken", "loaded", "sent", "refused", "stranded"}
  <1>1. (\A r \in Redrivers : ~Holds(r, e)) => AtWorkOn(e) = {}
    BY DEF AtWorkOn
  <1> QED
    BY <1>1 DEF Phase

\* An entry whose row and holders are left alone keeps its phase.
LEMMA PhaseFrame ==
  ASSUME NEW r \in Redrivers, NEW f \in Entries,
         \A q \in Redrivers \ {r} : pc'[q] = pc[q] /\ cur'[q] = cur[q] /\ outcome'[q] = outcome[q],
         f \in raced' <=> f \in raced, status'[f] = status[f],
         ~Holds(r, f), ~Holds(r, f)'
  PROVE  Phase(f)' = Phase(f)
  <1>1. AtWorkOn(f)' = AtWorkOn(f) /\ r \notin AtWorkOn(f)
    BY DEF AtWorkOn
  <1>2. \A q \in AtWorkOn(f) : pc'[q] = pc[q] /\ outcome'[q] = outcome[q]
    BY <1>1 DEF AtWorkOn
  <1>3. (\E q \in AtWorkOn(f) : pc[q] = "execute")' <=> \E q \in AtWorkOn(f) : pc[q] = "execute"
    BY <1>1, <1>2
  <1>5. (\E q \in AtWorkOn(f) : pc[q] = "publish")' <=> \E q \in AtWorkOn(f) : pc[q] = "publish"
    BY <1>1, <1>2
  <1>4. (\E q \in AtWorkOn(f) : outcome[q] = "sent")' <=> \E q \in AtWorkOn(f) : outcome[q] = "sent"
    BY <1>1, <1>2
  <1> QED
    BY <1>1, <1>3, <1>4, <1>5 DEF Phase

phases == [e \in Entries |-> Phase(e)]

\* A step of the protocol, told by the phases before and after.
LEMMA MoveByPhase ==
  ASSUME NEW e \in Entries, NEW from, NEW to, Phase(e) \in from, Phase(e)' = to,
         \A f \in Entries \ {e} : Phase(f)' = Phase(f)
  PROVE  Protocol!Move(e, from, to)
  <1>1. phases' = [phases EXCEPT ![e] = to]
    BY DEF phases
  <1> QED
    BY <1>1 DEF Protocol!Move, phases

\* A step the protocol does not see.
LEMMA StutterByPhase ==
  ASSUME \A f \in Entries : Phase(f)' = Phase(f), sent' = sent
  PROVE  UNCHANGED Protocol!vars
  <1>1. phases' = phases
    BY DEF phases
  <1> QED
    BY <1>1 DEF Protocol!vars, phases

\* A redriver that holds nothing before and after moves no entry.
LEMMA LocalFollows ==
  ASSUME NEW r \in Redrivers, UNCHANGED <<status, raced, sent>>,
         \A q \in Redrivers \ {r} : pc'[q] = pc[q] /\ cur'[q] = cur[q] /\ outcome'[q] = outcome[q],
         pc[r] \notin Holding, pc'[r] \notin Holding
  PROVE  [Protocol!Next]_(Protocol!vars)
  <1>1. \A f \in Entries : Phase(f)' = Phase(f)
    BY PhaseFrame
  <1> QED
    BY <1>1, StutterByPhase

\* Rows that appear or disappear.
LEMMA OperatorFollows ==
  ASSUME Typed, IInv, IInv', Operator
  PROVE  [Protocol!Next]_(Protocol!vars)
  <1> USE DEF Typed
  <1>1. ASSUME UNCHANGED <<raced, sent, pc, cur, outcome>>, NEW f \in Entries, status'[f] = status[f]
        PROVE  Phase(f)' = Phase(f)
    <2>1. AtWorkOn(f)' = AtWorkOn(f)
      BY <1>1 DEF AtWorkOn
    <2> QED
      BY <1>1, <2>1 DEF Phase
  <1>2. ASSUME NEW e \in Entries, Create(e) PROVE [Protocol!Next]_(Protocol!vars)
    <2>1. /\ UNCHANGED <<raced, sent, pc, cur, outcome>>
          /\ status[e] = "none" /\ status'[e] = "pending"
          /\ \A f \in Entries \ {e} : status'[f] = status[f]
      BY <1>2 DEF Create, TypeOK
    <2>2. \A f \in Entries \ {e} : Phase(f)' = Phase(f)
      BY <1>1, <2>1
    <2>3. CASE e \in raced
      <3>1. Phase(e)' = Phase(e)
        BY <2>1, <2>3 DEF Phase
      <3> QED
        BY <2>1, <2>2, <3>1, StutterByPhase
    <2>4. CASE e \notin raced
      <3>1. Phase(e) = "none" /\ Phase(e)' = "pending"
        BY <2>1, <2>4 DEF Phase
      <3>2. Protocol!Move(e, {"none"}, "pending")
        BY <2>2, <3>1, MoveByPhase
      <3> QED
        BY <2>1, <3>2 DEF Protocol!Next, Protocol!Appear
    <2> QED
      BY <2>3, <2>4
  <1>3. ASSUME NEW old \in SUBSET Entries, \A e \in old : Present(e),
               status' = [e \in Entries |-> IF e \in old THEN "gone" ELSE status[e]],
               UNCHANGED <<raced, sent, pc, cur, outcome>>
        PROVE  [Protocol!Next]_(Protocol!vars)
    <2> DEFINE removed == old \ raced
    <2>1. \A e \in Entries \ removed : Phase(e)' = Phase(e)
      <3> SUFFICES ASSUME NEW e \in Entries \ removed PROVE Phase(e)' = Phase(e)
        OBVIOUS
      <3>1. CASE e \in raced
        BY <1>3, <3>1 DEF Phase
      <3>2. CASE e \notin old
        BY <1>1, <1>3, <3>2
      <3> QED
        BY <3>1, <3>2
    <2>2. ASSUME NEW e \in removed
          PROVE  /\ Phase(e) \notin {"none", "orphaned", "gone", "raced"}
                 /\ Phase(e)' = IF Phase(e) = "loaded" THEN "orphaned" ELSE "gone"
      <3>1. status[e] \in Statuses /\ status'[e] = "gone" /\ e \in Entries \ raced /\ e \in Entries \ raced'
        BY <1>3
      <3>2. Phase(e) \in Statuses \union {"taken", "loaded", "sent", "refused", "stranded"}
        BY <3>1, UnheldPhase
      <3>3. CASE \A q \in Redrivers : ~Holds(q, e)
        <4>1. AtWorkOn(e) = {} /\ AtWorkOn(e)' = {}
          BY <1>3, <3>3 DEF AtWorkOn
        <4>2. Phase(e) # "loaded" /\ Phase(e)' = "gone"
          BY <3>1, <4>1 DEF Phase
        <4> QED
          BY <3>2, <4>2
      <3>4. ASSUME NEW q \in Redrivers, Holds(q, e)
            PROVE  Phase(e)' = IF Phase(e) = "loaded" THEN "orphaned" ELSE "gone"
        <4>1. status[e] = "processing"
          BY <3>1, <3>4 DEF IInv, HeldIsProcessing
        <4>2. Holds(q, e)' /\ pc'[q] = pc[q]
          BY <1>3, <3>4
        <4>3. Phase(e) = "loaded" <=> pc[q] = "publish"
          BY <3>1, <3>4, <4>1, HolderTellsPhase DEF HeldPhases
        <4>4. HeldPhases'
          BY HolderTellsPhase, PTL
        <4>5. Phase(e)' = IF pc'[q] = "publish" THEN "orphaned" ELSE "gone"
          BY <3>1, <4>2, <4>4 DEF HeldPhases
        <4> QED
          BY <4>2, <4>3, <4>5
      <3> QED
        BY <3>2, <3>3, <3>4
    <2>3. \A e \in removed : phases[e] \notin {"none", "orphaned", "gone", "raced"}
      BY <2>2 DEF phases
    <2>4. phases' = [e \in Entries |-> IF e \notin removed THEN phases[e]
                                     ELSE IF phases[e] = "loaded" THEN "orphaned" ELSE "gone"]
      BY <2>1, <2>2 DEF phases
    <2>5. Protocol!Remove(removed)
      BY <1>3, <2>3, <2>4 DEF Protocol!Remove, phases
    <2> QED
      BY <2>5 DEF Protocol!Next
  <1>4. ASSUME NEW e \in Entries, Delete(e) PROVE [Protocol!Next]_(Protocol!vars)
    <2>1. /\ status' = [f \in Entries |-> IF f \in {e} THEN "gone" ELSE status[f]]
          /\ UNCHANGED <<raced, sent, pc, cur, outcome>>
          /\ Present(e)
      BY <1>4 DEF Delete, TypeOK
    <2> QED
      BY <1>3, <2>1
  <1>5. ASSUME NEW n \in Entries, NEW filter \in {{s} : s \in Statuses} \union {Statuses},
               Cleanup(n, filter)
        PROVE  [Protocol!Next]_(Protocol!vars)
    <2> DEFINE old == {e \in Entries : e <= n /\ status[e] \in filter}
    <2>1. \A e \in old : Present(e)
      OBVIOUS
    <2>2. /\ status' = [e \in Entries |-> IF e \in old THEN "gone" ELSE status[e]]
          /\ UNCHANGED <<raced, sent, pc, cur, outcome>>
      BY <1>5 DEF Cleanup
    <2> QED
      BY <1>3, <2>1, <2>2
  <1>6. ASSUME NEW r \in Redrivers, NEW batch \in SUBSET Entries, NEW m \in {"api", "forced"},
               StartBulk(r, batch, m)
        PROVE  [Protocol!Next]_(Protocol!vars)
    BY <1>6, LocalFollows DEF StartBulk, Begin, TypeOK
  <1> QED
    BY <1>2, <1>4, <1>5, <1>6 DEF Operator

\* A claim takes a waiting entry, or races for one that is not.
LEMMA ClaimFollows ==
  ASSUME Typed, Typed', IInv, IInv', NEW r \in Redrivers, Claim(r)
  PROVE  [Protocol!Next]_(Protocol!vars)
  <1>0. cur[r] \in Entries
    BY DEF Claim, Typed, CurIsEntry
  <1> PICK e \in Entries : e = cur[r]
    BY <1>0
  <1>1. /\ e \in Entries /\ pc[r] = "claim" /\ UNCHANGED <<sent, outcome>>
        /\ \A q \in Redrivers \ {r} : pc'[q] = pc[q] /\ cur'[q] = cur[q]
        /\ seen[r].status \in Redrivable
    BY DEF Claim, Typed, TypeOK, CurIsEntry, IInv, ReadWasRedrivable
  <1>2. CASE ~Present(e)
    <2>1. UNCHANGED <<status, raced, sent>> /\ pc'[r] = "next"
      BY <1>2 DEF Claim, Typed, TypeOK
    <2> QED
      BY <1>1, <2>1, LocalFollows
  <1>3. CASE Present(e)
    <2>1. /\ status' = [status EXCEPT ![e] = "processing"]
          /\ raced' = IF status[e] \notin Redrivable THEN raced \union {e} ELSE raced
          /\ pc'[r] = "execute" /\ cur' = cur
      BY <1>1, <1>3 DEF Claim, Typed, TypeOK
    <2>2. \A f \in Entries \ {e} : Phase(f)' = Phase(f)
      <3> SUFFICES ASSUME NEW f \in Entries \ {e} PROVE Phase(f)' = Phase(f)
        OBVIOUS
      <3>1. (f \in raced' <=> f \in raced) /\ status'[f] = status[f]
        BY <2>1 DEF Typed, TypeOK
      <3>2. ~Holds(r, f) /\ ~Holds(r, f)'
        BY <1>1, <2>1
      <3> QED
        BY <1>1, <2>1, <3>1, <3>2, PhaseFrame
    <2>3. CASE e \in raced
      <3>1. Phase(e)' = Phase(e)
        BY <2>1, <2>3 DEF Phase
      <3> QED
        BY <1>1, <2>2, <3>1, StutterByPhase
    <2>4. CASE e \notin raced /\ status[e] \in Redrivable
      <3>1. Phase(e) \in Protocol!Waiting
        BY <1>1, <2>4, UnheldPhase DEF Protocol!Waiting
      <3>2. /\ e \in Entries \ raced' /\ Holds(r, e)' /\ status'[e] = "processing"
            /\ pc'[r] = "execute"
        BY <1>1, <2>1, <2>4 DEF Typed, TypeOK
      <3>3. HeldPhases'
        BY HolderTellsPhase, PTL
      <3>4. Phase(e)' = "taken"
        BY <3>2, <3>3 DEF HeldPhases
      <3>5. Protocol!Move(e, Protocol!Waiting, "taken")
        BY <1>1, <2>2, <3>1, <3>4, MoveByPhase
      <3> QED
        BY <1>1, <3>5 DEF Protocol!Next, Protocol!Take
    <2>5. CASE e \notin raced /\ status[e] \notin Redrivable
      <3>1. Phase(e) \in Protocol!AtWork \union {"stranded", "completed"}
        <4>1. status[e] \in {"processing", "completed"}
          BY <1>3, <2>5
        <4> QED
          BY <1>1, <2>5, <4>1, UnheldPhase DEF Protocol!AtWork
      <3>2. Phase(e)' = "raced"
        BY <2>1, <2>5 DEF Phase
      <3>3. Protocol!Move(e, Protocol!AtWork \union {"stranded", "completed"}, "raced")
        BY <1>1, <2>2, <3>1, <3>2, MoveByPhase
      <3> QED
        BY <1>1, <3>3 DEF Protocol!Next, Protocol!Race
    <2> QED
      BY <2>3, <2>4, <2>5
  <1> QED
    BY <1>2, <1>3

\* The holder of a taken entry loads it.
LEMMA ReloadFollows ==
  ASSUME Typed, Typed', IInv, IInv', NEW r \in Redrivers, Reload(r)
  PROVE  [Protocol!Next]_(Protocol!vars)
  <1>0. cur[r] \in Entries
    BY DEF Reload, Typed, CurIsEntry
  <1> PICK e \in Entries : e = cur[r]
    BY <1>0
  <1>1. /\ e \in Entries /\ pc[r] = "execute" /\ Present(e)
        /\ UNCHANGED <<status, sent, raced, cur, outcome>> /\ pc'[r] = "publish"
        /\ \A q \in Redrivers \ {r} : pc'[q] = pc[q]
    BY DEF Reload, Typed, TypeOK
  <1>2. \A f \in Entries \ {e} : Phase(f)' = Phase(f)
    BY <1>1, PhaseFrame
  <1>3. CASE e \in raced
    <2>1. Phase(e)' = Phase(e)
      BY <1>1, <1>3 DEF Phase
    <2> QED
      BY <1>1, <1>2, <2>1, StutterByPhase
  <1>4. CASE e \notin raced
    <2>1. /\ e \in Entries \ raced /\ Holds(r, e) /\ e \in Entries \ raced' /\ Holds(r, e)'
      BY <1>1, <1>4
    <2>2. status[e] = "processing" /\ status'[e] = "processing"
      BY <1>1, <2>1 DEF IInv, HeldIsProcessing
    <2>3. HeldPhases /\ HeldPhases'
      BY HolderTellsPhase, PTL
    <2>4. Phase(e) = "taken" /\ Phase(e)' = "loaded"
      BY <1>1, <2>1, <2>2, <2>3 DEF HeldPhases
    <2>5. Protocol!Move(e, {"taken"}, "loaded")
      BY <1>1, <1>2, <2>4, MoveByPhase
    <2> QED
      BY <1>1, <2>5 DEF Protocol!Next, Protocol!Load
  <1> QED
    BY <1>3, <1>4

\* The holder of a loaded entry publishes it or fails to, also when it is deleted by now.
LEMMA PublishFollows ==
  ASSUME Typed, Typed', IInv, IInv', NEW r \in Redrivers, NEW ok \in BOOLEAN, Publish(r, ok)
  PROVE  [Protocol!Next]_(Protocol!vars)
  <1>0. cur[r] \in Entries
    BY DEF Publish, Typed, CurIsEntry
  <1> PICK e \in Entries : e = cur[r]
    BY <1>0
  <1>1. /\ e \in Entries /\ pc[r] = "publish" /\ UNCHANGED <<status, raced, cur>>
        /\ pc'[r] = "record" /\ outcome'[r] = IF ok THEN "sent" ELSE "failed"
        /\ \A q \in Redrivers \ {r} : pc'[q] = pc[q] /\ outcome'[q] = outcome[q]
    BY DEF Publish, Typed, TypeOK, CurIsEntry
  <1>2. sent' = IF ok THEN [sent EXCEPT ![e] = @ + 1] ELSE sent
    BY DEF Publish, Typed, TypeOK
  <1>3. \A f \in Entries \ {e} : Phase(f)' = Phase(f)
    BY <1>1, PhaseFrame
  <1>4. CASE e \in raced
    <2>1. Phase(e) = "raced" /\ \A f \in Entries : Phase(f)' = Phase(f)
      BY <1>1, <1>3, <1>4 DEF Phase
    <2>2. CASE ok
      <3>1. phases' = phases /\ phases[e] = "raced"
        BY <1>1, <2>1 DEF phases
      <3>2. Protocol!SendRaced(e)
        BY <1>2, <2>2, <3>1 DEF Protocol!SendRaced, phases
      <3> QED
        BY <1>1, <3>2 DEF Protocol!Next
    <2>3. CASE ~ok
      BY <1>2, <2>1, <2>3, StutterByPhase
    <2> QED
      BY <2>2, <2>3
  <1>5. CASE e \notin raced
    <2>1. /\ e \in Entries \ raced /\ Holds(r, e) /\ e \in Entries \ raced' /\ Holds(r, e)'
      BY <1>1, <1>5
    <2>2. status[e] \in {"processing", "gone"} /\ status'[e] = status[e]
      BY <1>1, <2>1 DEF IInv, HeldIsProcessing
    <2>3. HeldPhases /\ HeldPhases'
      BY HolderTellsPhase, PTL
    <2>4. CASE status[e] = "processing"
      <3>1. Phase(e) = "loaded" /\ Phase(e)' = IF ok THEN "sent" ELSE "refused"
        BY <1>1, <2>1, <2>2, <2>3, <2>4 DEF HeldPhases
      <3>2. CASE ok
        <4>1. Protocol!Move(e, {"loaded"}, "sent")
          BY <1>1, <1>3, <3>1, <3>2, MoveByPhase
        <4>2. Protocol!Send(e)
          BY <1>2, <3>2, <4>1 DEF Protocol!Send
        <4> QED
          BY <1>1, <4>2 DEF Protocol!Next
      <3>3. CASE ~ok
        <4>1. Protocol!Move(e, {"loaded"}, "refused")
          BY <1>1, <1>3, <3>1, <3>3, MoveByPhase
        <4>2. Protocol!Refuse(e)
          BY <1>2, <3>3, <4>1 DEF Protocol!Refuse
        <4> QED
          BY <1>1, <4>2 DEF Protocol!Next
      <3> QED
        BY <3>2, <3>3
    <2>5. CASE status[e] = "gone"
      <3>1. Phase(e) = "orphaned" /\ Phase(e)' = "gone"
        BY <1>1, <2>1, <2>2, <2>3, <2>5 DEF HeldPhases
      <3>2. Protocol!Move(e, {"orphaned"}, "gone")
        BY <1>1, <1>3, <3>1, MoveByPhase
      <3>3. Protocol!SendOrphan(e) \/ Protocol!DropOrphan(e)
        BY <1>2, <3>2 DEF Protocol!SendOrphan, Protocol!DropOrphan
      <3> QED
        BY <1>1, <3>3 DEF Protocol!Next
    <2> QED
      BY <2>2, <2>4, <2>5
  <1> QED
    BY <1>4, <1>5

\* A holder that lets go without a record leaves the entry stranded.
LEMMA LettingGoFollows ==
  ASSUME Typed, IInv, NEW r \in Redrivers, UNCHANGED <<status, raced, sent>>,
         \A q \in Redrivers \ {r} : pc'[q] = pc[q] /\ cur'[q] = cur[q] /\ outcome'[q] = outcome[q],
         pc'[r] \notin Holding
  PROVE  [Protocol!Next]_(Protocol!vars)
  <1>1. CASE pc[r] \notin Holding
    BY <1>1, LocalFollows
  <1>2. CASE pc[r] \in Holding
    <2>0. cur[r] \in Entries
      BY <1>2 DEF Typed, CurIsEntry
    <2> PICK e \in Entries : e = cur[r]
      BY <2>0
    <2>1. e \in Entries /\ Holds(r, e)
      BY <1>2
    <2>2. \A f \in Entries \ {e} : Phase(f)' = Phase(f)
      BY PhaseFrame
    <2>3. CASE e \in raced
      <3>1. Phase(e)' = Phase(e)
        BY <2>3 DEF Phase
      <3> QED
        BY <2>2, <3>1, StutterByPhase
    <2>5. CASE e \notin raced /\ status[e] = "gone"
      <3>1. \A q \in Redrivers : ~Holds(q, e)'
        BY <2>1, <2>5 DEF IInv, HolderIsUnique
      <3>2. AtWorkOn(e)' = {}
        BY <3>1 DEF AtWorkOn
      <3>3. Phase(e) \in {"orphaned", "gone"} /\ Phase(e)' = "gone"
        BY <2>5, <3>2, UnheldPhase DEF Phase
      <3>4. CASE Phase(e) = "gone"
        <4>1. \A f \in Entries : Phase(f)' = Phase(f)
          BY <2>2, <3>3, <3>4
        <4> QED
          BY <4>1, StutterByPhase
      <3>5. CASE Phase(e) = "orphaned"
        <4>1. Protocol!Move(e, {"orphaned"}, "gone")
          BY <2>1, <2>2, <3>3, <3>5, MoveByPhase
        <4> QED
          BY <2>1, <4>1 DEF Protocol!Next, Protocol!DropOrphan
      <3> QED
        BY <3>3, <3>4, <3>5
    <2>6. e \in raced \/ status[e] \in {"processing", "gone"}
      BY <2>1 DEF IInv, HeldIsProcessing
    <2>4. CASE e \notin raced /\ status[e] = "processing"
      <3>1. Phase(e) \in Protocol!AtWork
        <4>1. HeldPhases
          BY HolderTellsPhase
        <4> QED
          BY <2>1, <2>4, <4>1 DEF HeldPhases, Protocol!AtWork
      <3>2. \A q \in Redrivers : ~Holds(q, e)'
        BY <2>1, <2>4 DEF IInv, HolderIsUnique
      <3>3. AtWorkOn(e)' = {}
        BY <3>2 DEF AtWorkOn
      <3>4. Phase(e)' = "stranded"
        BY <2>4, <3>3 DEF Phase
      <3>5. Protocol!Move(e, Protocol!AtWork, "stranded")
        BY <2>1, <2>2, <3>1, <3>4, MoveByPhase
      <3> QED
        BY <2>1, <3>5 DEF Protocol!Next, Protocol!Strand
    <2> QED
      BY <2>3, <2>4, <2>5, <2>6
  <1> QED
    BY <1>1, <1>2

\* A holder that writes what came of the redrive settles the entry as it was.
LEMMA RecordFollows ==
  ASSUME Typed, IInv, NEW r \in Redrivers, pc[r] = "record", NEW s,
         \/ outcome[r] = "sent" /\ s = "completed"
         \/ outcome[r] = "failed" /\ s = "failed_permanently",
         Recorded(r, s)
  PROVE  [Protocol!Next]_(Protocol!vars)
  <1>0. cur[r] \in Entries
    BY DEF Typed, CurIsEntry
  <1> PICK e \in Entries : e = cur[r]
    BY <1>0
  <1>1. /\ e \in Entries /\ Holds(r, e) /\ UNCHANGED <<sent, raced>>
        /\ \A q \in Redrivers \ {r} : pc'[q] = pc[q] /\ cur'[q] = cur[q] /\ outcome'[q] = outcome[q]
        /\ pc'[r] = "next"
    BY DEF Typed, TypeOK, CurIsEntry, Recorded
  <1>2. CASE status' = status
    BY <1>1, <1>2, LettingGoFollows
  <1>3. CASE status' # status
    <2>1. Present(e) /\ status' = [status EXCEPT ![e] = s]
      BY <1>3 DEF Recorded
    <2>2. \A f \in Entries \ {e} : Phase(f)' = Phase(f)
      <3> SUFFICES ASSUME NEW f \in Entries \ {e} PROVE Phase(f)' = Phase(f)
        OBVIOUS
      <3>1. status'[f] = status[f] /\ ~Holds(r, f) /\ ~Holds(r, f)'
        BY <1>1, <2>1 DEF Typed, TypeOK
      <3> QED
        BY <1>1, <3>1, PhaseFrame
    <2>3. CASE e \in raced
      <3>1. Phase(e)' = Phase(e)
        BY <1>1, <2>3 DEF Phase
      <3> QED
        BY <1>1, <2>2, <3>1, StutterByPhase
    <2>4. CASE e \notin raced
      <3>1. status[e] = "processing"
        BY <1>1, <2>1, <2>4 DEF IInv, HeldIsProcessing
      <3>2. HeldPhases
        BY HolderTellsPhase
      <3>3. Phase(e) = IF outcome[r] = "sent" THEN "sent" ELSE "refused"
        BY <1>1, <2>4, <3>1, <3>2 DEF HeldPhases
      <3>4. Phase(e)' = s
        BY <1>1, <2>1, <2>4 DEF Phase, Typed, TypeOK
      <3>5. CASE s = "completed"
        <4>1. Protocol!Move(e, {"sent"}, "completed")
          BY <1>1, <2>2, <3>3, <3>4, <3>5, MoveByPhase
        <4> QED
          BY <1>1, <4>1 DEF Protocol!Next, Protocol!Complete
      <3>6. CASE s = "failed_permanently"
        <4>1. Protocol!Move(e, {"refused"}, "failed_permanently")
          BY <1>1, <2>2, <3>3, <3>4, <3>6, MoveByPhase
        <4> QED
          BY <1>1, <4>1 DEF Protocol!Next, Protocol!GiveUp
      <3> QED
        BY <3>5, <3>6
    <2> QED
      BY <2>3, <2>4
  <1> QED
    BY <1>2, <1>3

\* Every step of the redrive service is one of the protocol, or none.
LEMMA StepFollows ==
  ASSUME Typed, Typed', IInv, IInv', [Next]_vars
  PROVE  [Protocol!Next]_(Protocol!vars)
  <1>1. CASE UNCHANGED vars
    <2>1. \A f \in Entries : AtWorkOn(f)' = AtWorkOn(f)
      BY <1>1 DEF vars, AtWorkOn
    <2>2. \A f \in Entries : Phase(f)' = Phase(f)
      BY <1>1, <2>1 DEF vars, Phase
    <2> QED
      BY <1>1, <2>2, StutterByPhase DEF vars
  <1>2. CASE Operator
    BY <1>2, OperatorFollows
  <1>3. ASSUME NEW r \in Redrivers, StartAuto(r) PROVE [Protocol!Next]_(Protocol!vars)
    BY <1>3, LocalFollows DEF StartAuto, Begin, Typed, TypeOK
  <1>4. ASSUME NEW r \in Redrivers,
               \/ \E e \in Entries : Skip(r, e) \/ Check(r, e)
               \/ Vanished(r) \/ Finish(r) \/ Abort(r) \/ Crash(r)
        PROVE  [Protocol!Next]_(Protocol!vars)
    <2>1. /\ UNCHANGED <<status, raced, sent>>
          /\ \A q \in Redrivers \ {r} :
                pc'[q] = pc[q] /\ cur'[q] = cur[q] /\ outcome'[q] = outcome[q]
          /\ pc'[r] \notin Holding
      BY <1>4 DEF Skip, Check, Vanished, Finish, Abort, Crash, End, Typed, TypeOK
    <2> QED
      BY <2>1, LettingGoFollows
  <1>5. ASSUME NEW r \in Redrivers, RecordSuccess(r) PROVE [Protocol!Next]_(Protocol!vars)
    <2>1. pc[r] = "record" /\ outcome[r] = "sent" /\ Recorded(r, "completed")
      BY <1>5 DEF RecordSuccess, RecordAs, Recorded, Write
    <2> QED
      BY <2>1, RecordFollows
  <1>6. ASSUME NEW r \in Redrivers, RecordFailure(r) PROVE [Protocol!Next]_(Protocol!vars)
    <2>1. pc[r] = "record" /\ outcome[r] = "failed" /\ Recorded(r, "failed_permanently")
      BY <1>6 DEF RecordFailure, Recorded, Write
    <2> QED
      BY <2>1, RecordFollows
  <1> QED
    BY <1>1, <1>2, <1>3, <1>4, <1>5, <1>6, ClaimFollows, ReloadFollows, PublishFollows DEF Next, Step

\* For any number of entries and redrivers: an unraced entry goes through one
\* redrive at a time, is published once at most, never when it is settled or stranded and
\* for a deleted row only by a redriver that had reloaded it, and is settled as what
\* happened to it.
THEOREM Follows == Spec => FollowsProtocol
  <1>1. Spec => []IInv
    BY InitIInv, NextIInv, TypeCorrect, PTL DEF Spec
  <1>2. Init => Protocol!Init
    BY DEF Init, Protocol!Init, Phase, AtWorkOn
  <1>3. Typed /\ Typed' /\ IInv /\ IInv' /\ [Next]_vars => [Protocol!Next]_(Protocol!vars)
    BY StepFollows
  <1> QED
    BY <1>1, <1>2, <1>3, TypeCorrect, PTL DEF Spec, FollowsProtocol, Protocol!Spec
=============================================================================
