------------------------ MODULE StagedExports_proofs ------------------------
(***************************************************************************)
(* Proofs about staged exports for any number of exports, requests and     *)
(* payloads. The argument: data columns only ever grow from NoData to data *)
(* that was approved (or delivered), so a write that is left out because   *)
(* it equals what the session has loaded leaves such data as well.         *)
(***************************************************************************)
EXTENDS StagedExports, TLAPS

\* What holds of a row.
RowOK(e) ==
    /\ row[e].status \in {"none", "prepared"} => row[e].approved = NoData /\ row[e].posted = NoData
    /\ row[e].status = "none" => row[e].prepared = NoData
    /\ row[e].status # "none" => row[e].prepared \in Data
    /\ row[e].status = "approved" => row[e].approved # NoData
    /\ row[e].status \in {"posted", "rolled_back"} => row[e].posted # NoData
    /\ row[e].status = "rolled_back" => e \in reversed
    /\ row[e].approved # NoData => <<e, row[e].approved>> \in approvals
    /\ row[e].posted # NoData => <<e, row[e].posted>> \in delivered

\* What a request has loaded is what the row was: its data columns have not been cleared.
SeenOK(r) ==
    /\ on[r] \in Exports
    /\ op[r] \in {"approve", "reject", "post", "rollback"}
    /\ seen[r].status = Required[op[r]]
    /\ seen[r].prepared = row[on[r]].prepared
    /\ seen[r].prepared \in Data
    /\ seen[r].approved # NoData => row[on[r]].approved # NoData
    /\ seen[r].posted # NoData => row[on[r]].posted # NoData
    /\ op[r] = "approve" => seen[r].approved = NoData
    /\ op[r] = "reject" => payload[r] = row[on[r]].prepared
    /\ op[r] = "post" => <<on[r], payload[r]>> \in approvals
    /\ op[r] = "rollback" => <<on[r], payload[r]>> \in delivered /\ seen[r].posted # NoData

RequestOK(r) ==
    /\ pc[r] # "idle" => payload[r] \in Data
    /\ pc[r] = "call" => op[r] \in {"post", "rollback"}
    /\ pc[r] \in {"call", "commit"} =>
         \/ op[r] = "stage" /\ seen[r] = NoRow
         \/ SeenOK(r)
    /\ pc[r] = "commit" /\ op[r] = "post" => <<on[r], payload[r]>> \in delivered
    /\ pc[r] = "commit" /\ op[r] = "rollback" => on[r] \in reversed
    /\ pc[r] = "audit" => /\ on[r] \in Exports
                          /\ row[on[r]].prepared # NoData
                          /\ EntryIsTrue(on[r], Action[op[r]], payload[r])

\* An entry is about a row that exists.
Entered == \A x \in trail : row[x[1]].prepared # NoData

IInv ==
    /\ TypeOK
    /\ \A e \in Exports : RowOK(e)
    /\ \A r \in Requests : RequestOK(r)
    /\ TrailIsTrue /\ Entered

\* Nothing a request relies on is taken away from it by another one.
Grows ==
    /\ approvals \subseteq approvals' /\ rejections \subseteq rejections'
    /\ delivered \subseteq delivered' /\ reversed \subseteq reversed'
    /\ \A e \in Exports :
          /\ row[e].prepared # NoData => row'[e].prepared = row[e].prepared
          /\ row[e].approved # NoData => row'[e].approved # NoData
          /\ row[e].posted # NoData => row'[e].posted # NoData

\* The columns of a row are of their types.
LEMMA Columns ==
  ASSUME NEW x \in Row
  PROVE  x.status \in Statuses /\ x.prepared \in Value /\ x.approved \in Value /\ x.posted \in Value
  BY DEF Row

\* A request that does not move keeps what it relies on.
LEMMA RequestKept ==
  ASSUME TypeOK, Grows, NEW r \in Requests, RequestOK(r),
         pc'[r] = pc[r], op'[r] = op[r], on'[r] = on[r], seen'[r] = seen[r],
         payload'[r] = payload[r]
  PROVE  RequestOK(r)'
  <1>1. ASSUME NEW e \in Exports, NEW a, NEW d, row[e].prepared # NoData, EntryIsTrue(e, a, d)
        PROVE  EntryIsTrue(e, a, d)' /\ row'[e].prepared # NoData
    BY <1>1 DEF EntryIsTrue, Grows
  <1>2. ASSUME SeenOK(r) PROVE SeenOK(r)'
    <2>1. on[r] \in Exports /\ row[on[r]].prepared \in Data
      BY <1>2 DEF SeenOK
    <2>2. row[on[r]].prepared # NoData
      BY <2>1, StagingAssumption
    <2> QED
      BY <1>2, <2>1, <2>2 DEF SeenOK, Grows
  <1>3. pc[r] = "audit" => /\ on[r] \in Exports
                           /\ row'[on[r]].prepared # NoData
                           /\ EntryIsTrue(on[r], Action[op[r]], payload[r])'
    BY <1>1 DEF RequestOK
  <1> QED
    BY <1>2, <1>3 DEF RequestOK, Grows, EntryIsTrue

\* The trail stays true when only rows, approvals and deliveries are added to.
LEMMA TrailKept ==
  ASSUME TypeOK, Grows, TrailIsTrue, Entered
  PROVE  \A x \in trail : EntryIsTrue(x[1], x[2], x[3])' /\ row'[x[1]].prepared # NoData
  <1> SUFFICES ASSUME NEW x \in trail
               PROVE  EntryIsTrue(x[1], x[2], x[3])' /\ row'[x[1]].prepared # NoData
    OBVIOUS
  <1>1. x[1] \in Exports /\ EntryIsTrue(x[1], x[2], x[3]) /\ row[x[1]].prepared # NoData
    BY DEF TypeOK, Entry, TrailIsTrue, Entered
  <1> QED
    BY <1>1 DEF EntryIsTrue, Grows

\* A row that does not change stays right.
LEMMA RowKept ==
  ASSUME TypeOK, Grows, NEW e \in Exports, RowOK(e), row'[e] = row[e]
  PROVE  RowOK(e)'
  BY DEF RowOK, Grows

\* What the tables of operations say.
LEMMA Tables ==
  /\ \A o \in Ops : NewStatus[o] \in Statuses /\ Action[o] \in Actions
  /\ Required["approve"] = "prepared" /\ Required["reject"] = "prepared"
  /\ Required["post"] = "approved" /\ Required["rollback"] = "posted"
  /\ NewStatus["stage"] = "prepared" /\ NewStatus["approve"] = "approved"
  /\ NewStatus["reject"] = "rejected" /\ NewStatus["post"] = "posted"
  /\ NewStatus["rollback"] = "rolled_back"
  /\ Action["stage"] = "created" /\ Action["approve"] = "approved"
  /\ Action["reject"] = "rejected" /\ Action["post"] = "posted"
  /\ Action["rollback"] = "rolled_back"
  BY DEF NewStatus, Action, Required, Ops, Statuses, Actions

\* The initial state.
LEMMA InitHolds == Init => IInv
  <1> SUFFICES ASSUME Init PROVE IInv
    OBVIOUS
  <1>1. NoRow \in Row
    BY DEF NoRow, Row, Value, Statuses
  <1>2. TypeOK
    BY <1>1 DEF Init, TypeOK, Ops, Value
  <1>3. ASSUME NEW e \in Exports PROVE RowOK(e)
    BY DEF Init, RowOK, NoRow
  <1>4. ASSUME NEW r \in Requests PROVE RequestOK(r)
    BY DEF Init, RequestOK
  <1> QED
    BY <1>2, <1>3, <1>4 DEF IInv, Init, TrailIsTrue, Entered

\* A step that touches neither rows nor histories, and only one request.
LEMMA OneRequest ==
  ASSUME IInv, NEW r \in Requests, TypeOK', RequestOK(r)',
         UNCHANGED <<row, trail, approvals, rejections, delivered, reversed>>,
         \A q \in Requests : q # r => /\ pc'[q] = pc[q] /\ op'[q] = op[q] /\ on'[q] = on[q]
                                      /\ seen'[q] = seen[q] /\ payload'[q] = payload[q]
  PROVE  IInv'
  <1>1. Grows
    BY DEF Grows
  <1>2. \A q \in Requests : RequestOK(q)'
    BY <1>1, RequestKept DEF IInv
  <1>3. \A e \in Exports : RowOK(e)'
    BY <1>1, RowKept DEF IInv
  <1>4. TrailIsTrue' /\ Entered'
    BY DEF IInv, TrailIsTrue, Entered, EntryIsTrue
  <1> QED
    BY <1>2, <1>3, <1>4 DEF IInv

\* A request begins.
LEMMA ProceedStep ==
  ASSUME IInv, NEW r \in Requests, NEW o \in Ops, NEW e \in Exports \union {NoExport},
         NEW s \in Row, NEW d \in Value, NEW step \in {"call", "commit"},
         Proceed(r, o, e, s, d, step), RequestOK(r)'
  PROVE  IInv'
  <1>1. TypeOK'
    BY DEF IInv, TypeOK, Proceed
  <1> QED
    BY <1>1, OneRequest DEF IInv, TypeOK, Proceed

LEMMA StageCheckStep ==
  ASSUME IInv, NEW r \in Requests, NEW d \in Data, StageCheck(r, d)
  PROVE  IInv'
  <1>1. NoRow \in Row /\ d \in Value /\ "stage" \in Ops
    BY DEF NoRow, Row, Value, Statuses, Ops
  <1>2. Proceed(r, "stage", NoExport, NoRow, d, "commit")
    BY DEF StageCheck
  <1>3. RequestOK(r)'
    BY <1>2 DEF IInv, TypeOK, Proceed, RequestOK
  <1> QED
    BY <1>1, <1>2, <1>3, ProceedStep

\* A request begins with an existing row.
LEMMA LoadStep ==
  ASSUME IInv, NEW r \in Requests, NEW e \in Exports, NEW d \in Data,
         NEW o \in {"approve", "reject", "post", "rollback"},
         NEW step \in {"call", "commit"}, Load(r, o, e, d, step),
         step = "call" <=> o \in {"post", "rollback"},
         o = "reject" => d = row[e].prepared,
         o = "post" => <<e, d>> \in approvals,
         o = "rollback" => <<e, d>> \in delivered
  PROVE  IInv'
  <1>1. /\ Proceed(r, o, e, row[e], d, step)
        /\ row[e].status = Required[o]
        /\ row[e] \in Row /\ RowOK(e)
    BY DEF Load, IInv, TypeOK
  <1>2. row[e].status \in {"prepared", "approved", "posted"} /\ row[e].prepared \in Data
    BY <1>1, Tables DEF RowOK
  <1>3. /\ pc'[r] = step /\ op'[r] = o /\ on'[r] = e /\ seen'[r] = row[e] /\ payload'[r] = d
        /\ row' = row /\ approvals' = approvals /\ delivered' = delivered
    BY <1>1 DEF Proceed, IInv, TypeOK
  <1>4. SeenOK(r)'
    <2>1. o = "approve" => row[e].approved = NoData
      BY <1>1, Tables DEF RowOK
    <2>2. o = "rollback" => row[e].posted # NoData
      BY <1>1, Tables DEF RowOK
    <2> QED
      BY <1>1, <1>2, <1>3, <2>1, <2>2 DEF SeenOK
  <1>5. RequestOK(r)'
    BY <1>3, <1>4 DEF RequestOK
  <1>6. d \in Value /\ o \in Ops
    BY DEF Value, Ops
  <1> QED
    BY <1>1, <1>5, <1>6, ProceedStep

LEMMA CheckStep ==
  ASSUME IInv, NEW r \in Requests, NEW e \in Exports,
         \/ \E d \in Data : ApproveCheck(r, e, d)
         \/ RejectCheck(r, e) \/ PostCheck(r, e) \/ RollbackCheck(r, e)
  PROVE  IInv'
  <1>1. RowOK(e) /\ row[e] \in Row
    BY DEF IInv, TypeOK
  <1>2. row[e].approved \in Value /\ row[e].posted \in Value
    BY <1>1, Columns
  <1>3. ASSUME NEW d \in Data, ApproveCheck(r, e, d) PROVE IInv'
    BY <1>3, LoadStep DEF ApproveCheck
  <1>4. CASE RejectCheck(r, e)
    <2>1. row[e].prepared \in Data
      BY <1>1, <1>4, Tables DEF RejectCheck, Load, RowOK
    <2> QED
      BY <1>4, <2>1, LoadStep DEF RejectCheck
  <1>5. CASE PostCheck(r, e)
    <2>1. row[e].status = "approved"
      BY <1>5, Tables DEF PostCheck, Load
    <2>2. row[e].approved \in Data /\ <<e, row[e].approved>> \in approvals
      BY <1>1, <1>2, <2>1 DEF RowOK, Value
    <2>3. Load(r, "post", e, row[e].approved, "call")
      BY <1>5, <2>2, StagingAssumption DEF PostCheck
    <2> QED
      BY <2>2, <2>3, LoadStep
  <1>6. CASE RollbackCheck(r, e)
    <2>1. row[e].status = "posted"
      BY <1>6, Tables DEF RollbackCheck, Load
    <2>2. row[e].posted \in Data /\ <<e, row[e].posted>> \in delivered
      BY <1>1, <1>2, <2>1 DEF RowOK, Value
    <2> QED
      BY <1>6, <2>2, LoadStep DEF RollbackCheck
  <1> QED
    BY <1>3, <1>4, <1>5, <1>6

\* The calls of the destination system.
LEMMA DeliverStep ==
  ASSUME IInv, NEW r \in Requests, Deliver(r)
  PROVE  IInv' /\ <<on[r], payload[r]>> \in approvals
  <1>1. RequestOK(r) /\ pc[r] = "call" /\ op[r] = "post" /\ TypeOK
    BY DEF IInv, Deliver
  <1>2. SeenOK(r) /\ payload[r] \in Data /\ on[r] \in Exports /\ <<on[r], payload[r]>> \in approvals
    BY <1>1 DEF RequestOK, SeenOK
  <1>3. TypeOK'
    BY <1>1, <1>2 DEF TypeOK, Deliver
  <1>4. Grows
    BY DEF Grows, Deliver
  <1>5. \A q \in Requests : q # r => RequestOK(q)'
    BY <1>1, <1>4, RequestKept DEF IInv, TypeOK, Deliver
  <1>6. RequestOK(r)'
    <2>1. SeenOK(r)'
      BY <1>2 DEF SeenOK, Deliver
    <2>2. pc'[r] = "commit" /\ <<on[r], payload[r]>> \in delivered'
      BY <1>1 DEF Deliver, TypeOK
    <2> QED
      BY <1>1, <1>2, <2>1, <2>2 DEF RequestOK, Deliver
  <1>7. \A e \in Exports : RowOK(e)'
    BY <1>4, RowKept DEF IInv, Deliver
  <1>8. TrailIsTrue' /\ Entered'
    BY <1>1, <1>4, TrailKept DEF IInv, TrailIsTrue, Entered, Deliver
  <1> QED
    BY <1>2, <1>3, <1>5, <1>6, <1>7, <1>8 DEF IInv

LEMMA ReverseStep ==
  ASSUME IInv, NEW r \in Requests, Reverse(r)
  PROVE  IInv' /\ on[r] \in Exports /\ payload[r] \in Data /\ <<on[r], payload[r]>> \in delivered
  <1>1. RequestOK(r) /\ pc[r] = "call" /\ op[r] = "rollback" /\ TypeOK
    BY DEF IInv, Reverse
  <1>2. SeenOK(r) /\ payload[r] \in Data /\ on[r] \in Exports /\ <<on[r], payload[r]>> \in delivered
    BY <1>1 DEF RequestOK, SeenOK
  <1>3. TypeOK'
    BY <1>1, <1>2 DEF TypeOK, Reverse
  <1>4. Grows
    BY DEF Grows, Reverse
  <1>5. \A q \in Requests : q # r => RequestOK(q)'
    BY <1>1, <1>4, RequestKept DEF IInv, TypeOK, Reverse
  <1>6. RequestOK(r)'
    <2>1. SeenOK(r)'
      BY <1>2 DEF SeenOK, Reverse
    <2>2. pc'[r] = "commit" /\ on[r] \in reversed'
      BY <1>1 DEF Reverse, TypeOK
    <2> QED
      BY <1>1, <1>2, <2>1, <2>2 DEF RequestOK, Reverse
  <1>7. \A e \in Exports : RowOK(e)'
    BY <1>4, RowKept DEF IInv, Reverse
  <1>8. TrailIsTrue' /\ Entered'
    BY <1>1, <1>4, TrailKept DEF IInv, TrailIsTrue, Entered, Reverse
  <1> QED
    BY <1>2, <1>3, <1>5, <1>6, <1>7, <1>8 DEF IInv

\* What a commit leaves in the row.
LEMMA CommittedRow ==
  ASSUME IInv, NEW r \in Requests, NEW e \in Exports, Commit(r, e)
  PROVE  /\ row' = [row EXCEPT ![e] = row'[e]]
         /\ row'[e] \in Row
         /\ row'[e].status = NewStatus[op[r]]
         /\ row'[e].prepared \in Data
         /\ row[e].prepared # NoData => row'[e].prepared = row[e].prepared
         /\ op[r] = "stage" => /\ row[e] = NoRow /\ row'[e].prepared = payload[r]
                               /\ row'[e].approved = NoData /\ row'[e].posted = NoData
         /\ op[r] # "stage" => SeenOK(r) /\ e = on[r]
         /\ row'[e].approved = IF op[r] = "approve" THEN payload[r] ELSE row[e].approved
         /\ op[r] # "post" => row'[e].posted = row[e].posted
         /\ op[r] = "post" => \/ row'[e].posted = payload[r]
                              \/ row'[e].posted = row[e].posted /\ row[e].posted # NoData
  <1> DEFINE n == Saved(row[e], seen[r], Changed(r))
  <1>1. /\ RequestOK(r) /\ RowOK(e) /\ pc[r] = "commit" /\ payload[r] \in Data /\ op[r] \in Ops
        /\ row[e] \in Row /\ seen[r] \in Row /\ payload[r] # NoData
    BY StagingAssumption DEF IInv, TypeOK, Commit, RequestOK
  <1>2. row' = [row EXCEPT ![e] = n] /\ row'[e] = n
    BY DEF IInv, TypeOK, Commit
  <1>3. CASE op[r] = "stage"
    <2>1. row[e] = NoRow
      BY <1>3 DEF Commit, Target
    <2>2. seen[r] = NoRow
      BY <1>1, <1>3 DEF RequestOK, SeenOK
    <2>3. /\ n.status = "prepared" /\ n.prepared = payload[r]
          /\ n.approved = NoData /\ n.posted = NoData
      BY <1>1, <1>3, <2>1, <2>2, Tables DEF Saved, Changed, NoRow
    <2>4. n \in Row
      BY <1>1, <2>3 DEF Saved, Row, Value, Statuses
    <2>5. row[e].prepared = NoData /\ row[e].approved = NoData /\ row[e].posted = NoData
      BY <2>1 DEF NoRow
    <2> QED
      BY <1>1, <1>2, <1>3, <2>1, <2>3, <2>4, <2>5, Tables
  <1>4. CASE op[r] # "stage"
    <2>1. SeenOK(r) /\ e = on[r]
      BY <1>1, <1>4 DEF RequestOK, Commit, Target
    <2>2. n.status = NewStatus[op[r]]
      <3>1. seen[r].status = Required[op[r]]
        BY <2>1 DEF SeenOK
      <3>2. seen[r].status # NewStatus[op[r]]
        BY <1>1, <1>4, <3>1, Tables DEF Ops
      <3> QED
        BY <3>2 DEF Saved, Changed
    <2>3. n.prepared = row[e].prepared /\ row[e].prepared \in Data
      BY <1>4, <2>1 DEF Saved, Changed, SeenOK
    <2>4. n.approved = IF op[r] = "approve" THEN payload[r] ELSE row[e].approved
      BY <1>1, <2>1 DEF Saved, Changed, SeenOK
    <2>5. op[r] # "post" => n.posted = row[e].posted
      BY DEF Saved, Changed
    <2>6. op[r] = "post" => \/ n.posted = payload[r]
                            \/ n.posted = row[e].posted /\ row[e].posted # NoData
      <3>1. CASE op[r] = "post" /\ payload[r] = seen[r].posted
        <4>1. n.posted = row[e].posted
          BY <3>1 DEF Saved, Changed
        <4>2. seen[r].posted # NoData => row[e].posted # NoData
          BY <2>1 DEF SeenOK
        <4> QED
          BY <1>1, <3>1, <4>1, <4>2
      <3>2. op[r] = "post" /\ payload[r] # seen[r].posted => n.posted = payload[r]
        BY DEF Saved, Changed
      <3> QED
        BY <3>1, <3>2
    <2>7. n \in Row
      <3>1. /\ row[e].prepared \in Value /\ row[e].approved \in Value /\ row[e].posted \in Value
            /\ payload[r] \in Value /\ NewStatus[op[r]] \in Statuses
        BY <1>1, Columns, Tables DEF Value
      <3>2. n.prepared \in Value /\ n.approved \in Value /\ n.posted \in Value /\ n.status \in Statuses
        BY <3>1, <2>2, <2>3, <2>4, <2>5, <2>6
      <3> QED
        BY <3>2 DEF Saved, Row
    <2> QED
      BY <1>2, <1>4, <2>1, <2>2, <2>3, <2>4, <2>5, <2>6, <2>7
  <1> QED
    BY <1>3, <1>4

\* A commit.
LEMMA CommitStep ==
  ASSUME IInv, NEW r \in Requests, NEW e \in Exports, Commit(r, e)
  PROVE  /\ IInv'
         /\ op[r] = "approve" => payload[r] \in Data /\ approvals' = approvals \union {<<e, payload[r]>>}
         /\ op[r] # "approve" => approvals' = approvals
  <1>1. /\ TypeOK /\ RequestOK(r) /\ RowOK(e) /\ pc[r] = "commit" /\ op[r] \in Ops
        /\ payload[r] \in Data /\ payload[r] # NoData
    BY StagingAssumption DEF IInv, TypeOK, Commit, RequestOK
  <1>2. approvals' = IF op[r] = "approve" THEN approvals \union {<<e, payload[r]>>} ELSE approvals
    BY DEF Commit
  <1>2a. rejections' = IF op[r] = "reject" THEN rejections \union {<<e, payload[r]>>} ELSE rejections
    BY DEF Commit
  <1>3. TypeOK'
    <2>1. row' \in [Exports -> Row]
      BY <1>1, CommittedRow DEF TypeOK
    <2>2. approvals' \subseteq Exports \X Data
      BY <1>1, <1>2 DEF TypeOK
    <2>2a. rejections' \subseteq Exports \X Data
      BY <1>1, <1>2a DEF TypeOK
    <2>3. pc' \in [Requests -> {"idle", "call", "commit", "audit"}]
      BY <1>1 DEF TypeOK, Commit
    <2>4. on' \in [Requests -> Exports \union {NoExport}]
      BY <1>1 DEF TypeOK, Commit
    <2> QED
      BY <1>1, <2>1, <2>2, <2>2a, <2>3, <2>4 DEF TypeOK, Commit
  <1>4. \A f \in Exports : f # e => row'[f] = row[f]
    BY <1>1, CommittedRow DEF TypeOK
  <1>5. Grows
    <2>1. row[e].approved # NoData => row'[e].approved # NoData
      BY <1>1, CommittedRow
    <2>2. row[e].posted # NoData => row'[e].posted # NoData
      BY <1>1, CommittedRow
    <2>3. row[e].prepared # NoData => row'[e].prepared = row[e].prepared
      BY CommittedRow
    <2>4. /\ approvals \subseteq approvals' /\ rejections \subseteq rejections'
          /\ delivered' = delivered /\ reversed' = reversed
      BY <1>2, <1>2a DEF Commit
    <2> QED
      BY <1>4, <2>1, <2>2, <2>3, <2>4 DEF Grows
  <1>6. /\ row'[e].approved # NoData => <<e, row'[e].approved>> \in approvals'
        /\ row'[e].posted # NoData => <<e, row'[e].posted>> \in delivered'
    <2>1. row[e].approved # NoData => <<e, row[e].approved>> \in approvals
      BY <1>1 DEF RowOK
    <2>2. row[e].posted # NoData => <<e, row[e].posted>> \in delivered
      BY <1>1 DEF RowOK
    <2>3. op[r] = "post" => <<e, payload[r]>> \in delivered
      BY <1>1, CommittedRow DEF RequestOK
    <2>4. row'[e].approved = IF op[r] = "approve" THEN payload[r] ELSE row[e].approved
      BY CommittedRow
    <2>5. \/ row'[e].posted = row[e].posted
          \/ op[r] = "post" /\ row'[e].posted = payload[r]
      <3>1. op[r] # "post" => row'[e].posted = row[e].posted
        BY CommittedRow
      <3>2. op[r] = "post" => \/ row'[e].posted = payload[r]
                              \/ row'[e].posted = row[e].posted
        BY CommittedRow
      <3> QED
        BY <3>1, <3>2
    <2>6. delivered' = delivered
      BY DEF Commit
    <2> QED
      BY <1>2, <2>1, <2>2, <2>3, <2>4, <2>5, <2>6
  <1>7. RowOK(e)'
    <2>1. /\ row'[e].status = NewStatus[op[r]] /\ row'[e].prepared \in Data
          /\ op[r] = "stage" => row'[e].approved = NoData /\ row'[e].posted = NoData
          /\ op[r] = "approve" => row'[e].approved = payload[r]
      BY CommittedRow
    <2>2. op[r] = "post" => row'[e].posted # NoData
      BY <1>1, CommittedRow
    <2>3. op[r] = "rollback" => row'[e].posted # NoData /\ e \in reversed'
      <3>1. op[r] = "rollback" => SeenOK(r) /\ e = on[r] /\ row'[e].posted = row[e].posted
        BY CommittedRow
      <3> QED
        BY <1>1, <3>1 DEF SeenOK, RequestOK, Commit
    <2> QED
      BY <1>1, <1>6, <2>1, <2>2, <2>3, Tables DEF RowOK, Ops
  <1>8. \A f \in Exports : RowOK(f)'
    BY <1>1, <1>4, <1>5, <1>7, RowKept DEF IInv
  <1>9. RequestOK(r)'
    <2>1. pc'[r] = "audit" /\ on'[r] = e /\ op'[r] = op[r] /\ payload'[r] = payload[r]
      BY <1>1 DEF TypeOK, Commit
    <2>2. row'[e].prepared # NoData
      BY CommittedRow, StagingAssumption
    <2>3. EntryIsTrue(e, Action[op[r]], payload[r])'
      <3>1. /\ op[r] = "stage" => row'[e].prepared = payload[r]
            /\ op[r] = "reject" => <<e, payload[r]>> \in rejections'
        BY <1>2a, CommittedRow
      <3>2. op[r] = "approve" => <<e, payload[r]>> \in approvals'
        BY <1>2
      <3>3. op[r] = "post" => <<e, payload[r]>> \in delivered'
        BY <1>1, CommittedRow DEF RequestOK, Commit
      <3>4. op[r] = "rollback" => <<e, payload[r]>> \in delivered' /\ e \in reversed'
        <4>1. op[r] = "rollback" => SeenOK(r) /\ e = on[r]
          BY CommittedRow
        <4> QED
          BY <1>1, <4>1 DEF SeenOK, RequestOK, Commit
      <3> QED
        BY <1>1, <2>1, <3>1, <3>2, <3>3, <3>4, Tables DEF EntryIsTrue, Ops
    <2> QED
      BY <1>1, <2>1, <2>2, <2>3 DEF RequestOK
  <1>10. \A q \in Requests : q # r => RequestOK(q)'
    BY <1>1, <1>5, RequestKept DEF IInv, TypeOK, Commit
  <1>11. TrailIsTrue' /\ Entered'
    BY <1>1, <1>5, TrailKept DEF IInv, TrailIsTrue, Entered, Commit
  <1> QED
    BY <1>1, <1>2, <1>3, <1>8, <1>9, <1>10, <1>11 DEF IInv

\* A request ends, with an entry of the trail or without.
LEMMA EndStep ==
  ASSUME IInv, NEW r \in Requests, Audit(r) \/ Fail(r)
  PROVE  IInv' /\ UNCHANGED <<approvals, delivered, reversed>>
  <1>1. /\ TypeOK /\ RequestOK(r) /\ Return(r)
        /\ UNCHANGED <<row, approvals, rejections, delivered, reversed>>
    BY DEF IInv, Audit, Fail
  <1>2. NoRow \in Row
    BY DEF NoRow, Row, Value, Statuses
  <1>3. Audit(r) => /\ on[r] \in Exports /\ row[on[r]].prepared # NoData
                    /\ EntryIsTrue(on[r], Action[op[r]], payload[r])
    BY <1>1 DEF Audit, RequestOK
  <1>4. \/ Fail(r) /\ trail' = trail
        \/ Audit(r) /\ trail' = trail \union {<<on[r], Action[op[r]], payload[r]>>}
    <2>1. Fail(r) => trail' = trail
      BY DEF Fail
    <2>2. Audit(r) => trail' = trail \union {<<on[r], Action[op[r]], payload[r]>>}
      BY DEF Audit
    <2> QED
      BY <2>1, <2>2
  <1>5. TypeOK'
    <2>1. Audit(r) => <<on[r], Action[op[r]], payload[r]>> \in Entry
      BY <1>1, <1>3, Tables DEF TypeOK, Entry
    <2>2. trail' \subseteq Entry /\ faults' \in Nat
      BY <1>1, <1>4, <2>1 DEF TypeOK, Audit, Fail
    <2> QED
      BY <1>1, <1>2, <2>2 DEF TypeOK, Return, Ops, Value
  <1>6. Grows
    BY <1>1 DEF Grows
  <1>7. RequestOK(r)'
    BY <1>1 DEF RequestOK, Return, TypeOK
  <1>8. \A q \in Requests : q # r => RequestOK(q)'
    BY <1>1, <1>6, RequestKept DEF IInv, TypeOK, Return
  <1>9. \A e \in Exports : RowOK(e)'
    BY <1>1, <1>6, RowKept DEF IInv
  <1>10. TrailIsTrue' /\ Entered'
    BY <1>1, <1>3, <1>4 DEF IInv, TrailIsTrue, Entered, EntryIsTrue
  <1> QED
    BY <1>1, <1>5, <1>7, <1>8, <1>9, <1>10 DEF IInv

\* A step of a request is one of these.
LEMMA RequestStep ==
  ASSUME IInv, NEW r \in Requests,
         \/ \E d \in Data : StageCheck(r, d)
         \/ \E e \in Exports :
               \/ \E d \in Data : ApproveCheck(r, e, d)
               \/ RejectCheck(r, e) \/ PostCheck(r, e) \/ RollbackCheck(r, e)
               \/ Commit(r, e)
         \/ Deliver(r) \/ Reverse(r) \/ Audit(r) \/ Fail(r)
  PROVE  IInv'
  BY StageCheckStep, CheckStep, CommitStep, DeliverStep, ReverseStep, EndStep

\* Stuttering.
LEMMA Stutter == IInv /\ UNCHANGED vars => IInv'
  BY DEF IInv, TypeOK, vars, RowOK, RequestOK, SeenOK, TrailIsTrue, EntryIsTrue, Entered

THEOREM Invariance == Spec => []IInv
  <1>1. IInv /\ [Next]_vars => IInv'
    BY RequestStep, Stutter DEF Next
  <1> QED
    BY InitHolds, <1>1, PTL DEF Spec

\* Rows, requests, the trail and the histories keep their types.
THEOREM TypeCorrect == Spec => []TypeOK
  <1>1. IInv => TypeOK
    BY DEF IInv
  <1> QED
    BY Invariance, <1>1, PTL

\* For any number of requests: a posted row names delivered data, a rolled back one was
\* reversed.
THEOREM RowsAreTrue == Spec => []RowIsTrue
  <1>1. IInv => RowIsTrue
    BY DEF IInv, RowOK, RowIsTrue
  <1> QED
    BY Invariance, <1>1, PTL

\* For any number of requests: the trail tells of nothing that did not happen.
THEOREM TrailTrue == Spec => []TrailIsTrue
  <1>1. IInv => TrailIsTrue
    BY DEF IInv
  <1> QED
    BY Invariance, <1>1, PTL

\* The service implements ApprovalGate: every step approves, delivers what is approved,
\* reverses what is delivered, or changes neither.
THEOREM Implements == Spec => Gated
  <1>1. Init => Gate!Init
    BY DEF Init, Gate!Init
  <1>2. IInv /\ [Next]_vars => [Gate!Next]_(Gate!vars)
    <2> SUFFICES ASSUME IInv, [Next]_vars PROVE [Gate!Next]_(Gate!vars)
      OBVIOUS
    <2>1. ASSUME NEW r \in Requests, NEW e \in Exports, Commit(r, e)
          PROVE  [Gate!Next]_(Gate!vars)
      <3>1. delivered' = delivered /\ reversed' = reversed
        BY <2>1 DEF Commit
      <3>2. CASE op[r] = "approve"
        <4>1. payload[r] \in Data /\ approvals' = approvals \union {<<e, payload[r]>>}
          BY <2>1, <3>2, CommitStep
        <4>2. Gate!Approve(e, payload[r])
          BY <3>1, <4>1 DEF Gate!Approve
        <4> QED
          BY <4>1, <4>2 DEF Gate!Next
      <3>3. CASE op[r] # "approve"
        BY <2>1, <3>1, <3>3, CommitStep DEF Gate!vars
      <3> QED
        BY <3>2, <3>3
    <2>2. ASSUME NEW r \in Requests, Deliver(r)
          PROVE  [Gate!Next]_(Gate!vars)
      <3>1. <<on[r], payload[r]>> \in approvals /\ on[r] \in Exports /\ payload[r] \in Data
        BY <2>2, DeliverStep DEF IInv, TypeOK
      <3>2. Gate!Deliver(on[r], payload[r])
        BY <2>2, <3>1 DEF Deliver, Gate!Deliver
      <3> QED
        BY <3>1, <3>2 DEF Gate!Next
    <2>3. ASSUME NEW r \in Requests, Reverse(r)
          PROVE  [Gate!Next]_(Gate!vars)
      <3>1. on[r] \in Exports /\ payload[r] \in Data /\ <<on[r], payload[r]>> \in delivered
        BY <2>3, ReverseStep
      <3>2. Gate!Reverse(on[r])
        BY <2>3, <3>1 DEF Reverse, Gate!Reverse
      <3> QED
        BY <3>1, <3>2 DEF Gate!Next
    <2>4. ASSUME NEW r \in Requests, Audit(r) \/ Fail(r)
          PROVE  [Gate!Next]_(Gate!vars)
      BY <2>4 DEF Audit, Fail, Gate!vars
    <2>5. ASSUME NEW r \in Requests, NEW o, NEW e, NEW s, NEW d, NEW step, Proceed(r, o, e, s, d, step)
          PROVE  UNCHANGED Gate!vars
      BY <2>5 DEF Proceed, Gate!vars
    <2>6. ASSUME NEW r \in Requests,
                 \/ \E d \in Data : StageCheck(r, d)
                 \/ \E e \in Exports :
                       \/ \E d \in Data : ApproveCheck(r, e, d)
                       \/ RejectCheck(r, e) \/ PostCheck(r, e) \/ RollbackCheck(r, e)
          PROVE  [Gate!Next]_(Gate!vars)
      BY <2>5, <2>6 DEF StageCheck, ApproveCheck, RejectCheck, PostCheck, RollbackCheck, Load
    <2>7. CASE UNCHANGED vars
      BY <2>7 DEF vars, Gate!vars
    <2> QED
      BY <2>1, <2>2, <2>3, <2>4, <2>6, <2>7 DEF Next
  <1> QED
    BY <1>1, <1>2, Invariance, PTL DEF Spec, Gated, Gate!Spec
=============================================================================
