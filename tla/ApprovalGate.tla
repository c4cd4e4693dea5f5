---------------------------- MODULE ApprovalGate ----------------------------
(***************************************************************************)
(* What the staging of exports promises (module docstring of               *)
(* app/services/staging_service.py, "audit trails and approval chains";    *)
(* app/api/api_v1/endpoints/staging.py stage_export, "a staged export      *)
(* record that must be approved before posting"): data reaches the         *)
(* destination only as somebody approved it, and only what reached it is   *)
(* taken back.                                                             *)
(***************************************************************************)
CONSTANTS Exports, Data

VARIABLES
    approved,   \* pairs of an export and the data approved for it
    delivered,  \* pairs of an export and the data the destination got
    reversed    \* exports taken back from the destination

vars == <<approved, delivered, reversed>>

Init ==
    /\ approved = {}
    /\ delivered = {}
    /\ reversed = {}

Approve(e, d) ==
    /\ approved' = approved \union {<<e, d>>}
    /\ UNCHANGED <<delivered, reversed>>

Deliver(e, d) ==
    /\ <<e, d>> \in approved
    /\ delivered' = delivered \union {<<e, d>>}
    /\ UNCHANGED <<approved, reversed>>

Reverse(e) ==
    /\ \E d \in Data : <<e, d>> \in delivered
    /\ reversed' = reversed \union {e}
    /\ UNCHANGED <<approved, delivered>>

Next == \E e \in Exports : Reverse(e) \/ \E d \in Data : Approve(e, d) \/ Deliver(e, d)

Spec == Init /\ [][Next]_vars
=============================================================================
