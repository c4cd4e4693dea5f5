--------------------------- MODULE RedriveProtocol ---------------------------
(***************************************************************************)
(* What becomes of one entry of the dead letter queue (DLQStatus and       *)
(* mark_redrive_attempt, app/models/dlq.py; redrive_single_entry,          *)
(* app/services/redrive_service.py): it waits, is taken by a redriver,     *)
(* published once or refused by the broker, and settled. "taken", "loaded",*)
(* "sent" and "refused" say how far its redriver has got, "stranded" that  *)
(* it has none any more. Nothing is published for an entry that is         *)
(* settled, stranded or gone; one that is deleted when its redriver has    *)
(* already loaded it ("orphaned") may get that one message. An entry that  *)
(* two redrivers have taken is "raced" for ever, and nothing is promised   *)
(* about it.                                                               *)
(***************************************************************************)
EXTENDS Naturals

CONSTANT Entries

VARIABLES
    phase,    \* of each entry
    messages  \* published for each entry

vars == <<phase, messages>>

Waiting == {"pending", "failed_permanently"}
AtWork == {"taken", "loaded", "sent", "refused"}

Init ==
    /\ phase = [e \in Entries |-> "none"]
    /\ messages = [e \in Entries |-> 0]

Move(e, from, to) ==
    /\ phase[e] \in from
    /\ phase' = [phase EXCEPT ![e] = to]

Appear(e) == Move(e, {"none"}, "pending") /\ UNCHANGED messages
Take(e) == Move(e, Waiting, "taken") /\ UNCHANGED messages
Load(e) == Move(e, {"taken"}, "loaded") /\ UNCHANGED messages
Send(e) == Move(e, {"loaded"}, "sent") /\ messages' = [messages EXCEPT ![e] = @ + 1]
Refuse(e) == Move(e, {"loaded"}, "refused") /\ UNCHANGED messages
Complete(e) == Move(e, {"sent"}, "completed") /\ UNCHANGED messages
GiveUp(e) == Move(e, {"refused"}, "failed_permanently") /\ UNCHANGED messages

\* The redriver is gone, or could not write what came of it.
Strand(e) == Move(e, AtWork, "stranded") /\ UNCHANGED messages

\* Another redriver takes an entry it has read before.
Race(e) == Move(e, AtWork \union {"stranded", "completed"}, "raced") /\ UNCHANGED messages
SendRaced(e) ==
    /\ phase[e] = "raced"
    /\ messages' = [messages EXCEPT ![e] = @ + 1]
    /\ UNCHANGED phase

\* Rows are deleted, several at a time and whoever is at work on them.
Remove(old) ==
    /\ \A e \in old : phase[e] \notin {"none", "orphaned", "gone", "raced"}
    /\ phase' = [e \in Entries |-> IF e \notin old THEN phase[e]
                                  ELSE IF phase[e] = "loaded" THEN "orphaned" ELSE "gone"]
    /\ UNCHANGED messages

\* The redriver of a deleted entry publishes the task it has loaded, or does not.
SendOrphan(e) == Move(e, {"orphaned"}, "gone") /\ messages' = [messages EXCEPT ![e] = @ + 1]
DropOrphan(e) == Move(e, {"orphaned"}, "gone") /\ UNCHANGED messages

Next ==
    \/ \E old \in SUBSET Entries : Remove(old)
    \/ \E e \in Entries :
          \/ Appear(e) \/ Take(e) \/ Load(e) \/ Send(e) \/ Refuse(e) \/ Complete(e) \/ GiveUp(e)
          \/ Strand(e) \/ Race(e) \/ SendRaced(e) \/ SendOrphan(e) \/ DropOrphan(e)

Spec == Init /\ [][Next]_vars
=============================================================================
