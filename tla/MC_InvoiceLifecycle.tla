------------------------ MODULE MC_InvoiceLifecycle ------------------------
(* One file uploaded twice and approved twice, handled by two workers that *)
(* are interchangeable, as are the requests.                               *)
EXTENDS InvoiceLifecycle, TLC

Symmetry == Permutations(Uploaders) \union Permutations(Approvers) \union Permutations(Workers)
=============================================================================
