-------------------------- MODULE MC_StagedExports --------------------------
(* Two exports, two payloads and two requests at a time, all of them       *)
(* interchangeable.                                                        *)
EXTENDS StagedExports, TLC

Symmetry == Permutations(Exports) \union Permutations(Requests) \union Permutations(Data)
=============================================================================
