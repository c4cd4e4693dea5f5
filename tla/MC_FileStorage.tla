--------------------------- MODULE MC_FileStorage ---------------------------
(* An instance of FileStorage for TLC. *)
EXTENDS FileStorage, TLC

\* Requests, users and paths are alike.
Symmetry == Permutations(Requests) \union Permutations(Users) \union Permutations(Paths)

=============================================================================
