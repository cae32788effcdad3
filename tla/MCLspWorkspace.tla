---- MODULE MCLspWorkspace ----
(* Calls are interchangeable: only invariants are checked with this symmetry. *)
EXTENDS LspWorkspace, TLC

CallSymmetry == Permutations(Calls)
====
