--------------------------- MODULE MCLspTransport ---------------------------
(* The small instances of LspTransport that TLC checks.                    *)
EXTENDS LspTransport, TLC

Symmetry == Permutations(Calls)

=============================================================================
