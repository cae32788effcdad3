----------------------------- MODULE MCSymbols -----------------------------
EXTENDS Symbols, TLC

\* No action and no invariant tells one workspace, build or save from another.
Symmetric == Permutations(Roots) \cup Permutations(Builds) \cup Permutations(Saves)
=============================================================================
