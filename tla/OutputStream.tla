----------------------------- MODULE OutputStream -----------------------------
(***************************************************************************)
(* What a debug console promises: it shows what the debuggee printed and   *)
(* the changes of its state, all of it, once, in the order in which it     *)
(* happened, for as long as the session lasts.                             *)
(***************************************************************************)
EXTENDS Naturals, Sequences

CONSTANT Items  \* what can happen

VARIABLES
    happened,   \* what the adapter has reported
    shown,      \* what the console shows
    over        \* the session has ended

vars == <<happened, shown, over>>

Init == happened = <<>> /\ shown = <<>> /\ over = FALSE

Report == (\E x \in Items : happened' = Append(happened, x)) /\ UNCHANGED <<shown, over>>

\* More of the session is shown; its last part may be shown as it ends.
Show == /\ ~over
        /\ \E n \in Len(shown) + 1 .. Len(happened) : shown' = SubSeq(happened, 1, n)
        /\ over' \in BOOLEAN
        /\ UNCHANGED happened

End == ~over /\ over' = TRUE /\ UNCHANGED <<happened, shown>>

Next == Report \/ Show \/ End

Spec == Init /\ [][Next]_vars
=============================================================================
