--------------------------- MODULE RequestService ---------------------------
(***************************************************************************)
(* What a transport promises to the callers of its requests: every request *)
(* is resolved at most once, its outcome is one the server or the caller   *)
(* gave reason for, and none of the five failures of RequestFailure        *)
(* (crates/core/src/lsp/transport.rs) is ever turned into an answer or     *)
(* into one another.  How answers and deaths travel is left open.          *)
(***************************************************************************)
CONSTANTS
    Requests,      \* the requests
    Answers,       \* what a server can say to one
    DeathReasons,  \* why a server can be lost
    Alive          \* it is not lost

VARIABLES
    spoken,     \* the answers the server has given to each request
    withdrawn,  \* the requests whose caller no longer wants an answer
    death,      \* why the server was lost
    closed,     \* its input was closed
    result      \* the outcome of each request

vars == <<spoken, withdrawn, death, closed, result>>

Unresolved == [kind |-> "none", why |-> Alive]
Outcome(k) == [kind |-> k, why |-> Alive]
Died(reason) == [kind |-> "ServerDied", why |-> reason]

Init ==
    /\ spoken = [r \in Requests |-> {}]
    /\ withdrawn = {}
    /\ death = Alive
    /\ closed = FALSE
    /\ result = [r \in Requests |-> Unresolved]

Speak(r, k) ==
    /\ spoken' = [spoken EXCEPT ![r] = @ \cup {k}]
    /\ UNCHANGED <<withdrawn, death, closed, result>>

Withdraw(r) ==
    /\ withdrawn' = withdrawn \cup {r}
    /\ UNCHANGED <<spoken, death, closed, result>>

\* A server is lost once, for one reason.
Lose(reason) ==
    /\ death = Alive
    /\ death' = reason
    /\ UNCHANGED <<spoken, withdrawn, closed, result>>

Close ==
    /\ closed' = TRUE
    /\ UNCHANGED <<spoken, withdrawn, death, result>>

\* The outcomes a request may have now.
Justified(r) ==
    {Outcome(k) : k \in spoken[r]}
    \cup {Outcome("TimedOut")}
    \cup {Outcome("Cancelled") : x \in withdrawn \cap {r}}
    \cup {Died(reason) : reason \in {death} \ {Alive}}
    \cup {Died("StdinClosed") : x \in {closed} \cap {TRUE}}

Resolve(r) ==
    /\ result[r] = Unresolved
    /\ \E o \in Justified(r) : result' = [result EXCEPT ![r] = o]
    /\ UNCHANGED <<spoken, withdrawn, death, closed>>

Next ==
    \/ \E r \in Requests, k \in Answers : Speak(r, k)
    \/ \E r \in Requests : Withdraw(r) \/ Resolve(r)
    \/ \E reason \in DeathReasons : Lose(reason)
    \/ Close

Spec == Init /\ [][Next]_vars

=============================================================================
