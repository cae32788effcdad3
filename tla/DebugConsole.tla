----------------------------- MODULE DebugConsole -----------------------------
(***************************************************************************)
(* One debug session's protocol (commands/debug.rs): the adapter and its   *)
(* two bounded pipes, the task that drains its output into an unbounded    *)
(* queue (pump_protocol), and run_protocol, which answers the adapter and  *)
(* shows the debuggee's output in batches (dap/coalesce.rs).               *)
(*                                                                         *)
(* The adapter is external.  It writes from inside the debuggee's runtime: *)
(* while it waits for room in its pipe it reads nothing and the debuggee   *)
(* stands still.  NetCoreDbg is talked to over the pipes of its process;   *)
(* the Node adapter over the two halves of one socket, which does not      *)
(* break while either half is held.                                        *)
(***************************************************************************)
EXTENDS Naturals, Sequences, SequencesExt

CONSTANTS
    Streams,    \* stdout and stderr
    Sizes,      \* the lengths of an output event (an empty one is ignored)
    MaxBatch,   \* MAX_BATCH_BYTES, in the same unit
    Socket,     \* the two directions are halves of one socket
    OutputRoom, \* the messages the adapter's output pipe holds
    InputRoom,  \* and its input pipe
    MaxReports, \* the messages the adapter writes
    None

ASSUME LimitsAssumption ==
    /\ Sizes \subseteq Nat \ {0} /\ MaxBatch \in Nat \ {0}
    /\ OutputRoom \in Nat \ {0} /\ InputRoom \in Nat \ {0} /\ MaxReports \in Nat
    /\ Socket \in BOOLEAN

VARIABLES
    want,       \* adapter: the message it is writing
    reports,    \* adapter: how many messages it has begun to write
    unanswered, \* adapter: the requests it has read and not answered, by seq
    asked,      \* adapter: its own requests that wait for a reply
    told,       \* adapter: it has answered initialize, sent initialized, closed its stream
    fromAdapter, toAdapter,   \* the pipes
    pumping,    \* the draining task has not stopped
    queue,      \* the unbounded channel between it and the session
    phase,      \* run_protocol: "initialize", "session" or "over"
    writing,    \* the message run_protocol is writing
    nextSeq,    \* the sequence number of its next message
    pending,    \* the Coalescer: the output held back and its stream
    console,    \* what the front end has been sent
    happened    \* history: what the adapter has reported since it answered initialize

adapter == <<want, reports, unanswered, asked, told>>
pipes == <<fromAdapter, toAdapter>>
session == <<phase, writing, nextSeq>>
vars == <<adapter, pipes, pumping, queue, session, pending, console, happened>>

initializeSeq == 1
Numbers == 1 .. MaxReports
Outputs == [type : {"output"}, stream : Streams, size : Sizes, n : Numbers]
Events == [type : {"state", "initialized", "reverse", "terminated", "garbage", "unframed",
                   "closed"}, n : Numbers]
Responses == [type : {"response"}, to : Numbers, ok : BOOLEAN, n : Numbers]
Broken == [type |-> "error"]

\* What a console shows of a session: output, and changes of state.
Visible(m) == m.type \in {"output", "state"}

Nothing == [stream |-> None, items |-> <<>>]

Init ==
    /\ want = None /\ reports = 0 /\ unanswered = {} /\ asked = {} /\ told = {}
    /\ fromAdapter = <<>> /\ toAdapter = <<>>
    /\ pumping = TRUE /\ queue = <<>>
    /\ phase = "initialize"
    /\ writing = [command |-> "initialize", seq |-> initializeSeq] /\ nextSeq = 2
    /\ pending = Nothing /\ console = <<>> /\ happened = <<>>

-----------------------------------------------------------------------------
(* The adapter (external) *)

Sayable ==
    {m \in Outputs \cup Events \cup Responses :
        /\ m.n = reports + 1
        /\ m.type = "response" => m.to \in unanswered
        /\ m.type = "initialized" => "initialize" \in told /\ "initialized" \notin told}

Begin(m) ==
    /\ want = None /\ reports < MaxReports /\ "closed" \notin told
    /\ want' = m /\ reports' = reports + 1
    /\ UNCHANGED <<unanswered, asked, told, pipes, pumping, queue, session, pending, console,
                   happened>>

\* The write goes through when the pipe has room.
Push ==
    /\ want # None /\ (pumping \/ Socket) /\ Len(fromAdapter) < OutputRoom
    /\ want' = None
    /\ fromAdapter' = Append(fromAdapter, want)
    /\ unanswered' = IF want.type = "response" THEN unanswered \ {want.to} ELSE unanswered
    /\ asked' = IF want.type = "reverse" THEN asked \cup {want.n} ELSE asked
    /\ told' = told \cup ({want.type} \cap {"initialized", "closed"})
                    \cup (IF want.type = "response" /\ want.to = initializeSeq
                          THEN {"initialize"} ELSE {})
    /\ happened' = IF "initialize" \in told /\ Visible(want) THEN Append(happened, want)
                   ELSE happened
    /\ UNCHANGED <<reports, toAdapter, pumping, queue, session, pending, console>>

\* The draining task owns the read end: when it has stopped, writing fails; a socket breaks
\* when the session has let go of the other half, too.
Hangup ==
    /\ want # None /\ ~pumping /\ (Socket => phase = "over")
    /\ want' = None /\ told' = told \cup {"closed"}
    /\ UNCHANGED <<reports, unanswered, asked, pipes, pumping, queue, session, pending, console,
                   happened>>

Listen ==
    /\ want = None /\ toAdapter # <<>> /\ "closed" \notin told
    /\ LET m == Head(toAdapter) IN
         IF m.command = "reply"
         THEN asked' = asked \ {m.to} /\ UNCHANGED unanswered
         ELSE unanswered' = unanswered \cup {m.seq} /\ UNCHANGED asked
    /\ toAdapter' = Tail(toAdapter)
    /\ UNCHANGED <<want, reports, told, fromAdapter, pumping, queue, session, pending, console,
                   happened>>

-----------------------------------------------------------------------------
(* pump_protocol *)

\* Mutated: one loop that reads and does the session's work, and so waits for its writes.
PumpInline ==
    /\ pumping /\ fromAdapter # <<>> /\ Head(fromAdapter).type # "unframed"
    /\ queue = <<>> /\ writing = None
    /\ LET m == Head(fromAdapter)
           bad == m.type \in {"garbage", "closed"} IN
         /\ fromAdapter' = Tail(fromAdapter)
         /\ queue' = IF phase = "over" THEN queue
                     ELSE Append(queue, IF bad THEN Broken ELSE m)
         /\ pumping' = ~(bad \/ phase = "over")
    /\ UNCHANGED <<adapter, toAdapter, session, pending, console, happened>>

\* It waits for nothing but the pipe.  It stops at the end of the stream, at a message
\* that cannot be decoded, and when the session no longer listens.
Pump ==
    /\ pumping /\ fromAdapter # <<>> /\ Head(fromAdapter).type # "unframed"
    /\ LET m == Head(fromAdapter)
           bad == m.type \in {"garbage", "closed"} IN
         /\ fromAdapter' = Tail(fromAdapter)
         /\ queue' = IF phase = "over" THEN queue
                     ELSE Append(queue, IF bad THEN Broken ELSE m)
         /\ pumping' = ~(bad \/ phase = "over")
    /\ UNCHANGED <<adapter, toAdapter, session, pending, console, happened>>

\* A chunk in which the framing is lost is dropped as a whole, the messages before the loss
\* with it: they stay where nobody reads any more.
LoseFraming ==
    /\ pumping /\ \E i \in DOMAIN fromAdapter : fromAdapter[i].type = "unframed"
    /\ queue' = IF phase = "over" THEN queue ELSE Append(queue, Broken)
    /\ pumping' = FALSE
    /\ UNCHANGED <<adapter, pipes, session, pending, console, happened>>

-----------------------------------------------------------------------------
(* The Coalescer, and run_protocol *)

Size(items) == FoldSeq(LAMBDA m, sum : m.size + sum, 0, items)
Batch(p) == IF p = Nothing THEN <<>> ELSE <<p>>
State(m) == [stream |-> None, items |-> <<m>>]

\* Coalescer::push: a batch is of one stream and no longer than the cap.
Flushes(p, m) == p # Nothing /\ (p.stream # m.stream \/ Size(p.items) + m.size > MaxBatch)
Held(p, m) == IF Flushes(p, m) \/ p = Nothing THEN [stream |-> m.stream, items |-> <<m>>]
              ELSE [p EXCEPT !.items = Append(@, m)]

Flush == console' = console \o Batch(pending) /\ pending' = Nothing

\* The message goes out when the pipe has room; a closed adapter is an error.
Write ==
    /\ phase # "over" /\ writing # None
    /\ writing' = None
    /\ IF "closed" \in told
       THEN phase' = "over" /\ UNCHANGED toAdapter
       ELSE Len(toAdapter) < InputRoom /\ toAdapter' = Append(toAdapter, writing) /\ UNCHANGED phase
    /\ UNCHANGED <<adapter, fromAdapter, pumping, queue, nextSeq, pending, console,
                   happened>>

\* Mutated: the flush waits for the next message.
CatchUpNever == FALSE

\* receive: before the session waits for the adapter, nothing is held back.
CatchUp ==
    /\ phase # "over" /\ writing = None /\ queue = <<>> /\ pending # Nothing
    /\ Flush
    /\ UNCHANGED <<adapter, pipes, pumping, queue, session, happened>>

Takes(m) == phase # "over" /\ writing = None /\ queue # <<>> /\ Head(queue) = m /\ queue' = Tail(queue)

Request(message) == writing' = message /\ nextSeq' = nextSeq + 1
Reply(m) == [command |-> "reply", seq |-> nextSeq, to |-> m.n]
Send(command) == [command |-> command, seq |-> nextSeq]

\* Mutated: until initialize is answered, requests are dropped as well.
InitializeDeaf(m) ==
    /\ phase = "initialize" /\ Takes(m)
    /\ \/ /\ m = Broken \/ (m.type = "response" /\ m.to = initializeSeq /\ ~m.ok)
          /\ phase' = "over" /\ UNCHANGED <<writing, nextSeq>>
       \/ /\ m.type = "response" /\ m.to = initializeSeq /\ m.ok
          /\ phase' = "session" /\ Request(Send("launch"))
       \/ /\ m.type # "error" /\ ~(m.type = "response" /\ m.to = initializeSeq)
          /\ UNCHANGED <<phase, writing, nextSeq>>
    /\ UNCHANGED <<adapter, pipes, pumping, pending, console, happened>>

\* Until initialize is answered, everything else but a request is dropped.
Initialize(m) ==
    /\ phase = "initialize" /\ Takes(m)
    /\ \/ /\ m = Broken \/ (m.type = "response" /\ m.to = initializeSeq /\ ~m.ok)
          /\ phase' = "over" /\ UNCHANGED <<writing, nextSeq>>
       \/ /\ m.type = "response" /\ m.to = initializeSeq /\ m.ok
          /\ phase' = "session" /\ Request(Send("launch"))
       \/ /\ m.type = "reverse"
          /\ Request(Reply(m)) /\ UNCHANGED phase
       \/ /\ m.type \notin {"error", "reverse"} /\ ~(m.type = "response" /\ m.to = initializeSeq)
          /\ UNCHANGED <<phase, writing, nextSeq>>
    /\ UNCHANGED <<adapter, pipes, pumping, pending, console, happened>>

Output(m) ==
    /\ phase = "session" /\ Takes(m) /\ m.type = "output"
    /\ pending' = Held(pending, m)
    /\ console' = IF Flushes(pending, m) THEN console \o Batch(pending) ELSE console
    /\ UNCHANGED <<adapter, pipes, pumping, session, happened>>

\* Mutated: a change of state overtakes the output held back.
HandleFirst(m) ==
    /\ phase = "session" /\ Takes(m) /\ m.type # "output"
    /\ console' = console \o (IF m.type = "state" THEN <<State(m)>> ELSE <<>>)
    /\ phase' = IF m.type \in {"error", "terminated"} \/ (m.type = "response" /\ ~m.ok)
                THEN "over" ELSE phase
    /\ \/ m.type = "initialized" /\ Request(Send("configurationDone"))
       \/ m.type = "reverse" /\ Request(Reply(m))
       \/ m.type # "reverse" /\ UNCHANGED <<writing, nextSeq>>
    /\ UNCHANGED <<adapter, pipes, pumping, pending, happened>>

\* Everything that is not output flushes first.  A failed response, a broken stream and
\* the terminated event end the session.  configurationDone is sent if the adapter
\* supports it.
Handle(m) ==
    /\ phase = "session" /\ Takes(m) /\ m.type # "output"
    /\ pending' = Nothing
    /\ console' = console \o Batch(pending) \o (IF m.type = "state" THEN <<State(m)>> ELSE <<>>)
    /\ phase' = IF m.type \in {"error", "terminated"} \/ (m.type = "response" /\ ~m.ok)
                THEN "over" ELSE phase
    /\ \/ m.type = "initialized" /\ Request(Send("configurationDone"))
       \/ m.type = "reverse" /\ Request(Reply(m))
       \/ m.type # "reverse" /\ UNCHANGED <<writing, nextSeq>>
    /\ UNCHANGED <<adapter, pipes, pumping, happened>>

Session ==
    \/ Write \/ CatchUp
    \/ queue # <<>> /\ (Initialize(Head(queue)) \/ Output(Head(queue)) \/ Handle(Head(queue)))

Next ==
    \/ \E m \in Sayable : Begin(m)
    \/ Push \/ Hangup \/ Listen \/ Pump \/ LoseFraming \/ Session

\* The runtime runs its tasks; the adapter finishes the write it has begun when there is
\* room, and reads its input whenever it is not writing.  It need not say anything.
Spec == Init /\ [][Next]_vars
             /\ WF_vars(Pump \/ LoseFraming) /\ WF_vars(Session)
             /\ WF_vars(Push \/ Hangup) /\ WF_vars(Listen)

-----------------------------------------------------------------------------
(* Properties *)

TypeOK ==
    /\ want \in Outputs \cup Events \cup Responses \cup {None}
    /\ reports \in 0 .. MaxReports
    /\ unanswered \subseteq 1 .. nextSeq - 1 /\ asked \subseteq Numbers
    /\ told \subseteq {"initialize", "initialized", "closed"}
    /\ Len(fromAdapter) <= OutputRoom /\ Len(toAdapter) <= InputRoom
    /\ pumping \in BOOLEAN
    /\ phase \in {"initialize", "session", "over"}
    /\ nextSeq \in 2 .. MaxReports + 4
    /\ pending.stream \in Streams \cup {None}

\* The console is the session's output and changes of state, all of them, once and in
\* order, whatever is batched on the way (debug.rs 457-490: a state change never
\* overtakes output that is still held back).
shown == FlattenSeq([k \in DOMAIN console |-> console[k].items])
Abstract == INSTANCE OutputStream WITH Items <- Outputs \cup Events, over <- (phase = "over")
ShowsTheSession == Abstract!Spec

\* The adapter is never left waiting for room in its pipe while the session lasts, even
\* when the session is itself waiting to write to the adapter (debug.rs 404-422).
AdapterIsDrained == (want # None) ~> (want = None \/ phase = "over")

\* Every request of the adapter's is answered, or the session ends (debug.rs 545, 637).
RequestsAreAnswered == (asked # {}) ~> (asked = {} \/ phase = "over")

\* Output is never withheld: what has happened is shown, however quiet the adapter then
\* is, or the session ends (debug.rs 473-495).
NothingIsWithheld == (Len(shown) < Len(happened)) ~> (shown = happened \/ phase = "over")
=============================================================================
