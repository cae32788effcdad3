---------------------------- MODULE LspTransport ----------------------------
(***************************************************************************)
(* One live language-server process and the tasks that move bytes in and   *)
(* out of it: crates/core/src/lsp/transport.rs.                            *)
(*                                                                         *)
(* The callers of Transport::request, the writer, the reader, the reaper   *)
(* and the caller of Transport::shutdown run concurrently and share the    *)
(* pending map (behind a mutex), the death slot (a watch channel) and the  *)
(* queue of outgoing frames.  The server process is the environment: it    *)
(* answers what it has read, in any order, more than once or unreadably,   *)
(* asks a question of its own, stops framing, closes either of its pipes   *)
(* or exits.  Payloads, deadlines and stderr are abstracted away.          *)
(***************************************************************************)
EXTENDS Naturals, Sequences

CONSTANTS
    Calls,      \* the ids of the ordinary requests, one allocate_id each
    Shutdown,   \* the id of the "shutdown" request of Transport::shutdown
    Cancelled,  \* the requests somebody cancels
    ShutsDown,  \* whether Transport::shutdown is ever called
    Answers,    \* what the server says to a request: a subset of AnswerKinds
    Nobody,     \* no id: the mutex is free, a frame carries no id
    MaxFrames,  \* bound on the frames the server writes to its stdout
    MaxFaults   \* bound on lost framing, read errors and closed pipes together

ASSUME ShutdownAssumption == Shutdown \notin Calls /\ Nobody \notin Calls \cup {Shutdown}
\* A result, an error, a message that cannot be read, and one whose id cannot be read either.
AnswerKinds == {"Ok", "ServerError", "Malformed", "Nameless"}
ASSUME CancelledAssumption == Cancelled \subseteq Calls /\ ShutsDown \in BOOLEAN
ASSUME AnswersAssumption == Answers \subseteq AnswerKinds
ASSUME BoundsAssumption == MaxFrames \in Nat /\ MaxFaults \in Nat

Requests == Calls \cup {Shutdown}

Alive == "alive"
DeathReasons == {"Exited", "Framing", "WriteFailed", "ReadFailed", "ShutDown"}

NoOutcome == [kind |-> "none", why |-> Alive]
Outcome(k) == [kind |-> k, why |-> Alive]
Died(reason) == [kind |-> "ServerDied", why |-> reason]
Outcomes == {Outcome(k) : k \in {"Ok", "ServerError", "Malformed", "TimedOut", "Cancelled"}}
            \cup {Died(reason) : reason \in DeathReasons \cup {"StdinClosed"}}

Frame(k, id) == [kind |-> k, id |-> id]
InFrames == {Frame(k, id) : k \in AnswerKinds, id \in Requests}
            \cup {Frame("request", Nobody), Frame("garbage", Nobody)}
Notification == Frame("notification", Nobody)   \* "exit" and "$/cancelRequest": never answered
OutFrames == {Frame("request", id) : id \in Requests} \cup {Frame("reply", Nobody), Notification}

Tasks == {"writer", "reader", "reaper", "closer"}

VARIABLES
    caller,     \* how far each request's caller is
    result,     \* what request_with_id returned to it
    lock,       \* the caller inside the check-and-insert critical section
    pending,    \* the pending map: ids whose oneshot sender is held there
    answer,     \* what was sent into each request's oneshot channel
    cancelled,  \* ids Transport::cancel was called for
    outOpen,    \* the one strong sender still exists
    outq,       \* frames queued for the writer
    task,       \* how far each background task, and shutdown, is
    cause,      \* the death a task is about to publish
    death,      \* the death slot
    dropped,    \* the Transport was dropped
    proc,       \* the process: running or exited
    killed,     \* kill_tree was called for it
    pipes,      \* the ends of its pipes the process holds open
    got,        \* requests the server has read
    spoken,     \* the answers it has written for each of them
    asked,      \* its own request: not asked, waiting or replied
    emitted,    \* how many frames it has written
    faults,     \* how many faults there have been
    stdout      \* frames written and not read yet

callerVars == <<caller, result, lock, cancelled>>
sharedVars == <<pending, answer>>
outVars == <<outOpen, outq>>
taskVars == <<task, cause, death, dropped>>
processVars == <<proc, killed, pipes>>
talkVars == <<got, spoken, asked>>
streamVars == <<emitted, faults, stdout>>
serverVars == <<processVars, talkVars, streamVars>>
vars == <<callerVars, sharedVars, outVars, taskVars, serverVars>>

Init ==
    /\ caller = [r \in Requests |-> "idle"]
    /\ result = [r \in Requests |-> NoOutcome]
    /\ lock = Nobody
    /\ pending = {}
    /\ answer = [r \in Requests |-> NoOutcome]
    /\ cancelled = {}
    /\ outOpen = TRUE
    /\ outq = <<>>
    /\ task = [t \in Tasks |-> IF t = "closer" THEN "idle" ELSE "run"]
    /\ cause = [t \in Tasks |-> Alive]
    /\ death = Alive
    /\ dropped = FALSE
    /\ proc = "running"
    /\ killed = FALSE
    /\ pipes = {"stdin", "stdout"}
    /\ got = {}
    /\ spoken = [r \in Requests |-> {}]
    /\ asked = "no"
    /\ emitted = 0
    /\ faults = 0
    /\ stdout = <<>>

-----------------------------------------------------------------------------
(* The callers: request_with_id, cancel                                    *)

\* Transport::send: the queue takes a frame while its sender and receiver exist.
CanSend == outOpen /\ task["writer"] # "end"
BestEffort(f) == outq' = IF CanSend THEN Append(outq, f) ELSE outq
SendRefused == Died(IF death = Alive THEN "StdinClosed" ELSE death)

\* Resolving a request: its future returns and nothing awaits its oneshot any more.
Resolve(r, outcome) ==
    /\ caller' = [caller EXCEPT ![r] = "done"]
    /\ result' = [result EXCEPT ![r] = outcome]

\* A request begins once; shutdown's own request begins only in shutdown.
CanBegin(r) ==
    /\ caller[r] = "idle" /\ ~dropped
    /\ r = Shutdown => task["closer"] = "asking"

\* Mutated: the death is read before the lock is taken.
CheckDeathUnlocked(r) ==
    /\ CanBegin(r)
    /\ IF death = Alive
       THEN caller' = [caller EXCEPT ![r] = "locked"] /\ UNCHANGED result
       ELSE Resolve(r, Died(death))
    /\ UNCHANGED <<lock, cancelled, sharedVars, outVars, taskVars, serverVars>>

\* Taking the pending lock and reading the death slot under it.
CheckDeath(r) ==
    /\ CanBegin(r) /\ lock = Nobody
    /\ \/ /\ death = Alive
          /\ caller' = [caller EXCEPT ![r] = "locked"]
          /\ lock' = r
          /\ UNCHANGED result
       \/ /\ death # Alive
          /\ Resolve(r, Died(death))
          /\ UNCHANGED lock
    /\ UNCHANGED <<cancelled, sharedVars, outVars, taskVars, serverVars>>

\* Inserting the waiter and releasing the lock.
Register(r) ==
    /\ caller[r] = "locked"
    /\ pending' = pending \cup {r}
    /\ caller' = [caller EXCEPT ![r] = "registered"]
    /\ lock' = Nobody
    /\ UNCHANGED <<result, answer, cancelled, outVars, taskVars, serverVars>>

\* Queueing the frame, or taking the waiter back when the queue is closed.
SendRequest(r) ==
    /\ caller[r] = "registered"
    /\ \/ /\ CanSend
          /\ outq' = Append(outq, Frame("request", r))
          /\ caller' = [caller EXCEPT ![r] = "waiting"]
          /\ UNCHANGED <<result, pending>>
       \/ /\ ~CanSend /\ lock = Nobody
          /\ pending' = pending \ {r}
          /\ Resolve(r, SendRefused)
          /\ UNCHANGED outq
    /\ UNCHANGED <<lock, answer, cancelled, outOpen, taskVars, serverVars>>

\* The three branches of the select: the answer, the deadline, the death.
TakeAnswer(r) ==
    /\ caller[r] = "waiting" /\ answer[r] # NoOutcome
    /\ Resolve(r, answer[r])
    /\ UNCHANGED <<lock, cancelled, sharedVars, outVars, taskVars, serverVars>>

TakeTimeout(r) ==
    /\ caller[r] = "waiting" /\ lock = Nobody
    /\ pending' = pending \ {r}
    /\ BestEffort(Notification)
    /\ Resolve(r, Outcome("TimedOut"))
    /\ UNCHANGED <<lock, answer, cancelled, outOpen, taskVars, serverVars>>

\* Mutated: a dead server is reported as an empty success.
TakeDeathAsEmpty(r) ==
    /\ caller[r] = "waiting" /\ death # Alive /\ lock = Nobody
    /\ pending' = pending \ {r}
    /\ Resolve(r, Outcome("Ok"))
    /\ UNCHANGED <<lock, answer, cancelled, outVars, taskVars, serverVars>>

TakeDeath(r) ==
    /\ caller[r] = "waiting" /\ death # Alive /\ lock = Nobody
    /\ pending' = pending \ {r}
    /\ Resolve(r, Died(death))
    /\ UNCHANGED <<lock, answer, cancelled, outVars, taskVars, serverVars>>

\* Transport::cancel by somebody who holds the id, here at most once; shutdown shares its id
\* with nobody.
Cancel(r) ==
    /\ r \in Cancelled /\ caller[r] # "idle" /\ r \notin cancelled /\ ~dropped /\ lock = Nobody
    /\ cancelled' = cancelled \cup {r}
    /\ pending' = pending \ {r}
    /\ answer' = IF r \in pending THEN [answer EXCEPT ![r] = Outcome("Cancelled")] ELSE answer
    /\ BestEffort(Notification)
    /\ UNCHANGED <<caller, result, lock, outOpen, taskVars, serverVars>>

-----------------------------------------------------------------------------
(* publish_death and the kills                                             *)

\* The faults of the environment, counted.
Fault == faults < MaxFaults /\ faults' = faults + 1

\* A task has found a cause of death and calls publish_death with it.
Finds(t, reason) ==
    /\ task' = [task EXCEPT ![t] = "publish"]
    /\ cause' = [cause EXCEPT ![t] = reason]

\* Mutated: the last death wins.
PublishLastDeath(t) ==
    /\ task[t] = "publish"
    /\ death' = cause[t]
    /\ task' = [task EXCEPT ![t] = "drain"]
    /\ cause' = [cause EXCEPT ![t] = Alive]
    /\ UNCHANGED <<dropped, callerVars, sharedVars, outVars, serverVars>>

\* The first half of publish_death: the first death wins.
PublishDeath(t) ==
    /\ task[t] = "publish"
    /\ death' = IF death = Alive THEN cause[t] ELSE death
    /\ task' = [task EXCEPT ![t] = "drain"]
    /\ cause' = [cause EXCEPT ![t] = Alive]
    /\ UNCHANGED <<dropped, callerVars, sharedVars, outVars, serverVars>>

\* Mutated: a write failure is taken for the end of the process.
DrainWithoutKill(t) ==
    /\ task[t] = "drain" /\ lock = Nobody
    /\ answer' = [r \in Requests |-> IF r \in pending THEN Died(death) ELSE answer[r]]
    /\ pending' = {}
    /\ task' = [task EXCEPT ![t] = IF t = "reader" THEN "kill" ELSE "end"]
    /\ UNCHANGED <<cause, death, dropped, callerVars, outVars, serverVars>>

\* The second half: every waiter in the map is failed with the published death.
Drain(t) ==
    /\ task[t] = "drain" /\ lock = Nobody
    /\ answer' = [r \in Requests |-> IF r \in pending THEN Died(death) ELSE answer[r]]
    /\ pending' = {}
    /\ task' = [task EXCEPT ![t] = IF t \in {"writer", "reader"} THEN "kill" ELSE "end"]
    /\ UNCHANGED <<cause, death, dropped, callerVars, outVars, serverVars>>

\* kill_tree_async.  The writer and the reader return after it, and their end of the pipe and
\* the frames in it go with them; shutdown publishes the death after it.
KillTree(t) ==
    /\ task[t] = "kill"
    /\ killed' = TRUE
    /\ \/ /\ t = "closer"
          /\ Finds(t, "ShutDown")
       \/ /\ t # "closer"
          /\ task' = [task EXCEPT ![t] = "end"]
          /\ UNCHANGED cause
    /\ outq' = IF t = "writer" THEN <<>> ELSE outq
    /\ stdout' = IF t = "reader" THEN <<>> ELSE stdout
    /\ UNCHANGED <<death, dropped, callerVars, sharedVars, outOpen, proc, pipes, talkVars,
                   emitted, faults>>

-----------------------------------------------------------------------------
(* write_loop                                                              *)

WriteFrame ==
    /\ task["writer"] = "run" /\ outq # <<>>
    /\ proc = "running" /\ "stdin" \in pipes
    /\ outq' = Tail(outq)
    /\ got' = IF Head(outq).kind = "request" THEN got \cup {Head(outq).id} ELSE got
    /\ asked' = IF Head(outq).kind = "reply" THEN "replied" ELSE asked
    /\ UNCHANGED <<outOpen, callerVars, sharedVars, taskVars, processVars, spoken, streamVars>>

WriteFails ==
    /\ task["writer"] = "run" /\ outq # <<>>
    /\ proc = "exited" \/ "stdin" \notin pipes
    /\ outq' = Tail(outq)
    /\ Finds("writer", "WriteFailed")
    /\ UNCHANGED <<outOpen, death, dropped, callerVars, sharedVars, serverVars>>

\* The queue is closed and drained: dropping ChildStdin is the server's EOF.
WriterEnds ==
    /\ task["writer"] = "run" /\ outq = <<>> /\ ~outOpen
    /\ task' = [task EXCEPT !["writer"] = "end"]
    /\ UNCHANGED <<cause, death, dropped, callerVars, sharedVars, outVars, serverVars>>

-----------------------------------------------------------------------------
(* read_loop and dispatch                                                  *)

ReadFrame == task["reader"] = "run" /\ stdout # <<>> /\ stdout' = Tail(stdout)

\* classify and recover_id: the id a message is about, if it has one that can be read.
RecoveredId(f) == IF f.kind = "Nameless" THEN Nobody ELSE f.id

\* Mutated: a response that cannot be read is dropped with its id.
DispatchReadable ==
    /\ ReadFrame /\ Head(stdout).kind \in Answers /\ lock = Nobody
    /\ LET r == RecoveredId(Head(stdout)) IN
       IF r \in pending /\ Head(stdout).kind # "Malformed"
       THEN /\ answer' = [answer EXCEPT ![r] = Outcome(Head(stdout).kind)]
            /\ pending' = pending \ {r}
       ELSE UNCHANGED sharedVars
    /\ UNCHANGED <<callerVars, outVars, taskVars, processVars, talkVars, emitted, faults>>

\* A response, readable or not: the waiter registered under its id is woken and removed; one
\* without an id, or with an id nobody waits for, is dropped.
DispatchAnswer ==
    /\ ReadFrame /\ Head(stdout).kind \in Answers /\ lock = Nobody
    /\ LET r == RecoveredId(Head(stdout)) IN
       /\ answer' = IF r \in pending
                    THEN [answer EXCEPT ![r] = Outcome(Head(stdout).kind)] ELSE answer
       /\ pending' = pending \ {r}
    /\ UNCHANGED <<callerVars, outVars, taskVars, processVars, talkVars, emitted, faults>>

\* Mutated: a method this client does not implement is ignored.
IgnoreRequest ==
    /\ ReadFrame /\ Head(stdout).kind = "request"
    /\ UNCHANGED <<callerVars, sharedVars, outVars, taskVars, processVars, talkVars, emitted,
                   faults>>

\* A request of the server is always answered, through the weak sender.
DispatchRequest ==
    /\ ReadFrame /\ Head(stdout).kind = "request"
    /\ BestEffort(Frame("reply", Nobody))
    /\ UNCHANGED <<outOpen, callerVars, sharedVars, taskVars, processVars, talkVars, emitted,
                   faults>>

\* A chunk holding a framing error: the frames before it in the chunk are lost with it.
ReadGarbage ==
    /\ task["reader"] = "run"
    /\ \E i \in 1..Len(stdout) :
          /\ stdout[i].kind = "garbage"
          /\ stdout' = SubSeq(stdout, i + 1, Len(stdout))
    /\ Finds("reader", "Framing")
    /\ UNCHANGED <<death, dropped, callerVars, sharedVars, outVars, processVars, talkVars,
                   emitted, faults>>

ReadError ==
    /\ task["reader"] = "run" /\ Fault
    /\ Finds("reader", "ReadFailed")
    /\ UNCHANGED <<death, dropped, callerVars, sharedVars, outVars, processVars, talkVars,
                   emitted, stdout>>

\* EOF ends the reader without a death.
ReadEof ==
    /\ task["reader"] = "run" /\ stdout = <<>>
    /\ proc = "exited" \/ "stdout" \notin pipes
    /\ task' = [task EXCEPT !["reader"] = "end"]
    /\ UNCHANGED <<cause, death, dropped, callerVars, sharedVars, outVars, serverVars>>

-----------------------------------------------------------------------------
(* reap, shutdown, Drop                                                    *)

\* Mutated: the exit is awaited and told to nobody.
ReapSilently ==
    /\ task["reaper"] = "run" /\ proc = "exited"
    /\ task' = [task EXCEPT !["reaper"] = "end"]
    /\ UNCHANGED <<cause, death, dropped, callerVars, sharedVars, outVars, serverVars>>

Reap ==
    /\ task["reaper"] = "run" /\ proc = "exited"
    /\ Finds("reaper", "Exited")
    /\ UNCHANGED <<death, dropped, callerVars, sharedVars, outVars, serverVars>>

ShutdownAsks ==
    /\ ShutsDown /\ task["closer"] = "idle" /\ ~dropped
    /\ task' = [task EXCEPT !["closer"] = "asking"]
    /\ UNCHANGED <<cause, death, dropped, callerVars, sharedVars, outVars, serverVars>>

ShutdownNotifies ==
    /\ task["closer"] = "asking" /\ caller[Shutdown] = "done"
    /\ BestEffort(Notification)
    /\ task' = [task EXCEPT !["closer"] = "closing"]
    /\ UNCHANGED <<outOpen, cause, death, dropped, callerVars, sharedVars, serverVars>>

ShutdownClosesStdin ==
    /\ task["closer"] = "closing"
    /\ outOpen' = FALSE
    /\ task' = [task EXCEPT !["closer"] = "grace"]
    /\ UNCHANGED <<outq, cause, death, dropped, callerVars, sharedVars, serverVars>>

ShutdownSeesDeath ==
    /\ task["closer"] = "grace" /\ death # Alive
    /\ Finds("closer", "ShutDown")
    /\ UNCHANGED <<death, dropped, callerVars, sharedVars, outVars, serverVars>>

\* Mutated: a server that ignores exit and EOF is given up on and left running.
GraceExpiresUnkilled ==
    /\ task["closer"] = "grace" /\ death = Alive
    /\ Finds("closer", "ShutDown")
    /\ UNCHANGED <<death, dropped, callerVars, sharedVars, outVars, serverVars>>

GraceExpires ==
    /\ task["closer"] = "grace" /\ death = Alive
    /\ task' = [task EXCEPT !["closer"] = "kill"]
    /\ UNCHANGED <<cause, death, dropped, callerVars, sharedVars, outVars, serverVars>>

\* The last Arc goes: no call is in flight, and the process is killed unless a death is known.
DropTransport ==
    /\ ~dropped
    /\ \A r \in Requests : caller[r] \in {"idle", "done"}
    /\ task["closer"] \in {"idle", "end"}
    /\ dropped' = TRUE
    /\ outOpen' = FALSE
    /\ killed' = (killed \/ death = Alive)
    /\ UNCHANGED <<outq, task, cause, death, callerVars, sharedVars, proc, pipes, talkVars,
                   streamVars>>

-----------------------------------------------------------------------------
(* The server process                                                      *)

\* What a server writes into a pipe nobody reads any more is lost.
CanSpeak ==
    /\ proc = "running" /\ "stdout" \in pipes /\ task["reader"] # "end"
    /\ emitted < MaxFrames
Writes(f) == stdout' = Append(stdout, f) /\ emitted' = emitted + 1

ServerAnswers(r, k) ==
    /\ CanSpeak /\ r \in got
    /\ Writes(Frame(k, r))
    /\ spoken' = [spoken EXCEPT ![r] = @ \cup {k}]
    /\ UNCHANGED <<callerVars, sharedVars, outVars, taskVars, processVars, got, asked, faults>>

ServerAsks ==
    /\ CanSpeak /\ asked = "no"
    /\ Writes(Frame("request", Nobody))
    /\ asked' = "waiting"
    /\ UNCHANGED <<callerVars, sharedVars, outVars, taskVars, processVars, got, spoken, faults>>

ServerGarbles ==
    /\ CanSpeak /\ Fault
    /\ Writes(Frame("garbage", Nobody))
    /\ UNCHANGED <<callerVars, sharedVars, outVars, taskVars, processVars, talkVars>>

ServerClosesPipe ==
    /\ proc = "running" /\ Fault
    /\ \E p \in pipes : pipes' = pipes \ {p}
    /\ UNCHANGED <<callerVars, sharedVars, outVars, taskVars, proc, killed, talkVars, emitted,
                   stdout>>

\* It exits by itself, on exit, on EOF, or because it was killed.
ServerExits ==
    /\ proc = "running"
    /\ proc' = "exited"
    /\ UNCHANGED <<callerVars, sharedVars, outVars, taskVars, killed, pipes, talkVars,
                   streamVars>>

-----------------------------------------------------------------------------
CallerStep(r) ==
    \/ CheckDeath(r)
    \/ Register(r)
    \/ SendRequest(r)
    \/ TakeAnswer(r)
    \/ TakeDeath(r)

WriterStep == WriteFrame \/ WriteFails \/ WriterEnds
ReaderStep == DispatchAnswer \/ DispatchRequest \/ ReadGarbage \/ ReadEof
CloserStep == ShutdownNotifies \/ ShutdownClosesStdin \/ ShutdownSeesDeath \/ GraceExpires
DeathStep(t) == PublishDeath(t) \/ Drain(t) \/ KillTree(t)

ServerStep ==
    \/ \E r \in Requests, k \in Answers : ServerAnswers(r, k)
    \/ ServerAsks
    \/ ServerGarbles
    \/ ServerClosesPipe
    \/ ServerExits

Next ==
    \/ \E r \in Requests : CallerStep(r) \/ TakeTimeout(r) \/ Cancel(r)
    \/ \E t \in Tasks : DeathStep(t)
    \/ WriterStep
    \/ ReaderStep
    \/ ReadError
    \/ Reap
    \/ ShutdownAsks
    \/ CloserStep
    \/ DropTransport
    \/ ServerStep

Spec == Init /\ [][Next]_vars

(* Every task the runtime polls makes progress, the deadline of shutdown's *)
(* own request fires, and a killed process exits.  Nothing is assumed of   *)
(* the deadline of an ordinary request nor of the server, which need not   *)
(* read: a write to it may block for as long as it runs.                   *)
Fairness ==
    /\ \A r \in Calls : WF_vars(caller[r] # "idle" /\ CallerStep(r))
    /\ WF_vars(CallerStep(Shutdown) \/ TakeTimeout(Shutdown) \/ CloserStep \/ DeathStep("closer"))
    /\ WF_vars(WriteFails \/ WriterEnds \/ DeathStep("writer"))
    /\ WF_vars(ReaderStep \/ DeathStep("reader"))
    /\ WF_vars(Reap \/ DeathStep("reaper"))
    /\ WF_vars(killed /\ ServerExits)

FairSpec == Spec /\ Fairness

-----------------------------------------------------------------------------
(* Properties                                                              *)

CallerTypeOK ==
    /\ caller \in [Requests -> {"idle", "locked", "registered", "waiting", "done"}]
    /\ result \in [Requests -> Outcomes \cup {NoOutcome}]
    /\ lock \in Requests \cup {Nobody}
    /\ pending \subseteq Requests
    /\ answer \in [Requests -> Outcomes \cup {NoOutcome}]
    /\ cancelled \subseteq Requests

TaskTypeOK ==
    /\ outOpen \in BOOLEAN
    /\ outq \in Seq(OutFrames)
    /\ task \in [Tasks -> {"idle", "run", "asking", "closing", "grace", "publish", "drain",
                          "kill", "end"}]
    /\ cause \in [Tasks -> DeathReasons \cup {Alive}]
    /\ death \in DeathReasons \cup {Alive}
    /\ dropped \in BOOLEAN

ServerTypeOK ==
    /\ proc \in {"running", "exited"}
    /\ killed \in BOOLEAN
    /\ pipes \subseteq {"stdin", "stdout"}
    /\ got \subseteq Requests
    /\ spoken \in [Requests -> SUBSET AnswerKinds]
    /\ asked \in {"no", "waiting", "replied"}
    /\ emitted \in Nat
    /\ faults \in Nat
    /\ stdout \in Seq(InFrames)

\* The mutex is held exactly by the caller between reading the death slot and inserting.
MutexHeld == \A r \in Requests : lock = r <=> caller[r] = "locked"

\* The types of the variables, and who holds the pending mutex.
TypeOK == CallerTypeOK /\ TaskTypeOK /\ ServerTypeOK /\ MutexHeld

\* A death that has been published and drained leaves no waiter in the map, and none can enter
\* it again: nobody would ever fail it.
NoWaiterStranded ==
    death # Alive /\ (\A t \in Tasks : task[t] # "drain") => pending = {}

\* The answers whose id can be read.
Named == [r \in Requests |-> spoken[r] \ {"Nameless"}]

\* What the server wrote for a waiting request is on its way to it or has woken it, readable or
\* not, while the stream can be read and the message still names the request.  An answer that
\* names none is dropped by dispatch, and its caller is left to its own deadline (recover_id:
\* "an unrecoverable id is still a legitimate drop").
NoAnswerIsLost ==
    \A r \in Requests :
        caller[r] = "waiting" /\ Named[r] # {} /\ task["reader"] = "run"
            => \/ answer[r] # NoOutcome
               \/ \E i \in 1..Len(stdout) : RecoveredId(stdout[i]) = r

\* Everybody who is told that the server died is told of the same, first, death.
TrueCauseReported ==
    \A r \in Requests : \A o \in {answer[r], result[r]} :
        o.kind = "ServerDied" /\ o.why # "StdinClosed" => o.why = death

\* No path leaves a server behind: once it is given up on, its process has ended, its tree was
\* killed, or a task that is about to kill it still runs.
NoProcessLeftBehind ==
    death # Alive \/ dropped
        => \/ proc = "exited" \/ killed
           \/ \E t \in {"writer", "reader"} : task[t] \in {"publish", "drain", "kill"}

\* A server that exits wakes every caller, without the help of any request's own deadline.
ExitWakesEveryWaiter ==
    \A r \in Requests : (proc = "exited" /\ caller[r] # "idle") ~> (caller[r] = "done")

\* A question of a server that reads its input is answered unless the connection ends: a server
\* left waiting hangs.
ServerQuestionAnswered ==
    WF_vars(WriteFrame) =>
        (asked = "waiting" ~> (asked = "replied" \/ death # Alive \/ ~outOpen
                               \/ task["reader"] = "end" \/ proc = "exited"))

\* A shutdown that has been called returns, with the process gone and its death known.
ShutdownEnds ==
    task["closer"] = "asking" ~> (task["closer"] = "end" /\ proc = "exited" /\ death # Alive)

\* A stdout that can no longer be read publishes a death rather than going quiet.
DeafServerIsDead == task["reader"] = "end" ~> death # Alive

\* The callers see a RequestService: the death slot, the closed input and the results are the
\* ones of the transport, and an answer that names no request is none.  The input counts as
\* closed when the sender is gone or the writer is.
Service == INSTANCE RequestService WITH
    Answers <- Answers \ {"Nameless"}, spoken <- Named, withdrawn <- cancelled,
    closed <- ~CanSend

\* What the four tasks do together is the service the callers rely on.
ServiceRefined == Service!Spec

=============================================================================
