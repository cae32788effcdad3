------------------------- MODULE LspTransportProofs -------------------------
(***************************************************************************)
(* What LspTransport guarantees for every set of callers and every bound.  *)
(***************************************************************************)
EXTENDS LspTransport, TLAPS

\* The order of publish_death: a task that publishes has found a cause, a task that drains has
\* published one.
PublishOrder ==
    \A t \in Tasks :
        /\ task[t] = "publish" => cause[t] # Alive
        /\ task[t] = "drain" => death # Alive

LEMMA InitTypeOK == Init => TypeOK
<1> SUFFICES ASSUME Init PROVE TypeOK
  OBVIOUS
<1>1. CallerTypeOK
  BY DEF Init, CallerTypeOK
<1>2. TaskTypeOK
  <2>1. task \in [Tasks -> {"idle", "run"}]
    BY DEF Init
  <2>2. outq \in Seq(OutFrames)
    BY DEF Init
  <2> QED
    BY <2>1, <2>2 DEF Init, TaskTypeOK
<1>3. ServerTypeOK
  <2>1. stdout \in Seq(InFrames)
    BY DEF Init
  <2> QED
    BY <2>1 DEF Init, ServerTypeOK
<1>4. MutexHeld
  BY ShutdownAssumption DEF Init, MutexHeld, Requests
<1> QED
  BY <1>1, <1>2, <1>3, <1>4 DEF TypeOK

\* The groups of variables that an action leaves alone keep their types.
LEMMA CallerTypeStutter ==
    ASSUME CallerTypeOK, UNCHANGED <<callerVars, sharedVars>> PROVE CallerTypeOK'
BY DEF CallerTypeOK, callerVars, sharedVars

LEMMA TaskTypeStutter ==
    ASSUME TaskTypeOK, UNCHANGED <<outVars, taskVars>> PROVE TaskTypeOK'
BY DEF TaskTypeOK, outVars, taskVars

LEMMA ServerTypeStutter ==
    ASSUME ServerTypeOK, UNCHANGED serverVars PROVE ServerTypeOK'
BY DEF ServerTypeOK, serverVars, processVars, talkVars, streamVars

LEMMA MutexStutter ==
    ASSUME MutexHeld, UNCHANGED callerVars PROVE MutexHeld'
BY DEF MutexHeld, callerVars

\* Resolving a request that exists with an outcome keeps the types of the callers.
LEMMA ResolveType ==
    ASSUME CallerTypeOK, NEW r \in Requests, NEW o \in Outcomes, Resolve(r, o)
    PROVE  /\ caller' \in [Requests -> {"idle", "locked", "registered", "waiting", "done"}]
           /\ result' \in [Requests -> Outcomes \cup {NoOutcome}]
BY DEF CallerTypeOK, Resolve

\* What dispatch does with the first frame when it is an answer: one whose id cannot be recovered
\* changes nothing, any other is sent to the waiter registered under its id, if there is one.
LEMMA AnswerTaken ==
    ASSUME CallerTypeOK, ServerTypeOK, DispatchAnswer
    PROVE  LET f == Head(stdout) IN
           /\ stdout # <<>> /\ stdout' = Tail(stdout) /\ f \in InFrames
           /\ f.kind \in AnswerKinds /\ f.id \in Requests
           /\ \/ f.kind = "Nameless" /\ RecoveredId(f) = Nobody /\ UNCHANGED <<pending, answer>>
              \/ /\ f.kind # "Nameless" /\ RecoveredId(f) = f.id
                 /\ Outcome(f.kind) \in Outcomes /\ f.kind # "ServerDied"
                 /\ pending' = pending \ {f.id}
                 /\ answer' = IF f.id \in pending
                              THEN [answer EXCEPT ![f.id] = Outcome(f.kind)] ELSE answer
<1> DEFINE f == Head(stdout)
<1>1. stdout # <<>> /\ stdout' = Tail(stdout) /\ f \in InFrames
  BY DEF DispatchAnswer, ReadFrame, ServerTypeOK
<1>2. f.kind \in AnswerKinds
  BY AnswersAssumption DEF DispatchAnswer
<1>3. f.id \in Requests
  BY <1>1, <1>2 DEF InFrames, Frame, AnswerKinds
<1>4. /\ answer' = IF RecoveredId(f) \in pending
                   THEN [answer EXCEPT ![RecoveredId(f)] = Outcome(f.kind)] ELSE answer
      /\ pending' = pending \ {RecoveredId(f)}
  BY DEF DispatchAnswer
<1>5. Nobody \notin pending
  BY ShutdownAssumption DEF CallerTypeOK, Requests
<1> HIDE DEF f
<1>6. CASE f.kind = "Nameless"
  <2>1. RecoveredId(f) = Nobody
    BY <1>6 DEF RecoveredId
  <2>2. UNCHANGED <<pending, answer>>
    BY <1>4, <1>5, <2>1
  <2> QED
    BY <1>1, <1>2, <1>3, <1>6, <2>1, <2>2 DEF f
<1>7. CASE f.kind # "Nameless"
  <2>1. RecoveredId(f) = f.id
    BY <1>7 DEF RecoveredId
  <2>2. Outcome(f.kind) \in Outcomes /\ f.kind # "ServerDied"
    BY <1>2, <1>7 DEF AnswerKinds, Outcomes
  <2> QED
    BY <1>1, <1>2, <1>3, <1>4, <1>7, <2>1, <2>2 DEF f
<1> QED
  BY <1>6, <1>7

LEMMA CallerTypeStep == TypeOK /\ PublishOrder /\ [Next]_vars => CallerTypeOK'
<1> SUFFICES ASSUME TypeOK, PublishOrder, [Next]_vars PROVE CallerTypeOK'
  OBVIOUS
<1> USE DEF TypeOK
<1>a. death # Alive => Died(death) \in Outcomes
  BY DEF TaskTypeOK, Outcomes, Died
<1>b. SendRefused \in Outcomes
  BY DEF TaskTypeOK, SendRefused, Outcomes, Died, Alive, DeathReasons
<1>1. ASSUME NEW r \in Requests, CheckDeath(r) PROVE CallerTypeOK'
  <2>1. CASE death = Alive
    BY <1>1, <2>1 DEF CheckDeath, CallerTypeOK, sharedVars
  <2>2. CASE death # Alive
    BY <1>1, <1>a, <2>2, ResolveType DEF CheckDeath, CallerTypeOK, sharedVars
  <2> QED
    BY <2>1, <2>2
<1>2. ASSUME NEW r \in Requests, Register(r) PROVE CallerTypeOK'
  BY <1>2 DEF Register, CallerTypeOK
<1>3. ASSUME NEW r \in Requests, SendRequest(r) PROVE CallerTypeOK'
  <2>1. CASE CanSend
    BY <1>3, <2>1 DEF SendRequest, CallerTypeOK
  <2>2. CASE ~CanSend
    BY <1>3, <1>b, <2>2, ResolveType DEF SendRequest, CallerTypeOK
  <2> QED
    BY <2>1, <2>2
<1>4. ASSUME NEW r \in Requests, TakeAnswer(r) PROVE CallerTypeOK'
  <2>1. answer[r] \in Outcomes
    BY <1>4 DEF TakeAnswer, CallerTypeOK
  <2> QED
    BY <1>4, <2>1, ResolveType DEF TakeAnswer, CallerTypeOK, sharedVars
<1>5. ASSUME NEW r \in Requests, TakeDeath(r) PROVE CallerTypeOK'
  BY <1>5, <1>a, ResolveType DEF TakeDeath, CallerTypeOK
<1>6. ASSUME NEW r \in Requests, TakeTimeout(r) PROVE CallerTypeOK'
  <2>1. Outcome("TimedOut") \in Outcomes
    BY DEF Outcomes
  <2> QED
    BY <1>6, <2>1, ResolveType DEF TakeTimeout, CallerTypeOK
<1>7. ASSUME NEW r \in Requests, Cancel(r) PROVE CallerTypeOK'
  <2>1. Outcome("Cancelled") \in Outcomes
    BY DEF Outcomes
  <2> QED
    BY <1>7, <2>1 DEF Cancel, CallerTypeOK
<1>8. ASSUME NEW t \in Tasks, Drain(t) PROVE CallerTypeOK'
  <2>1. Died(death) \in Outcomes
    BY <1>8, <1>a DEF Drain, PublishOrder
  <2> QED
    BY <1>8, <2>1 DEF Drain, CallerTypeOK, callerVars
<1>9. ASSUME DispatchAnswer PROVE CallerTypeOK'
  <2>1. /\ pending' \subseteq pending /\ UNCHANGED callerVars
        /\ \/ answer' = answer
           \/ \E r \in Requests, o \in Outcomes : answer' = [answer EXCEPT ![r] = o]
    BY <1>9, AnswerTaken DEF DispatchAnswer
  <2> QED
    BY <2>1 DEF CallerTypeOK, callerVars
<1>10. ASSUME \/ UNCHANGED vars
              \/ \E t \in Tasks : PublishDeath(t) \/ KillTree(t)
              \/ WriterStep \/ DispatchRequest \/ ReadGarbage \/ ReadEof \/ ReadError
              \/ Reap \/ ShutdownAsks \/ CloserStep \/ DropTransport \/ ServerStep
       PROVE CallerTypeOK'
  <2>1. UNCHANGED <<callerVars, sharedVars>>
    BY <1>10 DEF vars, PublishDeath, KillTree, WriterStep, WriteFrame, WriteFails, WriterEnds,
       DispatchRequest, ReadGarbage, ReadEof, ReadError, Reap, ShutdownAsks, CloserStep,
       ShutdownNotifies, ShutdownClosesStdin, ShutdownSeesDeath, GraceExpires, DropTransport,
       ServerStep, ServerAnswers, ServerAsks, ServerGarbles, ServerClosesPipe, ServerExits
  <2> QED
    BY <2>1, CallerTypeStutter
<1> QED
  BY <1>1, <1>2, <1>3, <1>4, <1>5, <1>6, <1>7, <1>8, <1>9, <1>10
     DEF Next, CallerStep, DeathStep, ReaderStep

\* The order of publish_death is kept by every step.
LEMMA PublishOrderStep == TypeOK /\ PublishOrder /\ [Next]_vars => PublishOrder'
<1> SUFFICES ASSUME TypeOK, PublishOrder, [Next]_vars PROVE PublishOrder'
  OBVIOUS
<1> USE DEF TypeOK, TaskTypeOK, PublishOrder
<1>a. ASSUME NEW t \in Tasks, NEW reason \in DeathReasons, Finds(t, reason), death' = death
      PROVE PublishOrder'
  BY <1>a DEF Finds, DeathReasons, Alive
<1>1. ASSUME NEW t \in Tasks, PublishDeath(t) PROVE PublishOrder'
  BY <1>1 DEF PublishDeath
<1>2. ASSUME NEW t \in Tasks, Drain(t) PROVE PublishOrder'
  BY <1>2 DEF Drain
<1>3. ASSUME NEW t \in Tasks, KillTree(t) PROVE PublishOrder'
  BY <1>3, <1>a DEF KillTree, DeathReasons
<1>4. CASE WriteFails \/ ReadGarbage \/ ReadError \/ Reap \/ ShutdownSeesDeath
  BY <1>4, <1>a DEF WriteFails, ReadGarbage, ReadError, Reap, ShutdownSeesDeath, Tasks,
     DeathReasons
<1>5. CASE WriterEnds \/ ReadEof \/ ShutdownAsks \/ ShutdownNotifies \/ ShutdownClosesStdin
           \/ GraceExpires
  BY <1>5 DEF WriterEnds, ReadEof, ShutdownAsks, ShutdownNotifies, ShutdownClosesStdin,
     GraceExpires
<1>6. ASSUME \/ UNCHANGED vars
             \/ \E r \in Requests : CallerStep(r) \/ TakeTimeout(r) \/ Cancel(r)
             \/ WriteFrame \/ DispatchAnswer \/ DispatchRequest \/ DropTransport \/ ServerStep
      PROVE PublishOrder'
  <2>1. UNCHANGED <<task, cause, death>>
    BY <1>6 DEF vars, taskVars, CallerStep, CheckDeath, Register, SendRequest, TakeAnswer,
       TakeDeath, TakeTimeout, Cancel, WriteFrame, DispatchAnswer, DispatchRequest,
       DropTransport, ServerStep, ServerAnswers, ServerAsks, ServerGarbles, ServerClosesPipe,
       ServerExits
  <2> QED
    BY <2>1
<1> QED
  BY <1>1, <1>2, <1>3, <1>4, <1>5, <1>6
     DEF Next, DeathStep, WriterStep, ReaderStep, CloserStep

LEMMA TaskTypeStep == TypeOK /\ [Next]_vars => TaskTypeOK'
<1> SUFFICES ASSUME TypeOK, [Next]_vars PROVE TaskTypeOK'
  OBVIOUS
<1> USE DEF TypeOK
<1>a. ASSUME NEW t \in Tasks, NEW reason \in DeathReasons, Finds(t, reason),
             UNCHANGED <<outOpen, death, dropped>>, outq' \in Seq(OutFrames)
      PROVE TaskTypeOK'
  BY <1>a DEF Finds, TaskTypeOK
<1>b. ASSUME NEW f \in OutFrames, BestEffort(f) PROVE outq' \in Seq(OutFrames)
  BY <1>b DEF BestEffort, TaskTypeOK
<1>c. Notification \in OutFrames /\ Frame("reply", Nobody) \in OutFrames
  BY DEF OutFrames
<1>d. outq # <<>> => Tail(outq) \in Seq(OutFrames)
  BY DEF TaskTypeOK
<1>1. ASSUME NEW r \in Requests, SendRequest(r) PROVE TaskTypeOK'
  <2>1. Frame("request", r) \in OutFrames
    BY DEF OutFrames
  <2>2. Append(outq, Frame("request", r)) \in Seq(OutFrames)
    BY <2>1 DEF TaskTypeOK
  <2> QED
    BY <1>1, <2>2 DEF SendRequest, TaskTypeOK, taskVars
<1>2. ASSUME \/ \E r \in Requests : TakeTimeout(r) \/ Cancel(r)
             \/ DispatchRequest
      PROVE TaskTypeOK'
  BY <1>2, <1>b, <1>c DEF TakeTimeout, Cancel, DispatchRequest, TaskTypeOK, taskVars
<1>3. CASE ShutdownNotifies
  BY <1>3, <1>b, <1>c DEF ShutdownNotifies, TaskTypeOK
<1>4. ASSUME NEW t \in Tasks, PublishDeath(t) PROVE TaskTypeOK'
  BY <1>4 DEF PublishDeath, TaskTypeOK, outVars
<1>5. ASSUME NEW t \in Tasks, Drain(t) PROVE TaskTypeOK'
  BY <1>5 DEF Drain, TaskTypeOK, outVars
<1>6. ASSUME NEW t \in Tasks, KillTree(t) PROVE TaskTypeOK'
  <2>1. outq' \in Seq(OutFrames)
    BY <1>6 DEF KillTree, TaskTypeOK
  <2>2. "ShutDown" \in DeathReasons
    BY DEF DeathReasons
  <2>3. CASE Finds(t, "ShutDown")
    BY <1>6, <1>a, <2>1, <2>2, <2>3 DEF KillTree
  <2>4. CASE task' = [task EXCEPT ![t] = "end"] /\ UNCHANGED cause
    BY <1>6, <2>1, <2>4 DEF KillTree, TaskTypeOK
  <2> QED
    BY <1>6, <2>3, <2>4 DEF KillTree
<1>7. CASE WriteFrame
  BY <1>7, <1>d DEF WriteFrame, TaskTypeOK, taskVars
<1>8. CASE WriteFails
  BY <1>8, <1>a, <1>d DEF WriteFails, Tasks, DeathReasons
<1>9. CASE ReadGarbage \/ ReadError \/ Reap \/ ShutdownSeesDeath
  <2>1. outq' \in Seq(OutFrames) /\ UNCHANGED <<outOpen, death, dropped>>
    BY <1>9 DEF ReadGarbage, ReadError, Reap, ShutdownSeesDeath, TaskTypeOK, outVars
  <2> QED
    BY <1>9, <1>a, <2>1 DEF ReadGarbage, ReadError, Reap, ShutdownSeesDeath, Tasks,
       DeathReasons
<1>10. CASE WriterEnds \/ ReadEof \/ ShutdownAsks \/ ShutdownClosesStdin \/ GraceExpires
  BY <1>10 DEF WriterEnds, ReadEof, ShutdownAsks, ShutdownClosesStdin, GraceExpires,
     TaskTypeOK, outVars
<1>11. CASE DropTransport
  BY <1>11 DEF DropTransport, TaskTypeOK
<1>12. ASSUME \/ UNCHANGED vars
              \/ \E r \in Requests : CheckDeath(r) \/ Register(r) \/ TakeAnswer(r) \/ TakeDeath(r)
              \/ DispatchAnswer \/ ServerStep
       PROVE TaskTypeOK'
  <2>1. UNCHANGED <<outVars, taskVars>>
    BY <1>12 DEF vars, CheckDeath, Register, TakeAnswer, TakeDeath, DispatchAnswer, ServerStep,
       ServerAnswers, ServerAsks, ServerGarbles, ServerClosesPipe, ServerExits
  <2> QED
    BY <2>1, TaskTypeStutter
<1> QED
  BY <1>1, <1>2, <1>3, <1>4, <1>5, <1>6, <1>7, <1>8, <1>9, <1>10, <1>11, <1>12
     DEF Next, CallerStep, DeathStep, WriterStep, ReaderStep, CloserStep

\* A frame the server may write keeps its stream a stream.
LEMMA WritesType ==
    ASSUME ServerTypeOK, NEW f \in InFrames, Writes(f)
    PROVE  stdout' \in Seq(InFrames) /\ emitted' \in Nat
BY DEF ServerTypeOK, Writes

LEMMA ServerTypeStep == TypeOK /\ [Next]_vars => ServerTypeOK'
<1> SUFFICES ASSUME TypeOK, [Next]_vars PROVE ServerTypeOK'
  OBVIOUS
<1> USE DEF TypeOK
<1>a. ReadFrame => stdout' \in Seq(InFrames)
  BY DEF ReadFrame, ServerTypeOK
<1>b. Fault => faults' \in Nat
  BY DEF Fault, ServerTypeOK
<1>1. ASSUME NEW t \in Tasks, KillTree(t) PROVE ServerTypeOK'
  <2>1. stdout' \in Seq(InFrames)
    BY <1>1 DEF KillTree, ServerTypeOK
  <2> QED
    BY <1>1, <2>1 DEF KillTree, ServerTypeOK, talkVars
<1>2. CASE WriteFrame
  <2>1. Head(outq) \in OutFrames
    BY <1>2 DEF WriteFrame, TaskTypeOK
  <2>2. Head(outq).kind = "request" => Head(outq).id \in Requests
    BY <2>1 DEF OutFrames, Frame, Notification
  <2> QED
    BY <1>2, <2>2 DEF WriteFrame, ServerTypeOK, processVars, streamVars
<1>3. CASE DispatchAnswer \/ DispatchRequest
  BY <1>3, <1>a DEF DispatchAnswer, DispatchRequest, ServerTypeOK, processVars, talkVars
<1>4. CASE ReadGarbage
  <2>1. PICK i \in 1..Len(stdout) : stdout' = SubSeq(stdout, i + 1, Len(stdout))
    BY <1>4 DEF ReadGarbage
  <2>2. stdout' \in Seq(InFrames)
    BY <2>1 DEF ServerTypeOK
  <2> QED
    BY <1>4, <2>2 DEF ReadGarbage, ServerTypeOK, processVars, talkVars
<1>5. CASE ReadError
  BY <1>5, <1>b DEF ReadError, ServerTypeOK, processVars, talkVars
<1>6. CASE DropTransport
  BY <1>6 DEF DropTransport, ServerTypeOK, TaskTypeOK, talkVars, streamVars
<1>7. ASSUME NEW r \in Requests, NEW k \in Answers, ServerAnswers(r, k) PROVE ServerTypeOK'
  <2>1. k \in AnswerKinds
    BY AnswersAssumption
  <2>2. Frame(k, r) \in InFrames
    BY <2>1 DEF InFrames
  <2> QED
    BY <1>7, <2>1, <2>2, WritesType DEF ServerAnswers, ServerTypeOK, processVars
<1>8. CASE ServerAsks
  <2>1. Frame("request", Nobody) \in InFrames
    BY DEF InFrames
  <2> QED
    BY <1>8, <2>1, WritesType DEF ServerAsks, ServerTypeOK, processVars
<1>9. CASE ServerGarbles
  <2>1. Frame("garbage", Nobody) \in InFrames
    BY DEF InFrames
  <2> QED
    BY <1>9, <1>b, <2>1, WritesType DEF ServerGarbles, ServerTypeOK, processVars, talkVars
<1>10. CASE ServerClosesPipe
  BY <1>10, <1>b DEF ServerClosesPipe, ServerTypeOK, talkVars
<1>11. CASE ServerExits
  BY <1>11 DEF ServerExits, ServerTypeOK, talkVars, streamVars
<1>12. ASSUME \/ UNCHANGED vars
              \/ \E r \in Requests : CallerStep(r) \/ TakeTimeout(r) \/ Cancel(r)
              \/ \E t \in Tasks : PublishDeath(t) \/ Drain(t)
              \/ WriteFails \/ WriterEnds \/ ReadEof \/ Reap \/ ShutdownAsks \/ CloserStep
       PROVE ServerTypeOK'
  <2>1. UNCHANGED serverVars
    BY <1>12 DEF vars, CallerStep, CheckDeath, Register, SendRequest, TakeAnswer, TakeDeath,
       TakeTimeout, Cancel, PublishDeath, Drain, WriteFails, WriterEnds, ReadEof, Reap,
       ShutdownAsks, CloserStep, ShutdownNotifies, ShutdownClosesStdin, ShutdownSeesDeath,
       GraceExpires
  <2> QED
    BY <2>1, ServerTypeStutter
<1> QED
  BY <1>1, <1>2, <1>3, <1>4, <1>5, <1>6, <1>7, <1>8, <1>9, <1>10, <1>11, <1>12
     DEF Next, DeathStep, WriterStep, ReaderStep, ServerStep

LEMMA MutexStep == TypeOK /\ [Next]_vars => MutexHeld'
<1> SUFFICES ASSUME TypeOK, [Next]_vars PROVE MutexHeld'
  OBVIOUS
<1> USE ShutdownAssumption DEF TypeOK, MutexHeld, CallerTypeOK, Requests
<1>a. Nobody \notin Requests
  OBVIOUS
<1>1. ASSUME NEW r \in Requests, CheckDeath(r) PROVE MutexHeld'
  BY <1>1, <1>a DEF CheckDeath, CanBegin, Resolve
<1>2. ASSUME NEW r \in Requests, Register(r) PROVE MutexHeld'
  BY <1>2, <1>a DEF Register
<1>3. ASSUME NEW r \in Requests, SendRequest(r) PROVE MutexHeld'
  BY <1>3 DEF SendRequest, Resolve
<1>4. ASSUME NEW r \in Requests, TakeAnswer(r) \/ TakeDeath(r) \/ TakeTimeout(r)
      PROVE MutexHeld'
  BY <1>4 DEF TakeAnswer, TakeDeath, TakeTimeout, Resolve
<1>5. ASSUME NEW r \in Requests, Cancel(r) PROVE MutexHeld'
  BY <1>5 DEF Cancel
<1>6. ASSUME \/ UNCHANGED vars
             \/ \E t \in Tasks : DeathStep(t)
             \/ WriterStep \/ ReaderStep \/ ReadError \/ Reap \/ ShutdownAsks \/ CloserStep
             \/ DropTransport \/ ServerStep
      PROVE MutexHeld'
  <2>1. UNCHANGED callerVars
    BY <1>6 DEF vars, DeathStep, PublishDeath, Drain, KillTree, WriterStep, WriteFrame,
       WriteFails, WriterEnds, ReaderStep, DispatchAnswer, DispatchRequest, ReadGarbage, ReadEof,
       ReadError, Reap, ShutdownAsks, CloserStep, ShutdownNotifies, ShutdownClosesStdin,
       ShutdownSeesDeath, GraceExpires, DropTransport, ServerStep, ServerAnswers, ServerAsks,
       ServerGarbles, ServerClosesPipe, ServerExits
  <2> QED
    BY <2>1, MutexStutter
<1> QED
  BY <1>1, <1>2, <1>3, <1>4, <1>5, <1>6 DEF Next, CallerStep

-----------------------------------------------------------------------------
(* The type invariant: it needs the order of publish_death, because a      *)
(* waiter drained before a death is published would be failed with none.   *)

THEOREM TypeCorrect == Spec => [](TypeOK /\ PublishOrder)
<1>1. Init => TypeOK /\ PublishOrder
  <2>1. Init => PublishOrder
    BY DEF Init, PublishOrder
  <2> QED
    BY <2>1, InitTypeOK
<1>2. TypeOK /\ PublishOrder /\ [Next]_vars => TypeOK' /\ PublishOrder'
  BY CallerTypeStep, TaskTypeStep, ServerTypeStep, MutexStep, PublishOrderStep DEF TypeOK
<1> QED
  BY <1>1, <1>2, PTL DEF Spec

-----------------------------------------------------------------------------
(* No waiter is stranded.  The map alone is not inductive: the mutex has   *)
(* to be free as well, because the caller holding it is about to insert.   *)

Drained == \A t \in Tasks : task[t] # "drain"
NobodyEnters == death # Alive /\ Drained => pending = {} /\ lock = Nobody

\* A step that shrinks the map, takes no mutex, publishes nothing and ends no drain.
LEMMA QuietStep ==
    ASSUME NobodyEnters, death' = death, pending' \subseteq pending, lock' = lock,
           \A t \in Tasks : task'[t] # "drain" => task[t] # "drain"
    PROVE  NobodyEnters'
BY DEF NobodyEnters, Drained

LEMMA NobodyEntersStep == TypeOK /\ NobodyEnters /\ [Next]_vars => NobodyEnters'
<1> SUFFICES ASSUME TypeOK, NobodyEnters, [Next]_vars PROVE NobodyEnters'
  OBVIOUS
<1> USE DEF TypeOK, TaskTypeOK
<1>1. ASSUME NEW r \in Requests, CheckDeath(r) PROVE NobodyEnters'
  BY <1>1 DEF CheckDeath, NobodyEnters, Drained, sharedVars, taskVars
<1>2. ASSUME NEW r \in Requests, Register(r) PROVE NobodyEnters'
  <2>1. lock = r /\ r # Nobody
    BY <1>2, ShutdownAssumption DEF Register, MutexHeld, Requests
  <2> QED
    BY <1>2, <2>1 DEF Register, NobodyEnters, Drained, taskVars
<1>3. ASSUME NEW t \in Tasks, PublishDeath(t) PROVE NobodyEnters'
  BY <1>3 DEF PublishDeath, NobodyEnters, Drained
<1>4. ASSUME NEW t \in Tasks, Drain(t) PROVE NobodyEnters'
  BY <1>4 DEF Drain, NobodyEnters, callerVars
<1>5. ASSUME NEW t \in Tasks, KillTree(t) PROVE NobodyEnters'
  BY <1>5, QuietStep DEF KillTree, Finds, callerVars, sharedVars
<1>6. ASSUME \/ UNCHANGED vars
             \/ \E r \in Requests : SendRequest(r) \/ TakeAnswer(r) \/ TakeDeath(r)
                                    \/ TakeTimeout(r) \/ Cancel(r)
             \/ WriteFrame \/ DispatchAnswer \/ DispatchRequest \/ DropTransport \/ ServerStep
      PROVE NobodyEnters'
  <2>1. task' = task /\ death' = death /\ lock' = lock /\ pending' \subseteq pending
    BY <1>6 DEF vars, callerVars, sharedVars, taskVars, SendRequest, TakeAnswer, TakeDeath,
       TakeTimeout, Cancel, WriteFrame, DispatchAnswer, DispatchRequest, DropTransport,
       ServerStep, ServerAnswers, ServerAsks, ServerGarbles, ServerClosesPipe, ServerExits
  <2> QED
    BY <2>1, QuietStep
<1>7. ASSUME WriteFails \/ WriterEnds \/ ReadGarbage \/ ReadEof \/ ReadError \/ Reap
             \/ ShutdownAsks \/ CloserStep
      PROVE NobodyEnters'
  <2>1. death' = death /\ lock' = lock /\ pending' = pending
    BY <1>7 DEF callerVars, sharedVars, WriteFails, WriterEnds, ReadGarbage, ReadEof, ReadError,
       Reap, ShutdownAsks, CloserStep, ShutdownNotifies, ShutdownClosesStdin,
       ShutdownSeesDeath, GraceExpires
  <2>2. \A t \in Tasks : task'[t] # "drain" => task[t] # "drain"
    BY <1>7 DEF Finds, WriteFails, WriterEnds, ReadGarbage, ReadEof, ReadError,
       Reap, ShutdownAsks, CloserStep, ShutdownNotifies, ShutdownClosesStdin,
       ShutdownSeesDeath, GraceExpires
  <2> QED
    BY <2>1, <2>2, QuietStep
<1> QED
  BY <1>1, <1>2, <1>3, <1>4, <1>5, <1>6, <1>7
     DEF Next, CallerStep, DeathStep, WriterStep, ReaderStep

\* However many callers there are, a drained death leaves no waiter nobody will ever fail.
THEOREM WaitersAreNeverStranded == Spec => []NoWaiterStranded
<1>1. Init => NobodyEnters
  BY DEF Init, NobodyEnters
<1>2. TypeOK /\ NobodyEnters /\ [Next]_vars => NobodyEnters'
  BY NobodyEntersStep
<1>3. NobodyEnters => NoWaiterStranded
  BY DEF NobodyEnters, NoWaiterStranded, Drained
<1> QED
  BY <1>1, <1>2, <1>3, TypeCorrect, PTL DEF Spec

-----------------------------------------------------------------------------
(* The death that is told is the first one.                                *)

\* An outcome that names a death names the published one.
NamesDeath(o) == o.kind = "ServerDied" /\ o.why # "StdinClosed" => o.why = death /\ death # Alive
CausesNamed == \A r \in Requests : NamesDeath(answer[r]) /\ NamesDeath(result[r])

LEMMA CausesNamedStep == TypeOK /\ PublishOrder /\ CausesNamed /\ [Next]_vars => CausesNamed'
<1> SUFFICES ASSUME TypeOK, PublishOrder, CausesNamed, [Next]_vars PROVE CausesNamed'
  OBVIOUS
<1> USE DEF TypeOK, CallerTypeOK, CausesNamed, NamesDeath
<1>a. SendRefused.why # "StdinClosed" => SendRefused.why = death /\ death # Alive
  BY DEF SendRefused, Died
<1>1. ASSUME NEW r \in Requests, CheckDeath(r) PROVE CausesNamed'
  BY <1>1 DEF CheckDeath, Resolve, Died, sharedVars, taskVars
<1>2. ASSUME NEW r \in Requests, SendRequest(r) PROVE CausesNamed'
  BY <1>2, <1>a DEF SendRequest, Resolve, taskVars
<1>3. ASSUME NEW r \in Requests, TakeAnswer(r) PROVE CausesNamed'
  BY <1>3 DEF TakeAnswer, Resolve, sharedVars, taskVars
<1>4. ASSUME NEW r \in Requests, TakeDeath(r) PROVE CausesNamed'
  BY <1>4 DEF TakeDeath, Resolve, Died, taskVars
<1>5. ASSUME NEW r \in Requests, TakeTimeout(r) PROVE CausesNamed'
  BY <1>5 DEF TakeTimeout, Resolve, Outcome, taskVars
<1>6. ASSUME NEW r \in Requests, Cancel(r) PROVE CausesNamed'
  BY <1>6 DEF Cancel, Outcome, taskVars
<1>7. ASSUME NEW t \in Tasks, PublishDeath(t) PROVE CausesNamed'
  BY <1>7 DEF PublishDeath, callerVars, sharedVars
<1>8. ASSUME NEW t \in Tasks, Drain(t) PROVE CausesNamed'
  <2>1. death # Alive /\ death' = death
    BY <1>8 DEF Drain, PublishOrder
  <2> QED
    BY <1>8, <2>1 DEF Drain, Died, callerVars
<1>9. CASE DispatchAnswer
  <2>1. \/ answer' = answer
        \/ \E q \in Requests, k \in AnswerKinds :
              k # "ServerDied" /\ answer' = [answer EXCEPT ![q] = Outcome(k)]
    BY <1>9, AnswerTaken
  <2>2. UNCHANGED <<result, death>>
    BY <1>9 DEF DispatchAnswer, callerVars, taskVars
  <2>3. CASE answer' = answer
    BY <2>2, <2>3
  <2>4. ASSUME NEW q \in Requests, NEW k \in AnswerKinds, k # "ServerDied",
               answer' = [answer EXCEPT ![q] = Outcome(k)]
        PROVE CausesNamed'
    BY <2>2, <2>4 DEF Outcome
  <2> QED
    BY <2>1, <2>3, <2>4
<1>10. ASSUME \/ UNCHANGED vars
              \/ \E r \in Requests : Register(r)
              \/ \E t \in Tasks : KillTree(t)
              \/ WriterStep \/ DispatchRequest \/ ReadGarbage \/ ReadEof \/ ReadError \/ Reap
              \/ ShutdownAsks \/ CloserStep \/ DropTransport \/ ServerStep
       PROVE CausesNamed'
  <2>1. UNCHANGED <<answer, result, death>>
    BY <1>10 DEF vars, callerVars, sharedVars, taskVars, Register, KillTree, WriterStep,
       WriteFrame, WriteFails, WriterEnds, DispatchRequest, ReadGarbage, ReadEof, ReadError,
       Reap, ShutdownAsks, CloserStep, ShutdownNotifies, ShutdownClosesStdin,
       ShutdownSeesDeath, GraceExpires, DropTransport, ServerStep, ServerAnswers, ServerAsks,
       ServerGarbles, ServerClosesPipe, ServerExits
  <2> QED
    BY <2>1
<1> QED
  BY <1>1, <1>2, <1>3, <1>4, <1>5, <1>6, <1>7, <1>8, <1>9, <1>10
     DEF Next, CallerStep, DeathStep, ReaderStep

\* Two waiters are never told different stories about the same server.
THEOREM CausesAreTrue == Spec => []TrueCauseReported
<1>1. Init => CausesNamed
  BY DEF Init, CausesNamed, NamesDeath, NoOutcome
<1>2. TypeOK /\ PublishOrder /\ CausesNamed /\ [Next]_vars => CausesNamed'
  BY CausesNamedStep
<1>3. CausesNamed => TrueCauseReported
  BY DEF CausesNamed, NamesDeath, TrueCauseReported
<1> QED
  BY <1>1, <1>2, <1>3, TypeCorrect, PTL DEF Spec

-----------------------------------------------------------------------------
(* No path leaves a process behind.  Each of the four tasks that may       *)
(* publish a death has its own reason why the process will not survive it. *)

Gone == proc = "exited" \/ killed
Doomed == \E t \in {"writer", "reader"} : task[t] \in {"publish", "drain", "kill"}

\* The reaper has seen the process end; shutdown has killed it, or somebody else's death is known.
Reasons ==
    /\ task["reaper"] = "publish" => proc = "exited"
    /\ task["closer"] = "publish" => killed \/ death # Alive

\* Nothing that is gone comes back, and what is known stays known.
LEMMA GoneForGood == TypeOK /\ [Next]_vars => /\ Gone => Gone'
                                              /\ proc = "exited" => proc' = "exited"
                                              /\ killed => killed'
<1> SUFFICES ASSUME TypeOK, [Next]_vars
             PROVE  (proc = "exited" => proc' = "exited") /\ (killed => killed')
  BY DEF Gone
<1>1. ASSUME \/ UNCHANGED vars
             \/ \E r \in Requests : CallerStep(r) \/ TakeTimeout(r) \/ Cancel(r)
             \/ \E t \in Tasks : DeathStep(t)
      PROVE (proc = "exited" => proc' = "exited") /\ (killed => killed')
  BY <1>1 DEF vars, serverVars, processVars, CallerStep, CheckDeath, Register, SendRequest,
     TakeAnswer, TakeDeath, TakeTimeout, Cancel, DeathStep, PublishDeath, Drain, KillTree
<1>2. ASSUME \/ WriterStep \/ ReaderStep \/ ReadError \/ Reap \/ ShutdownAsks \/ CloserStep
      PROVE (proc = "exited" => proc' = "exited") /\ (killed => killed')
  <2>1. UNCHANGED processVars
    BY <1>2 DEF serverVars, WriterStep, WriteFrame, WriteFails, WriterEnds, ReaderStep,
       DispatchAnswer, DispatchRequest, ReadGarbage, ReadEof, ReadError, Reap, ShutdownAsks,
       CloserStep, ShutdownNotifies, ShutdownClosesStdin, ShutdownSeesDeath, GraceExpires
  <2> QED
    BY <2>1 DEF processVars
<1>3. CASE DropTransport
  BY <1>3 DEF DropTransport, TypeOK, ServerTypeOK
<1>4. CASE ServerStep
  BY <1>4 DEF ServerStep, ServerAnswers, ServerAsks, ServerGarbles, ServerClosesPipe,
     ServerExits, processVars
<1> QED
  BY <1>1, <1>2, <1>3, <1>4 DEF Next

LEMMA ProcessStep ==
    TypeOK /\ Reasons /\ NoProcessLeftBehind /\ [Next]_vars => Reasons' /\ NoProcessLeftBehind'
<1> SUFFICES ASSUME TypeOK, Reasons, NoProcessLeftBehind, [Next]_vars
             PROVE  Reasons' /\ NoProcessLeftBehind'
  OBVIOUS
<1> USE DEF TypeOK, TaskTypeOK, Reasons
<1>a. NoProcessLeftBehind <=> (death # Alive \/ dropped => Gone \/ Doomed)
  BY DEF NoProcessLeftBehind, Gone, Doomed
<1>b. NoProcessLeftBehind' <=> (death' # Alive \/ dropped' => Gone' \/ Doomed')
  BY DEF NoProcessLeftBehind, Gone, Doomed
<1>c. /\ Gone => Gone'
      /\ proc = "exited" => proc' = "exited"
      /\ killed => killed'
  BY GoneForGood
<1>d. "writer" \in Tasks /\ "reader" \in Tasks /\ "reaper" \in Tasks /\ "closer" \in Tasks
  BY DEF Tasks
\* A task that finds a cause, the process and the death staying what they are.
<1>e. ASSUME NEW t \in Tasks, NEW reason \in DeathReasons, Finds(t, reason),
             death' = death, dropped' = dropped,
             t = "reaper" => proc = "exited", t = "closer" => killed' \/ death # Alive
      PROVE  Reasons' /\ NoProcessLeftBehind'
  <2>1. Doomed => Doomed'
    BY <1>d, <1>e DEF Finds, Doomed
  <2>2. Reasons'
    BY <1>c, <1>d, <1>e DEF Finds
  <2> QED
    BY <1>a, <1>b, <1>c, <1>e, <2>1, <2>2
<1>1. ASSUME NEW t \in Tasks, PublishDeath(t) PROVE Reasons' /\ NoProcessLeftBehind'
  <2>1. Reasons'
    BY <1>1, <1>c, <1>d DEF PublishDeath
  <2>2. t \in {"writer", "reader"} => Doomed'
    BY <1>1, <1>d DEF PublishDeath, Doomed
  <2>3. Doomed => Doomed'
    BY <1>1, <1>d DEF PublishDeath, Doomed
  <2>4. t \notin {"writer", "reader"} => Gone \/ Doomed
    BY <1>1, <1>a DEF PublishDeath, Tasks, Gone
  <2> QED
    BY <1>b, <1>c, <2>1, <2>2, <2>3, <2>4
<1>2. ASSUME NEW t \in Tasks, Drain(t) PROVE Reasons' /\ NoProcessLeftBehind'
  <2>1. Reasons'
    BY <1>2, <1>c, <1>d DEF Drain
  <2>2. Doomed => Doomed'
    BY <1>2, <1>d DEF Drain, Doomed
  <2> QED
    BY <1>2, <1>a, <1>b, <1>c, <2>1, <2>2 DEF Drain
<1>3. ASSUME NEW t \in Tasks, KillTree(t) PROVE Reasons' /\ NoProcessLeftBehind'
  <2>1. killed' /\ Gone'
    BY <1>3 DEF KillTree, Gone
  <2>2. Reasons'
    BY <1>3, <1>c, <1>d, <2>1 DEF KillTree, Finds
  <2> QED
    BY <1>b, <2>1, <2>2
<1>4. CASE WriteFails \/ ReadGarbage \/ ReadError \/ Reap \/ ShutdownSeesDeath
  BY <1>4, <1>e, <1>d DEF WriteFails, ReadGarbage, ReadError, Reap, ShutdownSeesDeath,
     DeathReasons
<1>5. CASE DropTransport
  <2>1. Reasons'
    BY <1>5, <1>c DEF DropTransport
  <2>2. Doomed => Doomed'
    BY <1>5 DEF DropTransport, Doomed
  <2>3. Gone' \/ Doomed'
    BY <1>5, <1>a, <1>c, <2>2 DEF DropTransport, Gone
  <2> QED
    BY <1>b, <2>1, <2>3
<1>6. CASE WriterEnds \/ ReadEof \/ ShutdownAsks \/ ShutdownNotifies \/ ShutdownClosesStdin
           \/ GraceExpires
  <2>1. death' = death /\ dropped' = dropped
    BY <1>6 DEF WriterEnds, ReadEof, ShutdownAsks, ShutdownNotifies, ShutdownClosesStdin,
       GraceExpires
  <2>2. (Doomed => Doomed') /\ Reasons'
    BY <1>6, <1>c, <1>d DEF Doomed, WriterEnds, ReadEof, ShutdownAsks, ShutdownNotifies,
       ShutdownClosesStdin, GraceExpires
  <2> QED
    BY <1>a, <1>b, <1>c, <2>1, <2>2
<1>7. ASSUME \/ UNCHANGED vars
             \/ \E r \in Requests : CallerStep(r) \/ TakeTimeout(r) \/ Cancel(r)
             \/ WriteFrame \/ DispatchAnswer \/ DispatchRequest \/ ServerStep
      PROVE Reasons' /\ NoProcessLeftBehind'
  <2>1. UNCHANGED <<task, death, dropped>>
    BY <1>7 DEF vars, taskVars, CallerStep, CheckDeath, Register, SendRequest, TakeAnswer,
       TakeDeath, TakeTimeout, Cancel, WriteFrame, DispatchAnswer, DispatchRequest, ServerStep,
       ServerAnswers, ServerAsks, ServerGarbles, ServerClosesPipe, ServerExits
  <2>2. (Doomed => Doomed') /\ Reasons'
    BY <1>c, <2>1 DEF Doomed
  <2> QED
    BY <1>a, <1>b, <1>c, <2>1, <2>2
<1> QED
  BY <1>1, <1>2, <1>3, <1>4, <1>5, <1>6, <1>7
     DEF Next, DeathStep, WriterStep, ReaderStep, CloserStep

\* Whichever of its tasks gives a server up first, and whether it ends by a fault, a shutdown or
\* a drop, its process has ended, was killed, or is about to be killed by a task that still runs.
THEOREM ProcessesAreKilled == Spec => []NoProcessLeftBehind
<1>1. Init => Reasons /\ NoProcessLeftBehind
  BY DEF Init, Reasons, NoProcessLeftBehind, Tasks
<1>2. TypeOK /\ Reasons /\ NoProcessLeftBehind /\ [Next]_vars => Reasons' /\ NoProcessLeftBehind'
  BY ProcessStep
<1> QED
  BY <1>1, <1>2, TypeCorrect, PTL DEF Spec
-----------------------------------------------------------------------------
(* An answer reaches its waiter.  A request is on its way to the server    *)
(* only once its caller waits, and a waiter that is out of the map has     *)
(* been sent something: so whatever the server says, the waiter has it     *)
(* or it lies in the stream.                                               *)

\* What has been queued or read was asked by a caller that waits or has returned.
QueuedByWaiters ==
    \A i \in 1..Len(outq) : outq[i].kind = "request" => caller[outq[i].id] \in {"waiting", "done"}
AskedByWaiters ==
    /\ QueuedByWaiters
    /\ \A r \in got : caller[r] \in {"waiting", "done"}
    /\ \A r \in Requests : spoken[r] # {} => r \in got

\* A waiter stays in the map until something is sent into its channel.
InTheMapOrSent ==
    \A r \in Requests : caller[r] \in {"registered", "waiting"} => r \in pending \/ answer[r] # NoOutcome

\* The frames of the stream that are no answers are nobody's.
LEMMA WhoseFrame ==
    ASSUME ServerTypeOK, NEW i \in 1..Len(stdout), stdout[i].kind \notin AnswerKinds
    PROVE  stdout[i].id = Nobody
BY DEF ServerTypeOK, InFrames, Frame

\* No sent outcome is the empty one.
LEMMA SentIsNotNothing ==
    /\ \A k \in AnswerKinds \cup {"TimedOut", "Cancelled"} : Outcome(k) # NoOutcome
    /\ \A reason : Died(reason) # NoOutcome
BY DEF Outcome, NoOutcome, Died, AnswerKinds

\* A frame more, or the first one less.
LEMMA QueueGrows ==
    ASSUME NEW S, NEW q \in Seq(S), NEW f \in S
    PROVE  /\ Len(Append(q, f)) = Len(q) + 1
           /\ \A i \in 1..Len(q) : Append(q, f)[i] = q[i]
           /\ Append(q, f)[Len(q) + 1] = f
OBVIOUS

LEMMA QueueShrinks ==
    ASSUME NEW S, NEW q \in Seq(S), q # <<>>
    PROVE  /\ Len(Tail(q)) = Len(q) - 1 /\ Len(q) \in Nat /\ Len(q) > 0
           /\ \A i \in 1..Len(Tail(q)) : Tail(q)[i] = q[i + 1]
           /\ Head(q) = q[1]
OBVIOUS

\* Only the callers' own steps change how far they are.
LEMMA CallerStays ==
    ASSUME \/ UNCHANGED vars
           \/ \E r \in Requests : Cancel(r)
           \/ \E t \in Tasks : DeathStep(t)
           \/ WriterStep \/ ReaderStep \/ ReadError \/ Reap \/ ShutdownAsks \/ CloserStep
           \/ DropTransport \/ ServerStep
    PROVE  UNCHANGED <<caller, result>>
BY DEF vars, callerVars, Cancel, DeathStep, PublishDeath, Drain, KillTree, WriterStep, WriteFrame,
   WriteFails, WriterEnds, ReaderStep, DispatchAnswer, DispatchRequest, ReadGarbage, ReadEof,
   ReadError, Reap, ShutdownAsks, CloserStep, ShutdownNotifies, ShutdownClosesStdin,
   ShutdownSeesDeath, GraceExpires, DropTransport, ServerStep, ServerAnswers, ServerAsks,
   ServerGarbles, ServerClosesPipe, ServerExits

\* Only the server's answers are spoken.
LEMMA SpokenStays ==
    ASSUME \/ UNCHANGED vars
           \/ \E q \in Requests : CallerStep(q) \/ TakeTimeout(q) \/ Cancel(q)
           \/ \E t \in Tasks : DeathStep(t)
           \/ WriterStep \/ ReaderStep \/ ReadError \/ Reap \/ ShutdownAsks \/ CloserStep
           \/ DropTransport \/ ServerAsks \/ ServerGarbles \/ ServerClosesPipe \/ ServerExits
    PROVE  UNCHANGED spoken
BY DEF vars, serverVars, talkVars, CallerStep, CheckDeath, Register, SendRequest, TakeAnswer,
   TakeDeath, TakeTimeout, Cancel, DeathStep, PublishDeath, Drain, KillTree, WriterStep,
   WriteFrame, WriteFails, WriterEnds, ReaderStep, DispatchAnswer, DispatchRequest, ReadGarbage,
   ReadEof, ReadError, Reap, ShutdownAsks, CloserStep, ShutdownNotifies, ShutdownClosesStdin,
   ShutdownSeesDeath, GraceExpires, DropTransport, ServerAsks, ServerGarbles, ServerClosesPipe,
   ServerExits

\* A caller that waits or has returned does so for good.
LEMMA CallersGoOn ==
    TypeOK /\ [Next]_vars =>
        \A r \in Requests : caller[r] \in {"waiting", "done"} => caller'[r] \in {"waiting", "done"}
<1> SUFFICES ASSUME TypeOK, [Next]_vars, NEW r \in Requests, caller[r] \in {"waiting", "done"}
             PROVE  caller'[r] \in {"waiting", "done"}
  OBVIOUS
<1> USE DEF TypeOK, CallerTypeOK
<1>1. ASSUME NEW q \in Requests, CheckDeath(q) PROVE caller'[r] \in {"waiting", "done"}
  BY <1>1 DEF CheckDeath, CanBegin, Resolve
<1>2. ASSUME NEW q \in Requests, Register(q) PROVE caller'[r] \in {"waiting", "done"}
  BY <1>2 DEF Register
<1>3. ASSUME NEW q \in Requests, SendRequest(q) PROVE caller'[r] \in {"waiting", "done"}
  BY <1>3 DEF SendRequest, Resolve
<1>4. ASSUME NEW q \in Requests, TakeAnswer(q) \/ TakeDeath(q) \/ TakeTimeout(q)
      PROVE caller'[r] \in {"waiting", "done"}
  BY <1>4 DEF TakeAnswer, TakeDeath, TakeTimeout, Resolve
<1>5. ASSUME UNCHANGED caller PROVE caller'[r] \in {"waiting", "done"}
  BY <1>5
<1> QED
  BY <1>1, <1>2, <1>3, <1>4, <1>5, CallerStays DEF Next, CallerStep

\* A request that is resolved is resolved.
LEMMA DoneForGood ==
    TypeOK /\ [Next]_vars => \A r \in Requests : caller[r] = "done" => caller'[r] = "done"
<1> SUFFICES ASSUME TypeOK, [Next]_vars, NEW r \in Requests, caller[r] = "done"
             PROVE  caller'[r] = "done"
  OBVIOUS
<1>1. ASSUME NEW q \in Requests, CallerStep(q) \/ TakeTimeout(q) PROVE caller'[r] = "done"
  BY <1>1 DEF CallerStep, CheckDeath, CanBegin, Register, SendRequest, TakeAnswer, TakeDeath,
     TakeTimeout, Resolve, TypeOK, CallerTypeOK
<1> QED
  BY <1>1, CallerStays DEF Next

\* The queue of frames keeps that, whether it is left, cleared, served or given a frame.
LEMMA QueueStep ==
    ASSUME TypeOK, QueuedByWaiters,
           \A r \in Requests : caller[r] \in {"waiting", "done"} => caller'[r] \in {"waiting", "done"},
           \/ outq' = outq \/ outq' = <<>> \/ (outq # <<>> /\ outq' = Tail(outq))
           \/ \E f \in OutFrames : /\ outq' = Append(outq, f)
                                   /\ f.kind = "request" => caller'[f.id] \in {"waiting", "done"}
    PROVE  QueuedByWaiters'
<1> DEFINE Fine(f) == f.kind = "request" => caller'[f.id] \in {"waiting", "done"}
<1>1. outq \in Seq(OutFrames) /\ \A i \in 1..Len(outq) : Fine(outq[i])
  <2>1. outq \in Seq(OutFrames)
    BY DEF TypeOK, TaskTypeOK
  <2>2. ASSUME NEW i \in 1..Len(outq), outq[i].kind = "request" PROVE outq[i].id \in Requests
    BY <2>1, <2>2 DEF OutFrames, Frame, Notification
  <2> QED
    BY <2>1, <2>2 DEF QueuedByWaiters
<1>0. \/ outq' = outq \/ outq' = <<>> \/ (outq # <<>> /\ outq' = Tail(outq))
      \/ \E f \in OutFrames : outq' = Append(outq, f) /\ Fine(f)
  OBVIOUS
<1> HIDE DEF Fine
<1>2. ASSUME outq' = outq \/ outq' = <<>> PROVE \A i \in 1..Len(outq') : Fine(outq'[i])
  BY <1>1, <1>2
<1>3. ASSUME outq # <<>>, outq' = Tail(outq) PROVE \A i \in 1..Len(outq') : Fine(outq'[i])
  <2>1. ASSUME NEW i \in 1..Len(outq') PROVE i + 1 \in 1..Len(outq) /\ outq'[i] = outq[i + 1]
    BY <1>1, <1>3, QueueShrinks
  <2> QED
    BY <1>1, <2>1
<1>4. ASSUME NEW f \in OutFrames, outq' = Append(outq, f), Fine(f)
      PROVE  \A i \in 1..Len(outq') : Fine(outq'[i])
  <2>1. \A i \in 1..Len(outq') : i \in 1..Len(outq) \/ i = Len(outq) + 1
    BY <1>1, <1>4, QueueGrows
  <2> QED
    BY <1>1, <1>4, <2>1, QueueGrows
<1>5. \A i \in 1..Len(outq') : Fine(outq'[i])
  <2>1. CASE \E f \in OutFrames : outq' = Append(outq, f) /\ Fine(f)
    BY <1>4, <2>1
  <2> QED
    BY <1>0, <1>2, <1>3, <2>1
<1> QED
  BY <1>5 DEF Fine, QueuedByWaiters

LEMMA AskedStep == TypeOK /\ AskedByWaiters /\ [Next]_vars => AskedByWaiters'
<1> SUFFICES ASSUME TypeOK, AskedByWaiters, [Next]_vars PROVE AskedByWaiters'
  OBVIOUS
<1>1. \A r \in Requests : caller[r] \in {"waiting", "done"} => caller'[r] \in {"waiting", "done"}
  BY CallersGoOn
<1>2. /\ got \subseteq Requests /\ outq \in Seq(OutFrames)
      /\ \A r \in got : caller'[r] \in {"waiting", "done"}
  BY <1>1 DEF TypeOK, ServerTypeOK, TaskTypeOK, AskedByWaiters
\* What is queued besides requests is never answered.
<1>3. ASSUME NEW f \in {Notification, Frame("reply", Nobody)}, BestEffort(f),
             UNCHANGED <<got, spoken>>
      PROVE  AskedByWaiters'
  <2>1. f \in OutFrames /\ f.kind # "request"
    BY DEF OutFrames, Notification, Frame
  <2>2. outq' = outq \/ outq' = Append(outq, f)
    BY <1>3 DEF BestEffort
  <2>3. QueuedByWaiters'
    BY <1>1, <2>1, <2>2, QueueStep DEF AskedByWaiters
  <2> QED
    BY <1>2, <1>3, <2>3 DEF AskedByWaiters
<1>4. ASSUME NEW r \in Requests, SendRequest(r) PROVE AskedByWaiters'
  <2>1. CASE CanSend
    <3>1. Frame("request", r) \in OutFrames /\ Frame("request", r).id = r
      BY DEF OutFrames, Frame
    <3>2. outq' = Append(outq, Frame("request", r)) /\ caller'[r] = "waiting"
      BY <1>4, <2>1 DEF SendRequest, TypeOK, CallerTypeOK
    <3>3. UNCHANGED <<got, spoken>>
      BY <1>4 DEF SendRequest, serverVars, talkVars
    <3> QED
      BY <1>1, <1>2, <3>1, <3>2, <3>3, QueueStep DEF AskedByWaiters
  <2>2. CASE ~CanSend
    <3>1. UNCHANGED <<outq, got, spoken>>
      BY <1>4, <2>2 DEF SendRequest, serverVars, talkVars
    <3>2. QueuedByWaiters'
      BY <1>1, <3>1, QueueStep DEF AskedByWaiters
    <3> QED
      BY <1>2, <3>1, <3>2 DEF AskedByWaiters
  <2> QED
    BY <2>1, <2>2
<1>5. CASE \/ \E r \in Requests : TakeTimeout(r) \/ Cancel(r)
           \/ DispatchRequest \/ ShutdownNotifies
  BY <1>3, <1>5 DEF TakeTimeout, Cancel, DispatchRequest, ShutdownNotifies, serverVars, talkVars
<1>6. ASSUME NEW t \in Tasks, KillTree(t) PROVE AskedByWaiters'
  <2>1. (outq' = outq \/ outq' = <<>>) /\ UNCHANGED <<got, spoken>>
    BY <1>6 DEF KillTree, talkVars
  <2>2. QueuedByWaiters'
    BY <1>1, <2>1, QueueStep DEF AskedByWaiters
  <2> QED
    BY <1>2, <2>1, <2>2 DEF AskedByWaiters
<1>7. CASE WriteFrame
  <2>1. outq # <<>> /\ outq' = Tail(outq) /\ UNCHANGED <<caller, spoken>>
        /\ got' = IF Head(outq).kind = "request" THEN got \cup {Head(outq).id} ELSE got
    BY <1>7 DEF WriteFrame, callerVars
  <2>2. Head(outq).kind = "request" => caller'[Head(outq).id] \in {"waiting", "done"}
    <3>1. 1 \in 1..Len(outq) /\ Head(outq) = outq[1]
      BY <1>2, <2>1, QueueShrinks
    <3> QED
      BY <2>1, <3>1 DEF AskedByWaiters, QueuedByWaiters
  <2>3. got \subseteq got' /\ \A r \in got' : caller'[r] \in {"waiting", "done"}
    BY <1>2, <2>1, <2>2
  <2> QED
    BY <1>1, <2>1, <2>3, QueueStep DEF AskedByWaiters
<1>8. CASE WriteFails
  BY <1>1, <1>2, <1>8, QueueStep DEF WriteFails, AskedByWaiters, serverVars, talkVars
<1>9. ASSUME NEW r \in Requests, NEW k \in Answers, ServerAnswers(r, k) PROVE AskedByWaiters'
  <2>1. r \in got /\ UNCHANGED <<outq, got>> /\ spoken' = [spoken EXCEPT ![r] = @ \cup {k}]
    BY <1>9 DEF ServerAnswers, outVars
  <2>2. \A q \in Requests : q # r => spoken'[q] = spoken[q]
    BY <2>1 DEF TypeOK, ServerTypeOK
  <2>3. QueuedByWaiters'
    BY <1>1, <2>1, QueueStep DEF AskedByWaiters
  <2> QED
    BY <1>2, <2>1, <2>2, <2>3 DEF AskedByWaiters
<1>10. ASSUME \/ UNCHANGED vars
              \/ \E r \in Requests : CheckDeath(r) \/ Register(r) \/ TakeAnswer(r) \/ TakeDeath(r)
              \/ \E t \in Tasks : PublishDeath(t) \/ Drain(t)
              \/ WriterEnds \/ DispatchAnswer \/ ReadGarbage \/ ReadEof \/ ReadError \/ Reap
              \/ ShutdownAsks \/ ShutdownClosesStdin \/ ShutdownSeesDeath \/ GraceExpires
              \/ DropTransport \/ ServerAsks \/ ServerGarbles \/ ServerClosesPipe \/ ServerExits
       PROVE AskedByWaiters'
  <2>1. UNCHANGED <<outq, got, spoken>>
    BY <1>10 DEF vars, outVars, serverVars, talkVars, CheckDeath, Register, TakeAnswer, TakeDeath,
       PublishDeath, Drain, WriterEnds, DispatchAnswer, ReadGarbage, ReadEof, ReadError, Reap,
       ShutdownAsks, ShutdownClosesStdin, ShutdownSeesDeath, GraceExpires, DropTransport,
       ServerAsks, ServerGarbles, ServerClosesPipe, ServerExits
  <2>2. QueuedByWaiters'
    BY <1>1, <2>1, QueueStep DEF AskedByWaiters
  <2> QED
    BY <1>2, <2>1, <2>2 DEF AskedByWaiters
<1> QED
  BY <1>4, <1>5, <1>6, <1>7, <1>8, <1>9, <1>10
     DEF Next, CallerStep, DeathStep, WriterStep, ReaderStep, CloserStep, ServerStep

LEMMA InTheMapStep ==
    TypeOK /\ PublishOrder /\ InTheMapOrSent /\ [Next]_vars => InTheMapOrSent'
<1> SUFFICES ASSUME TypeOK, PublishOrder, InTheMapOrSent, [Next]_vars PROVE InTheMapOrSent'
  OBVIOUS
<1> USE DEF TypeOK, CallerTypeOK, InTheMapOrSent
<1>1. ASSUME NEW r \in Requests, CheckDeath(r) PROVE InTheMapOrSent'
  BY <1>1 DEF CheckDeath, Resolve, sharedVars
<1>2. ASSUME NEW r \in Requests, Register(r) PROVE InTheMapOrSent'
  BY <1>2 DEF Register
<1>3. ASSUME NEW r \in Requests, SendRequest(r) PROVE InTheMapOrSent'
  BY <1>3 DEF SendRequest, Resolve
<1>4. ASSUME NEW r \in Requests, TakeAnswer(r) \/ TakeDeath(r) \/ TakeTimeout(r)
      PROVE InTheMapOrSent'
  BY <1>4 DEF TakeAnswer, TakeDeath, TakeTimeout, Resolve, sharedVars
<1>5. ASSUME NEW r \in Requests, Cancel(r) PROVE InTheMapOrSent'
  BY <1>5, SentIsNotNothing DEF Cancel
<1>6. ASSUME NEW t \in Tasks, Drain(t) PROVE InTheMapOrSent'
  BY <1>6, SentIsNotNothing DEF Drain, callerVars
<1>7. CASE DispatchAnswer
  <2> DEFINE f == Head(stdout)
  <2>1. UNCHANGED caller
    BY <1>7 DEF DispatchAnswer, callerVars
  <2>2. \/ UNCHANGED <<pending, answer>>
        \/ /\ f.id \in Requests /\ f.kind \in AnswerKinds /\ pending' = pending \ {f.id}
           /\ answer' = IF f.id \in pending
                        THEN [answer EXCEPT ![f.id] = Outcome(f.kind)] ELSE answer
    BY <1>7, AnswerTaken
  <2>3. f.kind \in AnswerKinds => Outcome(f.kind) # NoOutcome
    BY SentIsNotNothing
  <2> HIDE DEF f
  <2> QED
    BY <2>1, <2>2, <2>3
<1>8. ASSUME \/ UNCHANGED vars
             \/ \E t \in Tasks : PublishDeath(t) \/ KillTree(t)
             \/ WriterStep \/ DispatchRequest \/ ReadGarbage \/ ReadEof \/ ReadError
             \/ Reap \/ ShutdownAsks \/ CloserStep \/ DropTransport \/ ServerStep
      PROVE InTheMapOrSent'
  <2>1. UNCHANGED <<caller, pending, answer>>
    BY <1>8 DEF vars, callerVars, sharedVars, PublishDeath, KillTree, WriterStep, WriteFrame,
       WriteFails, WriterEnds, DispatchRequest, ReadGarbage, ReadEof, ReadError, Reap,
       ShutdownAsks, CloserStep, ShutdownNotifies, ShutdownClosesStdin, ShutdownSeesDeath,
       GraceExpires, DropTransport, ServerStep, ServerAnswers, ServerAsks, ServerGarbles,
       ServerClosesPipe, ServerExits
  <2> QED
    BY <2>1
<1> QED
  BY <1>1, <1>2, <1>3, <1>4, <1>5, <1>6, <1>7, <1>8
     DEF Next, CallerStep, DeathStep, ReaderStep

\* Only a cancel, a drain and an answer send something to a waiter.
LEMMA AnswersStay ==
    ASSUME \/ UNCHANGED vars
           \/ \E r \in Requests : CallerStep(r) \/ TakeTimeout(r)
           \/ \E t \in Tasks : PublishDeath(t) \/ KillTree(t)
           \/ WriterStep \/ DispatchRequest \/ ReadGarbage \/ ReadEof \/ ReadError
           \/ Reap \/ ShutdownAsks \/ CloserStep \/ DropTransport \/ ServerStep
    PROVE  UNCHANGED answer
BY DEF vars, callerVars, sharedVars, CallerStep, CheckDeath, Register, SendRequest, TakeAnswer,
   TakeDeath, TakeTimeout, PublishDeath, KillTree, WriterStep, WriteFrame, WriteFails, WriterEnds,
   DispatchRequest, ReadGarbage, ReadEof, ReadError, Reap, ShutdownAsks, CloserStep,
   ShutdownNotifies, ShutdownClosesStdin, ShutdownSeesDeath, GraceExpires, DropTransport,
   ServerStep, ServerAnswers, ServerAsks, ServerGarbles, ServerClosesPipe, ServerExits

\* Only the reader, its end, and the server's frames touch the stream.
LEMMA StdoutStays ==
    ASSUME \/ UNCHANGED vars
           \/ \E q \in Requests : CallerStep(q) \/ TakeTimeout(q) \/ Cancel(q)
           \/ \E t \in Tasks : PublishDeath(t) \/ Drain(t)
           \/ WriterStep \/ ReadEof \/ ReadError \/ Reap \/ ShutdownAsks \/ CloserStep
           \/ DropTransport \/ ServerClosesPipe \/ ServerExits
    PROVE  UNCHANGED stdout
BY DEF vars, serverVars, streamVars, CallerStep, CheckDeath, Register, SendRequest, TakeAnswer,
   TakeDeath, TakeTimeout, Cancel, PublishDeath, Drain, WriterStep, WriteFrame, WriteFails,
   WriterEnds, ReadEof, ReadError, Reap, ShutdownAsks, CloserStep, ShutdownNotifies,
   ShutdownClosesStdin, ShutdownSeesDeath, GraceExpires, DropTransport, ServerClosesPipe,
   ServerExits

\* Nothing takes back what was sent, and the reader does not run again.
LEMMA NothingIsTakenBack ==
    TypeOK /\ [Next]_vars =>
        /\ \A r \in Requests : answer[r] # NoOutcome => answer'[r] # NoOutcome
        /\ task'["reader"] = "run" => task["reader"] = "run"
<1> SUFFICES ASSUME TypeOK, [Next]_vars
             PROVE  /\ \A r \in Requests : answer[r] # NoOutcome => answer'[r] # NoOutcome
                    /\ task'["reader"] = "run" => task["reader"] = "run"
  OBVIOUS
<1> USE DEF TypeOK, CallerTypeOK, TaskTypeOK
<1>1. \A r \in Requests : answer[r] # NoOutcome => answer'[r] # NoOutcome
  <2>1. ASSUME NEW r \in Requests, Cancel(r)
        PROVE  \A q \in Requests : answer[q] # NoOutcome => answer'[q] # NoOutcome
    BY <2>1, SentIsNotNothing DEF Cancel
  <2>2. ASSUME NEW t \in Tasks, Drain(t)
        PROVE  \A q \in Requests : answer[q] # NoOutcome => answer'[q] # NoOutcome
    BY <2>2, SentIsNotNothing DEF Drain
  <2>3. CASE DispatchAnswer
    <3>1. \/ answer' = answer
          \/ \E q \in Requests, k \in AnswerKinds : answer' = [answer EXCEPT ![q] = Outcome(k)]
      BY <2>3, AnswerTaken
    <3> QED
      BY <3>1, SentIsNotNothing
  <2> QED
    BY <2>1, <2>2, <2>3, AnswersStay DEF Next, DeathStep, ReaderStep
<1>2. task'["reader"] = "run" => task["reader"] = "run"
  <2>0. "reader" \in Tasks /\ "closer" \in Tasks
    BY DEF Tasks
  <2>1. ASSUME NEW t \in Tasks, DeathStep(t)
        PROVE  task'["reader"] = "run" => task["reader"] = "run"
    BY <2>0, <2>1 DEF Finds, DeathStep, PublishDeath, Drain, KillTree
  <2>3. CASE WriteFails \/ WriterEnds \/ ReadGarbage \/ ReadEof \/ ReadError \/ Reap
    BY <2>0, <2>3 DEF Finds, WriteFails, WriterEnds, ReadGarbage, ReadEof, ReadError, Reap
  <2>4. CASE ShutdownAsks \/ CloserStep
    BY <2>0, <2>4 DEF Finds, ShutdownAsks, CloserStep, ShutdownNotifies, ShutdownClosesStdin,
       ShutdownSeesDeath, GraceExpires
  <2>2. ASSUME \/ UNCHANGED vars
               \/ \E r \in Requests : CallerStep(r) \/ TakeTimeout(r) \/ Cancel(r)
               \/ WriteFrame \/ DispatchAnswer \/ DispatchRequest \/ DropTransport \/ ServerStep
        PROVE  UNCHANGED task
    BY <2>2 DEF vars, taskVars, CallerStep, CheckDeath, Register, SendRequest, TakeAnswer,
       TakeDeath, TakeTimeout, Cancel, WriteFrame, DispatchAnswer, DispatchRequest,
       DropTransport, ServerStep, ServerAnswers, ServerAsks, ServerGarbles, ServerClosesPipe,
       ServerExits
  <2> QED
    BY <2>1, <2>2, <2>3, <2>4 DEF Next, WriterStep, ReaderStep
<1> QED
  BY <1>1, <1>2

\* What lies in the stream under an id stays there until it is dispatched.
InTheStream(r) == \E i \in 1..Len(stdout) : RecoveredId(stdout[i]) = r

LEMMA StreamStep ==
    ASSUME TypeOK, InTheMapOrSent, [Next]_vars, task'["reader"] = "run",
           NEW r \in Requests, caller[r] = "waiting", InTheStream(r)
    PROVE  InTheStream(r)' \/ answer'[r] # NoOutcome
<1>1. stdout \in Seq(InFrames) /\ task["reader"] = "run"
  BY NothingIsTakenBack DEF TypeOK, ServerTypeOK
<1>2. PICK i \in 1..Len(stdout) : RecoveredId(stdout[i]) = r
  BY DEF InTheStream
<1>3. ASSUME stdout' = stdout PROVE InTheStream(r)'
  BY <1>2, <1>3 DEF InTheStream
<1>4. ASSUME NEW f \in InFrames, stdout' = Append(stdout, f) PROVE InTheStream(r)'
  <2>1. i \in 1..Len(stdout') /\ stdout'[i] = stdout[i]
    BY <1>1, <1>4, QueueGrows
  <2> QED
    BY <1>2, <2>1 DEF InTheStream
\* The first frame is dispatched.
<1>5. ASSUME ReadFrame, RecoveredId(Head(stdout)) # r PROVE InTheStream(r)'
  <2>1. /\ stdout # <<>> /\ stdout' = Tail(stdout) /\ i # 1 /\ i \in 1..Len(stdout)
        /\ Len(Tail(stdout)) = Len(stdout) - 1
    BY <1>1, <1>2, <1>5, QueueShrinks DEF ReadFrame
  <2>2. i - 1 \in 1..Len(stdout') /\ stdout'[i - 1] = stdout[i]
    BY <1>1, <2>1, QueueShrinks
  <2> QED
    BY <1>2, <2>2 DEF InTheStream
<1>6. CASE DispatchAnswer
  <2>1. CASE RecoveredId(Head(stdout)) # r
    BY <1>5, <1>6, <2>1 DEF DispatchAnswer
  <2>2. CASE RecoveredId(Head(stdout)) = r
    <3>1. r # Nobody
      BY ShutdownAssumption DEF Requests
    <3>2. /\ Head(stdout).id = r /\ Head(stdout).kind \in AnswerKinds
          /\ answer' = IF r \in pending
                       THEN [answer EXCEPT ![r] = Outcome(Head(stdout).kind)] ELSE answer
      BY <1>6, <2>2, <3>1, AnswerTaken DEF TypeOK
    <3>3. Outcome(Head(stdout).kind) # NoOutcome
      BY <3>2, SentIsNotNothing
    <3> QED
      BY <3>2, <3>3 DEF InTheMapOrSent, TypeOK, CallerTypeOK
  <2> QED
    BY <2>1, <2>2
<1>7. CASE DispatchRequest
  <2>1. RecoveredId(Head(stdout)) # r
    <3>1. 1 \in 1..Len(stdout) /\ Head(stdout) = stdout[1]
      BY <1>1, <1>7, QueueShrinks DEF DispatchRequest, ReadFrame
    <3> QED
      BY <1>7, <3>1, WhoseFrame, ShutdownAssumption
         DEF DispatchRequest, AnswerKinds, Requests, TypeOK, RecoveredId
  <2> QED
    BY <1>5, <1>7, <2>1 DEF DispatchRequest
<1>8. CASE ReadGarbage
  BY <1>8 DEF ReadGarbage, Finds, Tasks, TypeOK, TaskTypeOK
<1>9. ASSUME NEW t \in Tasks, KillTree(t) PROVE InTheStream(r)'
  BY <1>1, <1>3, <1>9 DEF KillTree
<1>10. CASE ServerStep
  <2>1. ASSUME NEW q \in Requests, NEW k \in Answers, ServerAnswers(q, k) PROVE InTheStream(r)'
    <3>1. Frame(k, q) \in InFrames
      BY AnswersAssumption DEF InFrames
    <3> QED
      BY <1>4, <2>1, <3>1 DEF ServerAnswers, Writes
  <2>2. CASE ServerAsks \/ ServerGarbles
    <3>1. Frame("request", Nobody) \in InFrames /\ Frame("garbage", Nobody) \in InFrames
      BY DEF InFrames
    <3> QED
      BY <1>4, <2>2, <3>1 DEF ServerAsks, ServerGarbles, Writes
  <2>3. CASE ServerClosesPipe \/ ServerExits
    BY <1>3, <2>3 DEF ServerClosesPipe, ServerExits, streamVars
  <2> QED
    BY <1>10, <2>1, <2>2, <2>3 DEF ServerStep
<1>11. ASSUME \/ UNCHANGED vars
              \/ \E q \in Requests : CallerStep(q) \/ TakeTimeout(q) \/ Cancel(q)
              \/ \E t \in Tasks : PublishDeath(t) \/ Drain(t)
              \/ WriterStep \/ ReadEof \/ ReadError \/ Reap \/ ShutdownAsks \/ CloserStep
              \/ DropTransport
       PROVE InTheStream(r)'
  BY <1>3, <1>11, StdoutStays
<1> QED
  BY <1>6, <1>7, <1>8, <1>9, <1>10, <1>11 DEF Next, DeathStep, ReaderStep

LEMMA NoAnswerStep ==
    TypeOK /\ AskedByWaiters /\ InTheMapOrSent /\ NoAnswerIsLost /\ [Next]_vars => NoAnswerIsLost'
<1> SUFFICES ASSUME TypeOK, AskedByWaiters, InTheMapOrSent, NoAnswerIsLost, [Next]_vars,
                    NEW r \in Requests, caller'[r] = "waiting", Named'[r] # {},
                    task'["reader"] = "run"
             PROVE  answer'[r] # NoOutcome \/ InTheStream(r)'
  BY DEF NoAnswerIsLost, InTheStream
<1>1. /\ task["reader"] = "run"
      /\ answer[r] # NoOutcome => answer'[r] # NoOutcome
  BY NothingIsTakenBack
\* A request the server has answered was asked by a caller that waits.
<1>2. spoken[r] # {} => caller[r] = "waiting"
  <2>1. ASSUME spoken[r] # {} PROVE caller[r] \in {"waiting", "done"}
    BY <2>1 DEF AskedByWaiters
  <2>2. caller[r] # "done"
    BY DoneForGood
  <2> QED
    BY <2>1, <2>2
<1>a. /\ spoken \in [Requests -> SUBSET AnswerKinds]
      /\ Named[r] = spoken[r] \ {"Nameless"} /\ Named'[r] = spoken'[r] \ {"Nameless"}
  BY DEF TypeOK, ServerTypeOK, Named
<1>3. CASE Named[r] # {}
  BY <1>a, <1>1, <1>2, <1>3, StreamStep DEF NoAnswerIsLost, InTheStream
<1>4. CASE Named[r] = {}
  <2>0. spoken'[r] # spoken[r]
    BY <1>a, <1>4
  <2>1. PICK q \in Requests, k \in Answers : ServerAnswers(q, k)
    <3>1. ASSUME \/ UNCHANGED vars
                 \/ \E q \in Requests : CallerStep(q) \/ TakeTimeout(q) \/ Cancel(q)
                 \/ \E t \in Tasks : DeathStep(t)
                 \/ WriterStep \/ ReaderStep \/ ReadError \/ Reap \/ ShutdownAsks \/ CloserStep
                 \/ DropTransport \/ ServerAsks \/ ServerGarbles \/ ServerClosesPipe \/ ServerExits
          PROVE  UNCHANGED spoken
      BY <3>1, SpokenStays
    <3> QED
      BY <2>0, <3>1 DEF Next, ServerStep
  <2>2. q = r /\ k # "Nameless" /\ k \in AnswerKinds
    BY <1>a, <1>4, <2>0, <2>1, AnswersAssumption DEF ServerAnswers
  <2>3. /\ stdout \in Seq(InFrames) /\ Frame(k, r) \in InFrames
        /\ RecoveredId(Frame(k, r)) = r
    BY <2>2 DEF TypeOK, ServerTypeOK, InFrames, Frame, RecoveredId
  <2>4. stdout' = Append(stdout, Frame(k, r))
    BY <2>1, <2>2 DEF ServerAnswers, Writes
  <2>5. Len(stdout) + 1 \in 1..Len(stdout') /\ stdout'[Len(stdout) + 1] = Frame(k, r)
    BY <2>3, <2>4, QueueGrows
  <2> QED
    BY <2>3, <2>5 DEF InTheStream
<1> QED
  BY <1>3, <1>4

\* An answer the server has given, readable or not, lies in the stream or has been sent to its
\* waiter as long as its id can be recovered, for any number of callers and whatever else the
\* server writes.  One that names no request is dropped by dispatch and is not spoken of here.
THEOREM AnswersArrive == Spec => []NoAnswerIsLost
<1>1. Init => AskedByWaiters /\ InTheMapOrSent /\ NoAnswerIsLost
  BY DEF Init, AskedByWaiters, QueuedByWaiters, InTheMapOrSent, NoAnswerIsLost, Named
<1>2. TypeOK /\ PublishOrder /\ AskedByWaiters /\ InTheMapOrSent /\ NoAnswerIsLost /\ [Next]_vars
        => AskedByWaiters' /\ InTheMapOrSent' /\ NoAnswerIsLost'
  BY AskedStep, InTheMapStep, NoAnswerStep
<1> QED
  BY <1>1, <1>2, TypeCorrect, PTL DEF Spec

-----------------------------------------------------------------------------
(* The transport implements the service.  A step of the four tasks is a    *)
(* step of RequestService on the spoken answers, the cancelled requests,   *)
(* the death slot, the closed input and the results, or changes none.      *)

\* Only its caller resolves a request.
Pending == \A r \in Requests : caller[r] # "done" => result[r] = NoOutcome

\* Whatever was sent into a channel is an outcome the service may give.
SentIsJustified == \A r \in Requests : answer[r] # NoOutcome => answer[r] \in Service!Justified(r)

\* An answer in the stream was given by the server.
FramesSpoken ==
    \A i \in 1..Len(stdout) :
        stdout[i].kind \in AnswerKinds => stdout[i].kind \in spoken[stdout[i].id]

ServiceInv == Pending /\ SentIsJustified /\ FramesSpoken

LEMMA PendingStep == TypeOK /\ Pending /\ [Next]_vars => Pending'
<1> SUFFICES ASSUME TypeOK, Pending, [Next]_vars PROVE Pending'
  OBVIOUS
<1>1. ASSUME NEW r \in Requests, CallerStep(r) \/ TakeTimeout(r) PROVE Pending'
  BY <1>1 DEF CallerStep, CheckDeath, CanBegin, Register, SendRequest, TakeAnswer, TakeDeath,
     TakeTimeout, Resolve, TypeOK, CallerTypeOK, Pending
<1>2. ASSUME UNCHANGED <<caller, result>> PROVE Pending'
  BY <1>2 DEF Pending
<1> QED
  BY <1>1, <1>2, CallerStays DEF Next

\* The variables of the service, of which the input is closed for good once it is.
Same == UNCHANGED <<Named, cancelled, death, result>> /\ CanSend' = CanSend

LEMMA SameStutters == Same => UNCHANGED Service!vars
BY DEF Same, Service!vars

\* The caller of r resolves it with a justified outcome.
LEMMA ResolveIsService ==
    ASSUME Pending, NEW r \in Requests, caller[r] # "done", NEW o \in Service!Justified(r),
           Resolve(r, o), UNCHANGED <<Named, cancelled, death>>, CanSend' = CanSend
    PROVE  Service!Next
<1>1. result[r] = Service!Unresolved
  BY DEF Pending, NoOutcome, Service!Unresolved
<1>2. Service!Resolve(r)
  BY <1>1 DEF Service!Resolve, Resolve
<1> QED
  BY <1>2 DEF Service!Next

LEMMA CloseIsService ==
    ASSUME ~CanSend', UNCHANGED <<Named, cancelled, death, result>>
    PROVE  Service!Next
BY DEF Service!Next, Service!Close

LEMMA ServiceStep ==
    TypeOK /\ PublishOrder /\ ServiceInv /\ [Next]_vars => [Service!Next]_(Service!vars)
<1> SUFFICES ASSUME TypeOK, PublishOrder, ServiceInv, [Next]_vars
             PROVE  Service!Next \/ UNCHANGED Service!vars
  OBVIOUS
<1> USE DEF ServiceInv
<1>a. task \in [Tasks -> {"idle", "run", "asking", "closing", "grace", "publish", "drain",
                          "kill", "end"}] /\ "writer" \in Tasks
  BY DEF TypeOK, TaskTypeOK, Tasks
<1>b. \A r \in Requests : /\ Outcome("TimedOut") \in Service!Justified(r)
                          /\ death # Alive => Died(death) \in Service!Justified(r)
                          /\ ~CanSend => SendRefused \in Service!Justified(r)
  BY DEF Service!Justified, Service!Outcome, Service!Died, Outcome, Died, SendRefused
<1>1. ASSUME NEW r \in Requests, CheckDeath(r) PROVE Service!Next \/ UNCHANGED Service!vars
  <2>1. UNCHANGED <<Named, cancelled, death>> /\ CanSend' = CanSend
    BY <1>1 DEF CheckDeath, CanSend, outVars, taskVars, serverVars, talkVars, Named
  <2>2. CASE death = Alive
    <3>1. Same
      BY <1>1, <2>1, <2>2 DEF CheckDeath, Same
    <3> QED
      BY <3>1, SameStutters
  <2>3. CASE death # Alive
    <3>1. Resolve(r, Died(death)) /\ caller[r] # "done"
      BY <1>1, <2>3 DEF CheckDeath, CanBegin
    <3> QED
      BY <1>b, <2>1, <2>3, <3>1, ResolveIsService
  <2> QED
    BY <2>2, <2>3
<1>2. ASSUME NEW r \in Requests, SendRequest(r) PROVE Service!Next \/ UNCHANGED Service!vars
  <2>1. UNCHANGED <<Named, cancelled, death>> /\ CanSend' = CanSend
    BY <1>2 DEF SendRequest, CanSend, taskVars, serverVars, talkVars, Named
  <2>2. CASE CanSend
    <3>1. Same
      BY <1>2, <2>1, <2>2 DEF SendRequest, Same
    <3> QED
      BY <3>1, SameStutters
  <2>3. CASE ~CanSend
    <3>1. Resolve(r, SendRefused) /\ caller[r] # "done"
      BY <1>2, <2>3 DEF SendRequest
    <3> QED
      BY <1>b, <2>1, <2>3, <3>1, ResolveIsService
  <2> QED
    BY <2>2, <2>3
<1>3. ASSUME NEW r \in Requests, TakeAnswer(r) \/ TakeTimeout(r) \/ TakeDeath(r)
      PROVE Service!Next \/ UNCHANGED Service!vars
  <2>1. UNCHANGED <<Named, cancelled, death>> /\ CanSend' = CanSend /\ caller[r] # "done"
    BY <1>3 DEF TakeAnswer, TakeTimeout, TakeDeath, CanSend, outVars, taskVars, serverVars, talkVars, Named
  <2>2. \E o \in Service!Justified(r) : Resolve(r, o)
    BY <1>3, <1>b DEF TakeAnswer, TakeTimeout, TakeDeath, SentIsJustified
  <2> QED
    BY <2>1, <2>2, ResolveIsService
<1>4. ASSUME NEW r \in Requests, Cancel(r) PROVE Service!Next \/ UNCHANGED Service!vars
  <2>1. UNCHANGED <<Named, death, result>> /\ CanSend' = CanSend /\ cancelled' = cancelled \cup {r}
    BY <1>4 DEF Cancel, CanSend, taskVars, serverVars, talkVars, Named
  <2> QED
    BY <2>1 DEF Service!Next, Service!Withdraw
<1>5. ASSUME NEW t \in Tasks, PublishDeath(t) PROVE Service!Next \/ UNCHANGED Service!vars
  <2>1. UNCHANGED <<Named, cancelled, result>> /\ CanSend' = CanSend
    BY <1>5, <1>a DEF PublishDeath, CanSend, callerVars, outVars, serverVars, talkVars, Named
  <2>2. CASE death = Alive
    <3>1. cause[t] \in DeathReasons /\ death' = cause[t]
      BY <1>5, <2>2 DEF PublishDeath, PublishOrder, TypeOK, TaskTypeOK
    <3> QED
      BY <2>1, <2>2, <3>1 DEF Service!Next, Service!Lose
  <2>3. CASE death # Alive
    <3>1. Same
      BY <1>5, <2>1, <2>3 DEF PublishDeath, Same
    <3> QED
      BY <3>1, SameStutters
  <2> QED
    BY <2>2, <2>3
<1>6. ASSUME NEW t \in Tasks, KillTree(t) PROVE Service!Next \/ UNCHANGED Service!vars
  <2>1. UNCHANGED <<Named, cancelled, death, result, outOpen>>
    BY <1>6 DEF KillTree, callerVars, talkVars, Named
  <2>2. CASE t = "writer"
    <3>1. ~CanSend'
      BY <1>6, <1>a, <2>2 DEF KillTree, CanSend
    <3> QED
      BY <2>1, <3>1, CloseIsService
  <2>3. CASE t # "writer"
    <3>1. task'["writer"] = task["writer"]
      BY <1>6, <1>a, <2>3 DEF KillTree, Finds
    <3>2. Same
      BY <2>1, <3>1 DEF Same, CanSend
    <3> QED
      BY <3>2, SameStutters
  <2> QED
    BY <2>2, <2>3
<1>7. CASE ShutdownClosesStdin \/ DropTransport \/ WriterEnds
  <2>1. ~CanSend' /\ UNCHANGED <<Named, cancelled, death, result>>
    BY <1>7, <1>a DEF ShutdownClosesStdin, DropTransport, WriterEnds, CanSend, callerVars, outVars,
       serverVars, talkVars, Named
  <2> QED
    BY <2>1, CloseIsService
<1>8. ASSUME NEW r \in Requests, NEW k \in Answers, ServerAnswers(r, k)
      PROVE Service!Next \/ UNCHANGED Service!vars
  <2>1. /\ UNCHANGED <<cancelled, death, result>> /\ CanSend' = CanSend
        /\ spoken' = [spoken EXCEPT ![r] = @ \cup {k}]
    BY <1>8 DEF ServerAnswers, CanSend, callerVars, outVars, taskVars
  <2>2. spoken \in [Requests -> SUBSET AnswerKinds]
    BY DEF TypeOK, ServerTypeOK
  <2>3. CASE k = "Nameless"
    <3>1. UNCHANGED Named
      BY <2>1, <2>2, <2>3 DEF Named
    <3> QED
      BY <2>1, <3>1, SameStutters DEF Same
  <2>4. CASE k # "Nameless"
    <3>1. Named' = [Named EXCEPT ![r] = @ \cup {k}]
      BY <2>1, <2>2, <2>4 DEF Named
    <3> QED
      BY <2>1, <2>4, <3>1 DEF Service!Next, Service!Speak
  <2> QED
    BY <2>3, <2>4
<1>9. ASSUME NEW t \in Tasks, Drain(t) PROVE Service!Next \/ UNCHANGED Service!vars
  <2>1. task["writer"] = "end" <=> task'["writer"] = "end"
    BY <1>9, <1>a DEF Drain
  <2>2. Same
    BY <1>9, <2>1 DEF Drain, Same, CanSend, callerVars, outVars, serverVars, talkVars, Named
  <2> QED
    BY <2>2, SameStutters
<1>10. CASE \/ WriteFails \/ ReadGarbage \/ ReadError \/ ReadEof \/ Reap \/ ShutdownAsks
            \/ ShutdownNotifies \/ ShutdownSeesDeath \/ GraceExpires
  <2>1. task["writer"] = "end" <=> task'["writer"] = "end"
    BY <1>10, <1>a DEF WriteFails, ReadGarbage, ReadError, ReadEof, Reap, ShutdownAsks,
       ShutdownNotifies, ShutdownSeesDeath, GraceExpires, Finds
  <2>2. UNCHANGED <<Named, cancelled, death, result, outOpen>>
    BY <1>10 DEF WriteFails, ReadGarbage, ReadError, ReadEof, Reap, ShutdownAsks,
       ShutdownNotifies, ShutdownSeesDeath, GraceExpires, callerVars, outVars, serverVars, talkVars, Named
  <2>3. Same
    BY <2>1, <2>2 DEF Same, CanSend
  <2> QED
    BY <2>3, SameStutters
<1>11. ASSUME \/ UNCHANGED vars
              \/ \E r \in Requests : Register(r)
              \/ WriteFrame \/ DispatchAnswer \/ DispatchRequest
              \/ ServerAsks \/ ServerGarbles \/ ServerClosesPipe \/ ServerExits
       PROVE Service!Next \/ UNCHANGED Service!vars
  <2>1. UNCHANGED <<Named, cancelled, death, result, outOpen, task>>
    BY <1>11 DEF vars, Register, WriteFrame, DispatchAnswer, DispatchRequest, ServerAsks,
       ServerGarbles, ServerClosesPipe, ServerExits, callerVars, outVars, taskVars, serverVars,
       talkVars, Named
  <2>2. Same
    BY <2>1 DEF Same, CanSend
  <2> QED
    BY <2>2, SameStutters
<1> QED
  BY <1>1, <1>2, <1>3, <1>4, <1>5, <1>6, <1>7, <1>8, <1>9, <1>10, <1>11
     DEF Next, CallerStep, DeathStep, WriterStep, ReaderStep, CloserStep, ServerStep

\* What the server has said stays said.
LEMMA SpokenForGood ==
    ASSUME TypeOK, [Next]_vars PROVE \A r \in Requests : spoken[r] \subseteq spoken'[r]
<1>1. ASSUME NEW r \in Requests, NEW k \in Answers, ServerAnswers(r, k)
      PROVE  \A q \in Requests : spoken[q] \subseteq spoken'[q]
  BY <1>1 DEF ServerAnswers, TypeOK, ServerTypeOK
<1>2. ASSUME \/ UNCHANGED vars
             \/ \E q \in Requests : CallerStep(q) \/ TakeTimeout(q) \/ Cancel(q)
             \/ \E t \in Tasks : DeathStep(t)
             \/ WriterStep \/ ReaderStep \/ ReadError \/ Reap \/ ShutdownAsks \/ CloserStep
             \/ DropTransport \/ ServerAsks \/ ServerGarbles \/ ServerClosesPipe \/ ServerExits
      PROVE  UNCHANGED spoken
  BY <1>2, SpokenStays
<1> QED
  BY <1>1, <1>2 DEF Next, ServerStep

\* What the service may tell a request it may tell it later as well.
LEMMA JustifiedForGood ==
    ASSUME TypeOK, [Service!Next]_(Service!vars), NEW r \in Requests
    PROVE  Service!Justified(r) \subseteq Service!Justified(r)'
<1>1. Named \in [Requests -> SUBSET AnswerKinds]
  BY DEF TypeOK, ServerTypeOK, Named
<1>2. /\ Named[r] \subseteq Named'[r] /\ cancelled \subseteq cancelled'
      /\ death # Alive => death' = death
      /\ ~CanSend => ~CanSend'
  BY <1>1 DEF Service!Next, Service!vars, Service!Speak, Service!Withdraw, Service!Resolve,
     Service!Lose, Service!Close
<1> QED
  BY <1>2 DEF Service!Justified

LEMMA SentJustifiedStep ==
    ASSUME TypeOK, PublishOrder, ServiceInv, [Next]_vars PROVE SentIsJustified'
<1> USE DEF ServiceInv, SentIsJustified
<1>1. \A r \in Requests : Service!Justified(r) \subseteq Service!Justified(r)'
  BY ServiceStep, JustifiedForGood
<1>2. answer \in [Requests -> Outcomes \cup {NoOutcome}] /\ pending \subseteq Requests
  BY DEF TypeOK, CallerTypeOK
<1>3. ASSUME NEW r \in Requests, Cancel(r) PROVE SentIsJustified'
  <2>1. Outcome("Cancelled") \in Service!Justified(r)'
    BY <1>3 DEF Cancel, Service!Justified, Service!Outcome, Outcome
  <2> QED
    BY <1>1, <1>2, <1>3, <2>1 DEF Cancel
<1>4. ASSUME NEW t \in Tasks, Drain(t) PROVE SentIsJustified'
  <2>1. \A r \in Requests : Died(death) \in Service!Justified(r)'
    BY <1>4 DEF Drain, PublishOrder, Service!Justified, Service!Died, Died
  <2> QED
    BY <1>1, <1>2, <1>4, <2>1 DEF Drain
<1>5. CASE DispatchAnswer
  <2> DEFINE f == Head(stdout)
  <2>1. \/ answer' = answer
        \/ /\ f.id \in Requests /\ f.kind \in AnswerKinds /\ f.kind # "Nameless"
           /\ answer' = IF f.id \in pending
                        THEN [answer EXCEPT ![f.id] = Outcome(f.kind)] ELSE answer
    BY <1>5, AnswerTaken DEF TypeOK
  <2>2. f.kind \in AnswerKinds => f.kind \in spoken[f.id]
    <3>1. stdout \in Seq(InFrames) /\ stdout # <<>>
      BY <1>5 DEF DispatchAnswer, ReadFrame, TypeOK, ServerTypeOK
    <3>2. f = stdout[1] /\ 1 \in 1..Len(stdout)
      BY <3>1, QueueShrinks
    <3> QED
      BY <3>2 DEF FramesSpoken
  <2> HIDE DEF f
  <2>3. ASSUME f.id \in Requests, f.kind \in AnswerKinds, f.kind # "Nameless"
        PROVE  Outcome(f.kind) \in Service!Justified(f.id)
    <3>1. f.kind \in Named[f.id]
      BY <2>2, <2>3 DEF Named
    <3> QED
      BY <3>1 DEF Service!Justified, Service!Outcome, Outcome
  <2> QED
    BY <1>1, <1>2, <2>1, <2>3
<1>6. ASSUME UNCHANGED answer PROVE SentIsJustified'
  BY <1>1, <1>6
<1> QED
  BY <1>3, <1>4, <1>5, <1>6, AnswersStay DEF Next, DeathStep, ReaderStep

LEMMA FramesSpokenStep ==
    ASSUME TypeOK, PublishOrder, ServiceInv, [Next]_vars PROVE FramesSpoken'
<1> USE DEF ServiceInv
<1> DEFINE Fine(f) == f.kind \in AnswerKinds => f.kind \in spoken'[f.id]
<1>1. stdout \in Seq(InFrames) /\ \A i \in 1..Len(stdout) : Fine(stdout[i])
  <2>1. stdout \in Seq(InFrames)
    BY DEF TypeOK, ServerTypeOK
  <2>2. ASSUME NEW i \in 1..Len(stdout), stdout[i].kind \in AnswerKinds
        PROVE  stdout[i].id \in Requests
    BY <2>1, <2>2 DEF InFrames, Frame, AnswerKinds
  <2> QED
    BY <2>1, <2>2, SpokenForGood DEF FramesSpoken
<1>2. ASSUME NEW f \in InFrames, stdout' = Append(stdout, f), Fine(f) PROVE FramesSpoken'
  <2> HIDE DEF Fine
  <2>1. \A i \in 1..Len(stdout') : i \in 1..Len(stdout) \/ i = Len(stdout) + 1
    BY <1>1, <1>2, QueueGrows
  <2>2. \A i \in 1..Len(stdout') : Fine(stdout'[i])
    BY <1>1, <1>2, <2>1, QueueGrows
  <2> QED
    BY <2>2 DEF FramesSpoken, Fine
<1>3. CASE ReadFrame
  <2> HIDE DEF Fine
  <2>1. ASSUME NEW i \in 1..Len(stdout') PROVE i + 1 \in 1..Len(stdout) /\ stdout'[i] = stdout[i + 1]
    BY <1>1, <1>3, QueueShrinks DEF ReadFrame
  <2>2. \A i \in 1..Len(stdout') : Fine(stdout'[i])
    BY <1>1, <2>1
  <2> QED
    BY <2>2 DEF FramesSpoken, Fine
<1>4. CASE ReadGarbage
  <2> HIDE DEF Fine
  <2>1. PICK j \in 1..Len(stdout) : stdout' = SubSeq(stdout, j + 1, Len(stdout))
    BY <1>4 DEF ReadGarbage
  <2>2. ASSUME NEW i \in 1..Len(stdout') PROVE i + j \in 1..Len(stdout) /\ stdout'[i] = stdout[i + j]
    BY <1>1, <2>1
  <2>3. \A i \in 1..Len(stdout') : Fine(stdout'[i])
    BY <1>1, <2>2
  <2> QED
    BY <2>3 DEF FramesSpoken, Fine
<1>5. ASSUME stdout' = stdout \/ stdout' = <<>> PROVE FramesSpoken'
  BY <1>1, <1>5 DEF FramesSpoken
<1>6. ASSUME NEW t \in Tasks, KillTree(t) PROVE FramesSpoken'
  BY <1>5, <1>6 DEF KillTree
<1>7. ASSUME NEW r \in Requests, NEW k \in Answers, ServerAnswers(r, k) PROVE FramesSpoken'
  <2>1. Frame(k, r) \in InFrames /\ stdout' = Append(stdout, Frame(k, r))
    BY <1>7, AnswersAssumption DEF InFrames, ServerAnswers, Writes
  <2>2. Fine(Frame(k, r))
    BY <1>7 DEF ServerAnswers, Frame, TypeOK, ServerTypeOK
  <2> QED
    BY <1>2, <2>1, <2>2
<1>8. CASE ServerAsks \/ ServerGarbles
  <2>1. PICK f \in {Frame("request", Nobody), Frame("garbage", Nobody)} : stdout' = Append(stdout, f)
    BY <1>8 DEF ServerAsks, ServerGarbles, Writes
  <2>2. f \in InFrames /\ Fine(f)
    BY <2>1 DEF InFrames, Frame, AnswerKinds
  <2> QED
    BY <1>2, <2>1, <2>2
<1>9. ASSUME \/ UNCHANGED vars
             \/ \E q \in Requests : CallerStep(q) \/ TakeTimeout(q) \/ Cancel(q)
             \/ \E t \in Tasks : PublishDeath(t) \/ Drain(t)
             \/ WriterStep \/ ReadEof \/ ReadError \/ Reap \/ ShutdownAsks \/ CloserStep
             \/ DropTransport \/ ServerClosesPipe \/ ServerExits
      PROVE FramesSpoken'
  BY <1>5, <1>9, StdoutStays
<1> QED
  BY <1>3, <1>4, <1>6, <1>7, <1>8, <1>9
     DEF Next, DeathStep, ReaderStep, ServerStep, DispatchAnswer, DispatchRequest

\* However many callers there are and whatever the four tasks, the server and a shutdown do at
\* once, what the callers see is the service: every request is resolved at most once, with an
\* outcome the server or its caller gave reason for, and a server is lost once.
THEOREM TransportServesItsCallers == Spec => ServiceRefined
<1>1. Init => Service!Init
  BY DEF Init, Service!Init, Service!Unresolved, NoOutcome, CanSend, Tasks, Named
<1>2. Init => ServiceInv
  BY DEF Init, ServiceInv, Pending, SentIsJustified, FramesSpoken
<1>3. TypeOK /\ PublishOrder /\ ServiceInv /\ [Next]_vars => ServiceInv'
  BY PendingStep, SentJustifiedStep, FramesSpokenStep DEF ServiceInv
<1>4. TypeOK /\ PublishOrder /\ ServiceInv /\ [Next]_vars => [Service!Next]_(Service!vars)
  BY ServiceStep
<1> QED
  BY <1>1, <1>2, <1>3, <1>4, TypeCorrect, PTL DEF Spec, ServiceRefined, Service!Spec

-----------------------------------------------------------------------------
(* What the two liveness properties rest on.                               *)

\* The exit of the process is still to be reaped and published, or a death is published.
Reaping == death # Alive \/ task["reaper"] \in {"run", "publish"}

LEMMA ReapingStep == TypeOK /\ PublishOrder /\ Reaping /\ [Next]_vars => Reaping'
<1> SUFFICES ASSUME TypeOK, PublishOrder, Reaping, [Next]_vars PROVE Reaping'
  OBVIOUS
<1>0. "reaper" \in Tasks /\ "closer" \in Tasks /\ "reaper" # "closer" /\ task \in [Tasks -> {"idle",
         "run", "asking", "closing", "grace", "publish", "drain", "kill", "end"}]
  BY DEF Tasks, TypeOK, TaskTypeOK
<1>1. ASSUME NEW t \in Tasks, PublishDeath(t) PROVE Reaping'
  BY <1>0, <1>1 DEF PublishDeath, PublishOrder, Reaping
<1>2. ASSUME NEW t \in Tasks, Drain(t) \/ KillTree(t) PROVE Reaping'
  <2>1. t = "reaper" => death # Alive
    BY <1>2 DEF Drain, KillTree, Reaping
  <2>2. death' = death /\ (t # "reaper" => task'["reaper"] = task["reaper"])
    BY <1>0, <1>2 DEF Drain, KillTree, Finds
  <2> QED
    BY <2>1, <2>2 DEF Reaping
<1>3. CASE WriteFails \/ WriterEnds \/ ReadGarbage \/ ReadEof \/ ReadError \/ Reap
  BY <1>0, <1>3 DEF Finds, WriteFails, WriterEnds, ReadGarbage, ReadEof, ReadError, Reap, Reaping
<1>4. CASE ShutdownAsks \/ CloserStep
  BY <1>0, <1>4 DEF Finds, ShutdownAsks, CloserStep, ShutdownNotifies, ShutdownClosesStdin,
     ShutdownSeesDeath, GraceExpires, Reaping
<1>5. CASE \/ UNCHANGED vars
           \/ \E r \in Requests : CallerStep(r) \/ TakeTimeout(r) \/ Cancel(r)
           \/ WriteFrame \/ DispatchAnswer \/ DispatchRequest \/ DropTransport \/ ServerStep
  <2>1. UNCHANGED <<task, death>>
    BY <1>5 DEF vars, taskVars, CallerStep, CheckDeath, Register, SendRequest, TakeAnswer,
       TakeDeath, TakeTimeout, Cancel, WriteFrame, DispatchAnswer, DispatchRequest,
       DropTransport, ServerStep, ServerAnswers, ServerAsks, ServerGarbles, ServerClosesPipe,
       ServerExits
  <2> QED
    BY <2>1 DEF Reaping
<1> QED
  BY <1>1, <1>2, <1>3, <1>4, <1>5 DEF Next, DeathStep, WriterStep, ReaderStep

\* Every caller that waits can be woken: it has been, or it is in the map that a drain is about to
\* empty, or the reaper waits for the process and will publish its exit.  That it is woken is
\* ExitWakesEveryWaiter, which needs fairness.
THEOREM EveryWaiterCanBeWoken ==
    Spec => [](\A r \in Requests : caller[r] = "waiting" =>
                  \/ answer[r] # NoOutcome
                  \/ /\ r \in pending
                     /\ \/ \E t \in Tasks : task[t] = "drain"
                        \/ death = Alive /\ task["reaper"] \in {"run", "publish"})
<1>1. Init => NobodyEnters /\ InTheMapOrSent /\ Reaping
  BY DEF Init, NobodyEnters, InTheMapOrSent, Reaping, Tasks
<1>2. TypeOK /\ PublishOrder /\ NobodyEnters /\ InTheMapOrSent /\ Reaping /\ [Next]_vars
         => NobodyEnters' /\ InTheMapOrSent' /\ Reaping'
  BY NobodyEntersStep, InTheMapStep, ReapingStep
<1>3. NobodyEnters /\ InTheMapOrSent /\ Reaping =>
         \A r \in Requests : caller[r] = "waiting" =>
            \/ answer[r] # NoOutcome
            \/ /\ r \in pending
               /\ \/ \E t \in Tasks : task[t] = "drain"
                  \/ death = Alive /\ task["reaper"] \in {"run", "publish"}
  BY DEF NobodyEnters, Drained, InTheMapOrSent, Reaping
<1> QED
  BY <1>1, <1>2, <1>3, TypeCorrect, PTL DEF Spec

\* Where a question of the server is until it is answered.
QuestionUnread == \E i \in 1..Len(stdout) : stdout[i].kind = "request"
ReplyQueued == \E i \in 1..Len(outq) : outq[i].kind = "reply"
Broken == task["reader"] # "run" \/ task["writer"] # "run" \/ ~outOpen
QuestionKept == asked = "waiting" => QuestionUnread \/ ReplyQueued \/ Broken

\* A connection that is broken stays broken.
LEMMA BrokenForGood == TypeOK /\ Broken /\ [Next]_vars => Broken'
<1> SUFFICES ASSUME TypeOK, Broken, [Next]_vars PROVE Broken'
  OBVIOUS
<1>0. {"reader", "writer", "closer", "reaper"} \subseteq Tasks /\ task \in [Tasks -> {"idle",
         "run", "asking", "closing", "grace", "publish", "drain", "kill", "end"}]
  BY DEF Tasks, TypeOK, TaskTypeOK
<1>1. ASSUME NEW t \in Tasks, DeathStep(t) PROVE Broken'
  BY <1>0, <1>1 DEF Finds, DeathStep, PublishDeath, Drain, KillTree, Broken, outVars
<1>2. CASE WriteFails \/ WriterEnds \/ ReadGarbage \/ ReadEof \/ ReadError \/ Reap
  BY <1>0, <1>2 DEF Finds, WriteFails, WriterEnds, ReadGarbage, ReadEof, ReadError, Reap, Broken,
     outVars
<1>3. CASE ShutdownAsks \/ CloserStep
  BY <1>0, <1>3 DEF Finds, ShutdownAsks, CloserStep, ShutdownNotifies, ShutdownClosesStdin,
     ShutdownSeesDeath, GraceExpires, Broken, outVars
<1>4. CASE \/ UNCHANGED vars
           \/ \E r \in Requests : CallerStep(r) \/ TakeTimeout(r) \/ Cancel(r)
           \/ WriteFrame \/ DispatchAnswer \/ DispatchRequest \/ DropTransport \/ ServerStep
  <2>1. UNCHANGED task /\ outOpen' \in {outOpen, FALSE}
    BY <1>4 DEF vars, taskVars, outVars, CallerStep, CheckDeath, Register, SendRequest,
       TakeAnswer, TakeDeath, TakeTimeout, Cancel, WriteFrame, DispatchAnswer, DispatchRequest,
       DropTransport, ServerStep, ServerAnswers, ServerAsks, ServerGarbles, ServerClosesPipe,
       ServerExits
  <2> QED
    BY <2>1 DEF Broken
<1> QED
  BY <1>1, <1>2, <1>3, <1>4 DEF Next, WriterStep, ReaderStep

\* What is added behind a question or a reply leaves it where it is.
LEMMA StreamGrows ==
    ASSUME TypeOK, NEW f \in InFrames, stdout' = Append(stdout, f)
    PROVE  (QuestionUnread \/ f.kind = "request") => QuestionUnread'
<1>1. /\ stdout \in Seq(InFrames) /\ Len(stdout) \in Nat /\ Len(stdout') = Len(stdout) + 1
      /\ stdout'[Len(stdout) + 1] = f /\ \A i \in 1..Len(stdout) : stdout'[i] = stdout[i]
  BY QueueGrows DEF TypeOK, ServerTypeOK
<1>2. QuestionUnread => QuestionUnread'
  BY <1>1 DEF QuestionUnread
<1>3. f.kind = "request" => QuestionUnread'
  <2>1. Len(stdout) + 1 \in 1..Len(stdout')
    BY <1>1
  <2> QED
    BY <1>1, <2>1 DEF QuestionUnread
<1> QED
  BY <1>2, <1>3

LEMMA ReplyStays ==
    ASSUME TypeOK,
           \/ outq' = outq \/ \E f \in OutFrames : outq' = Append(outq, f)
           \/ outq # <<>> /\ outq' = Tail(outq) /\ Head(outq).kind # "reply"
    PROVE  ReplyQueued => ReplyQueued'
<1>0. outq \in Seq(OutFrames) /\ Len(outq) \in Nat
  BY DEF TypeOK, TaskTypeOK
<1>1. ASSUME NEW f \in OutFrames, outq' = Append(outq, f) PROVE ReplyQueued => ReplyQueued'
  <2>1. /\ Len(outq') = Len(outq) + 1 /\ \A i \in 1..Len(outq) : outq'[i] = outq[i]
    BY <1>0, <1>1, QueueGrows
  <2> QED
    BY <1>0, <2>1 DEF ReplyQueued
<1>2. CASE outq # <<>> /\ outq' = Tail(outq) /\ Head(outq).kind # "reply"
  <2>1. /\ Len(outq') = Len(outq) - 1 /\ Head(outq) = outq[1]
        /\ \A i \in 1..Len(outq') : outq'[i] = outq[i + 1]
    BY <1>0, <1>2, QueueShrinks
  <2>2. \A i \in 1..Len(outq) : i # 1 => i - 1 \in 1..Len(outq') /\ outq'[i - 1] = outq[i]
    BY <1>0, <2>1
  <2> QED
    BY <1>2, <2>1, <2>2 DEF ReplyQueued
<1>3. CASE outq' = outq
  BY <1>3 DEF ReplyQueued
<1> QED
  BY <1>1, <1>2, <1>3

LEMMA QuestionStep == TypeOK /\ QuestionKept /\ [Next]_vars => QuestionKept'
<1> SUFFICES ASSUME TypeOK, QuestionKept, [Next]_vars, asked' = "waiting", ~Broken'
             PROVE  QuestionUnread' \/ ReplyQueued'
  BY DEF QuestionKept
<1>0. ~Broken /\ CanSend /\ stdout \in Seq(InFrames) /\ outq \in Seq(OutFrames)
  BY BrokenForGood DEF Broken, CanSend, TypeOK, ServerTypeOK, TaskTypeOK
<1>1. CASE ServerAsks
  <2>1. Frame("request", Nobody) \in InFrames /\ Frame("request", Nobody).kind = "request"
    BY DEF InFrames, Frame
  <2> QED
    BY <1>1, <2>1, StreamGrows DEF ServerAsks, Writes
<1>2. CASE WriteFrame
  <2>1. /\ outq # <<>> /\ outq' = Tail(outq) /\ Head(outq).kind # "reply" /\ asked = "waiting"
        /\ UNCHANGED stdout
    BY <1>2 DEF WriteFrame, streamVars
  <2> QED
    BY <1>0, <2>1, ReplyStays DEF QuestionKept, QuestionUnread
<1>3. CASE DispatchAnswer \/ DispatchRequest
  <2>1. /\ stdout # <<>> /\ stdout' = Tail(stdout) /\ asked = "waiting"
    BY <1>3 DEF DispatchAnswer, DispatchRequest, ReadFrame, talkVars
  <2>2. /\ Len(stdout) \in Nat /\ Len(stdout') = Len(stdout) - 1 /\ Head(stdout) = stdout[1]
        /\ \A i \in 1..Len(stdout') : stdout'[i] = stdout[i + 1]
    BY <1>0, <2>1, QueueShrinks
  <2>3. \A i \in 1..Len(stdout) : i # 1 => i - 1 \in 1..Len(stdout') /\ stdout'[i - 1] = stdout[i]
    BY <2>2
  <2>4. CASE DispatchAnswer
    <3>1. Head(stdout).kind # "request" /\ outq' = outq
      BY <2>4, AnswersAssumption DEF DispatchAnswer, AnswerKinds, outVars
    <3> QED
      BY <1>0, <2>1, <2>2, <2>3, <3>1, ReplyStays DEF QuestionKept, QuestionUnread
  <2>5. CASE DispatchRequest
    <3>1. Frame("reply", Nobody) \in OutFrames /\ Frame("reply", Nobody).kind = "reply"
      BY DEF OutFrames, Frame
    <3>2. outq' = Append(outq, Frame("reply", Nobody))
      BY <1>0, <2>5 DEF DispatchRequest, BestEffort
    <3>3. /\ Len(outq') = Len(outq) + 1 /\ outq'[Len(outq) + 1] = Frame("reply", Nobody)
          /\ Len(outq) \in Nat
      BY <1>0, <3>1, <3>2, QueueGrows
    <3>4. Len(outq) + 1 \in 1..Len(outq')
      BY <3>3
    <3> QED
      BY <3>1, <3>3, <3>4 DEF ReplyQueued
  <2> QED
    BY <1>3, <2>4, <2>5
<1>4. ASSUME UNCHANGED <<asked, stdout>>,
             outq' = outq \/ \E f \in OutFrames : outq' = Append(outq, f)
      PROVE  QuestionUnread' \/ ReplyQueued'
  BY <1>0, <1>4, ReplyStays DEF QuestionKept, QuestionUnread
<1>5. ASSUME NEW f \in InFrames, UNCHANGED <<asked, outq>>, stdout' = Append(stdout, f)
      PROVE  QuestionUnread' \/ ReplyQueued'
  BY <1>0, <1>5, StreamGrows, ReplyStays DEF QuestionKept
<1>6. CASE (\E r \in Requests, k \in Answers : ServerAnswers(r, k)) \/ ServerGarbles
  <2>1. Frame("garbage", Nobody) \in InFrames
        /\ \A r \in Requests, k \in Answers : Frame(k, r) \in InFrames
    BY AnswersAssumption DEF InFrames
  <2> QED
    BY <1>5, <1>6, <2>1 DEF ServerAnswers, ServerGarbles, Writes, outVars, talkVars
<1>7. ASSUME NEW t \in Tasks, KillTree(t) PROVE QuestionUnread' \/ ReplyQueued'
  <2>1. t \notin {"reader", "writer"}
    BY <1>0, <1>7 DEF KillTree, Broken
  <2> QED
    BY <1>4, <1>7, <2>1 DEF KillTree, talkVars
<1>8. CASE ReadGarbage \/ WriteFails
  BY <1>8 DEF ReadGarbage, WriteFails, Finds, Broken, TypeOK, TaskTypeOK, Tasks
<1>9. CASE \/ \E r \in Requests : CallerStep(r) \/ TakeTimeout(r) \/ Cancel(r)
           \/ ShutdownNotifies
  <2>1. UNCHANGED <<asked, stdout>>
    BY <1>9 DEF CallerStep, CheckDeath, Register, SendRequest, TakeAnswer, TakeDeath, TakeTimeout,
       Cancel, ShutdownNotifies, serverVars, talkVars, streamVars
  <2>2. Notification \in OutFrames /\ \A r \in Requests : Frame("request", r) \in OutFrames
    BY DEF OutFrames
  <2>3. outq' = outq \/ \E f \in OutFrames : outq' = Append(outq, f)
    BY <1>9, <2>2 DEF CallerStep, CheckDeath, Register, SendRequest, TakeAnswer, TakeDeath,
       TakeTimeout, Cancel, ShutdownNotifies, BestEffort, outVars
  <2> QED
    BY <1>4, <2>1, <2>3
<1>10. CASE \/ UNCHANGED vars \/ \E t \in Tasks : PublishDeath(t) \/ Drain(t)
            \/ WriterEnds \/ ReadEof \/ ReadError \/ Reap \/ ShutdownAsks
            \/ ShutdownClosesStdin \/ ShutdownSeesDeath \/ GraceExpires
            \/ DropTransport \/ ServerClosesPipe \/ ServerExits
  <2>1. UNCHANGED <<asked, stdout, outq>>
    BY <1>10 DEF vars, outVars, serverVars, talkVars, streamVars, PublishDeath, Drain, WriterEnds,
       ReadEof, ReadError, Reap, ShutdownAsks, ShutdownClosesStdin, ShutdownSeesDeath,
       GraceExpires, DropTransport, ServerClosesPipe, ServerExits
  <2> QED
    BY <1>4, <2>1
<1> QED
  BY <1>1, <1>2, <1>3, <1>6, <1>7, <1>8, <1>9, <1>10
     DEF Next, DeathStep, WriterStep, ReaderStep, CloserStep, ServerStep

\* No question of the server's is dropped: until it is answered it is in the stream, or the reply
\* to it is queued, as long as the reader, the writer and the queue between them last (dispatch
\* and reply of transport.rs).  That it is answered is ServerQuestionAnswered, which needs fairness.
THEOREM QuestionsAreNotDropped ==
    Spec => [](asked = "waiting" =>
                  \/ \E i \in 1..Len(stdout) : stdout[i].kind = "request"
                  \/ \E i \in 1..Len(outq) : outq[i].kind = "reply"
                  \/ task["reader"] # "run" \/ task["writer"] # "run" \/ ~outOpen)
<1>1. Init => QuestionKept
  BY DEF Init, QuestionKept
<1>2. TypeOK /\ QuestionKept /\ [Next]_vars => QuestionKept'
  BY QuestionStep
<1>3. QuestionKept => (asked = "waiting" =>
                  \/ \E i \in 1..Len(stdout) : stdout[i].kind = "request"
                  \/ \E i \in 1..Len(outq) : outq[i].kind = "reply"
                  \/ task["reader"] # "run" \/ task["writer"] # "run" \/ ~outOpen)
  BY DEF QuestionKept, QuestionUnread, ReplyQueued, Broken
<1> QED
  BY <1>1, <1>2, <1>3, TypeCorrect, PTL DEF Spec

=============================================================================
