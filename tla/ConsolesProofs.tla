----------------------------- MODULE ConsolesProofs ----------------------------
(***************************************************************************)
(* The two kinds of console a user types at or watches.                    *)
(*                                                                         *)
(* The terminals, for any number of terminals and commands and any sizes:  *)
(* who holds the mutex of their map, that every shell can be closed, and   *)
(* that a session is gone before its exit is announced.                    *)
(*                                                                         *)
(* The debug console, for any pipes and batches: it implements the output  *)
(* stream it promises.                                                     *)
(***************************************************************************)
EXTENDS Terminals, Sequences, WellFoundedInduction, TLAPS

-----------------------------------------------------------------------------
(* Terminals                                                               *)

\* The mutex is kept from one step to another by the command that is writing, and by no other.
HeldByTheWriter == \A c \in Commands : lock = c <=> command[c].step = "writing"

\* A waiter that goes on has seen its shell exit, and no reader has more to read than was printed.
ReapedAfterExit ==
    \A t \in Terminals : waiter[t] \in {"removing", "announcing", "ended"} => shell[t] = "exited"
ReadAfterPrinted == \A t \in Terminals : output[t] <= printed[t]

\* A terminal whose session is or was in the map has been spawned before.
SpawnedFirst == \A t \in Terminals : shell[t] = "none" => waiter[t] = "none"

\* A terminal that is being opened has no session, and no call names it yet.
UnknownWhileOpening ==
    \A t \in Terminals : waiter[t] = "none" =>
        t \notin sessions /\ \A c \in Commands : command[c].id # t

Inv == /\ TypeOK /\ HeldByTheWriter /\ ReapedAfterExit /\ ReadAfterPrinted
       /\ NoShellWithoutASession /\ GoneBeforeAnnounced /\ UnknownWhileOpening /\ SpawnedFirst

LEMMA InitInv == Init => Inv
<1> SUFFICES ASSUME Init PROVE Inv
    OBVIOUS
<1> USE SizesAssumption, NamesAssumption
<1>1. command \in [Commands -> [step : Steps, kind : Kinds \cup {None},
                                id : Terminals \cup {None}, left : 0 .. Paste]]
  <2>1. [step |-> "idle", kind |-> None, id |-> None, left |-> 0] \in
           [step : Steps, kind : Kinds \cup {None}, id : Terminals \cup {None}, left : 0 .. Paste]
    BY DEF Steps
  <2> QED
    BY <2>1 DEF Init, NoCall
<1>2. TypeOK
  BY <1>1 DEF Init, TypeOK
<1>3. HeldByTheWriter
  BY DEF Init, HeldByTheWriter, NoCall
<1>4. UnknownWhileOpening /\ SpawnedFirst
  BY NamesAssumption DEF Init, UnknownWhileOpening, NoCall, SpawnedFirst
<1> QED
  BY <1>2, <1>3, <1>4 DEF Init, Inv, ReapedAfterExit, ReadAfterPrinted, NoShellWithoutASession,
                    GoneBeforeAnnounced

\* The steps that leave the map, its mutex and the commands alone.
Apart == UNCHANGED <<sessions, lock, command>>

LEMMA ApartInv ==
    ASSUME Inv, NEW t \in Terminals, ReaderNext(t) \/ Reap(t) \/ Announce(t) \/ Forward(t)
                                     \/ PanelGoes(t) \/ ShellNext(t)
    PROVE  Inv'
<1> USE SizesAssumption, NamesAssumption DEF Inv
<1>1. Apart
  BY DEF Apart, ReaderNext, ReadOutput, SendOutput, Reap, Announce, Forward, PanelGoes,
         ShellNext, ShellReads, ShellPrints, ShellExits, ptys, threads
<1>2. \A u \in Terminals : shell'[u] = "alive" => shell[u] = "alive"
  BY DEF TypeOK, ReaderNext, ReadOutput, SendOutput, Reap, Announce, Forward, PanelGoes,
         ShellNext, ShellReads, ShellPrints, ShellExits, ptys, threads
<1>3. \A u \in Terminals : shell[u] = "exited" => shell'[u] = "exited"
  BY DEF TypeOK, ReaderNext, ReadOutput, SendOutput, Reap, Announce, Forward, PanelGoes,
         ShellNext, ShellReads, ShellPrints, ShellExits, ptys, threads
<1>4. \A u \in Terminals :
         /\ waiter'[u] \in {"announcing", "ended"} => waiter[u] \in {"announcing", "ended"}
         /\ waiter'[u] = "removing" => waiter[u] = "removing" \/ shell[u] = "exited"
         /\ waiter'[u] = "none" <=> waiter[u] = "none"
  BY DEF TypeOK, ReaderNext, ReadOutput, SendOutput, Reap, Announce, Forward, PanelGoes,
         ShellNext, ShellReads, ShellPrints, ShellExits, ptys, threads
<1>5. TypeOK' /\ ReadAfterPrinted'
  <2>1. CASE ReadOutput(t)
    BY <2>1 DEF ReadOutput, TypeOK, ReadAfterPrinted
  <2>2. CASE SendOutput(t)
    BY <2>2 DEF SendOutput, TypeOK, ReadAfterPrinted, ptys
  <2>3. CASE Reap(t)
    BY <2>3 DEF Reap, TypeOK, ReadAfterPrinted, ptys
  <2>4. CASE Announce(t)
    BY <2>4 DEF Announce, TypeOK, ReadAfterPrinted, ptys
  <2>5. CASE Forward(t)
    BY <2>5 DEF Forward, TypeOK, ReadAfterPrinted, ptys, threads
  <2>6. CASE PanelGoes(t)
    BY <2>6 DEF PanelGoes, TypeOK, ReadAfterPrinted, ptys, threads
  <2>7. CASE ShellReads(t)
    BY <2>7 DEF ShellReads, TypeOK, ReadAfterPrinted, threads
  <2>8. CASE ShellPrints(t)
    BY <2>8 DEF ShellPrints, TypeOK, ReadAfterPrinted, threads
  <2>9. CASE ShellExits(t)
    BY <2>9 DEF ShellExits, TypeOK, ReadAfterPrinted, threads
  <2> QED
    BY <2>1, <2>2, <2>3, <2>4, <2>5, <2>6, <2>7, <2>8, <2>9 DEF ReaderNext, ShellNext
<1>6. HeldByTheWriter'
  BY <1>1 DEF Apart, HeldByTheWriter
<1>7. ReapedAfterExit'
  BY <1>3, <1>4 DEF ReapedAfterExit
<1>8. NoShellWithoutASession'
  BY <1>1, <1>2, <1>4 DEF Apart, NoShellWithoutASession, Opening
<1>9. GoneBeforeAnnounced'
  BY <1>1, <1>4 DEF Apart, GoneBeforeAnnounced
<1>10. UnknownWhileOpening' /\ SpawnedFirst'
  <2>1. \A u \in Terminals : shell'[u] = "none" => shell[u] = "none"
    BY DEF TypeOK, ReaderNext, ReadOutput, SendOutput, Reap, Announce, Forward, PanelGoes,
           ShellNext, ShellReads, ShellPrints, ShellExits, ptys, threads
  <2> QED
    BY <1>1, <1>4, <2>1 DEF Apart, UnknownWhileOpening, SpawnedFirst
<1> QED
  BY <1>5, <1>6, <1>7, <1>8, <1>9, <1>10

\* Spawning the shell of a terminal, inserting its session, and removing one that has ended.
LEMMA SpawnInv == ASSUME Inv, NEW t \in Terminals, Spawn(t) PROVE Inv'
<1> USE SizesAssumption, NamesAssumption DEF Inv, Spawn, threads
<1>1. TypeOK' /\ HeldByTheWriter' /\ ReadAfterPrinted'
  BY DEF TypeOK, HeldByTheWriter, ReadAfterPrinted
<1>2. waiter[t] = "none"
  <2>1. waiter[t] \notin {"removing", "announcing", "ended"}
    BY DEF ReapedAfterExit
  <2>2. waiter[t] # "waiting"
    BY DEF SpawnedFirst
  <2> QED
    BY <2>1, <2>2 DEF TypeOK
<1>3. ReapedAfterExit' /\ GoneBeforeAnnounced' /\ UnknownWhileOpening' /\ SpawnedFirst'
  BY DEF TypeOK, ReapedAfterExit, GoneBeforeAnnounced, UnknownWhileOpening, SpawnedFirst
<1>4. NoShellWithoutASession'
  BY <1>2 DEF TypeOK, NoShellWithoutASession, Opening
<1> QED
  BY <1>1, <1>3, <1>4

LEMMA InsertInv == ASSUME Inv, NEW t \in Terminals, Insert(t) PROVE Inv'
<1> USE SizesAssumption, NamesAssumption DEF Inv, Insert, ptys
<1>1. TypeOK' /\ HeldByTheWriter' /\ ReadAfterPrinted'
  BY DEF TypeOK, HeldByTheWriter, ReadAfterPrinted
<1>2. ReapedAfterExit' /\ GoneBeforeAnnounced' /\ UnknownWhileOpening' /\ SpawnedFirst'
  BY DEF TypeOK, ReapedAfterExit, GoneBeforeAnnounced, UnknownWhileOpening, SpawnedFirst, Opening
<1>3. NoShellWithoutASession'
  BY DEF TypeOK, NoShellWithoutASession, Opening
<1> QED
  BY <1>1, <1>2, <1>3

LEMMA RemoveInv == ASSUME Inv, NEW t \in Terminals, Remove(t) PROVE Inv'
<1> USE SizesAssumption, NamesAssumption DEF Inv, Remove, ptys
<1>1. TypeOK' /\ HeldByTheWriter' /\ ReadAfterPrinted'
  BY DEF TypeOK, HeldByTheWriter, ReadAfterPrinted
<1>2. ReapedAfterExit' /\ GoneBeforeAnnounced' /\ UnknownWhileOpening' /\ SpawnedFirst'
  BY DEF TypeOK, ReapedAfterExit, GoneBeforeAnnounced, UnknownWhileOpening, SpawnedFirst
<1>3. NoShellWithoutASession'
  BY DEF TypeOK, ReapedAfterExit, NoShellWithoutASession, Opening
<1> QED
  BY <1>1, <1>2, <1>3

-----------------------------------------------------------------------------
(* The commands.                                                           *)

Records == [step : Steps, kind : Kinds \cup {None}, id : Terminals \cup {None}, left : 0 .. Paste]

LEMMA RecordsType == TypeOK => command \in [Commands -> Records]
BY DEF TypeOK, Records

LEMMA CallInv ==
    ASSUME Inv, NEW c \in Commands, NEW kind \in Kinds, NEW t \in Terminals, Call(c, kind, t)
    PROVE  Inv'
<1> USE SizesAssumption, NamesAssumption DEF Inv
<1>1. [step |-> "begin", kind |-> kind, id |-> t,
       left |-> IF kind = "write" THEN Paste ELSE 0] \in Records
  BY DEF Records, Steps
<1>2. command' \in [Commands -> Records]
  BY <1>1, RecordsType DEF Call
<1>3. TypeOK'
  BY <1>2 DEF Call, TypeOK, Records, ptys, threads
<1>4. /\ command[c].step = "idle" /\ command'[c].step = "begin" /\ command'[c].id = t
      /\ \A d \in Commands \ {c} : command'[d] = command[d]
  BY RecordsType DEF Call
<1>5. HeldByTheWriter'
  BY <1>4 DEF Call, HeldByTheWriter
<1>6. NoShellWithoutASession'
  BY <1>4 DEF Call, NoShellWithoutASession, Opening, ptys, threads
<1>7. /\ ReapedAfterExit' /\ ReadAfterPrinted' /\ GoneBeforeAnnounced'
      /\ UnknownWhileOpening' /\ SpawnedFirst'
  BY <1>4 DEF Call, ReapedAfterExit, ReadAfterPrinted, GoneBeforeAnnounced, UnknownWhileOpening,
              SpawnedFirst, ptys, threads
<1> QED
  BY <1>3, <1>5, <1>6, <1>7

\* A step of a command keeps its place in the table typed and the others as they are.
LEMMA GoesOn ==
    ASSUME TypeOK, NEW c \in Commands, NEW s \in Steps,
           command' = [command EXCEPT ![c].step = s]
    PROVE  /\ command' \in [Commands -> Records]
           /\ command'[c].step = s /\ command'[c].id = command[c].id
           /\ \A d \in Commands \ {c} : command'[d] = command[d]
<1>1. command \in [Commands -> Records]
  BY RecordsType
<1>2. [command[c] EXCEPT !.step = s] \in Records
  BY <1>1 DEF Records
<1>3. command' = [command EXCEPT ![c] = [command[c] EXCEPT !.step = s]]
  BY <1>1
<1> QED
  BY <1>1, <1>2, <1>3 DEF Records

\* A call that returns names no terminal any more.
LEMMA Returned ==
    ASSUME TypeOK, NEW c \in Commands, Return(c)
    PROVE  /\ command' \in [Commands -> Records]
           /\ command'[c].step = "done" /\ command'[c].id = None
           /\ \A d \in Commands \ {c} : command'[d] = command[d]
<1>1. NoCall("done") \in Records
  BY SizesAssumption DEF NoCall, Records, Steps
<1>2. NoCall("done").step = "done" /\ NoCall("done").id = None
  BY DEF NoCall
<1> QED
  BY <1>1, <1>2, RecordsType DEF Return

\* What no call is told while it leaves the map and the threads alone.
LEMMA UnknownStays ==
    ASSUME Inv, NEW c \in Commands, command'[c].id \in {command[c].id, None},
           \A d \in Commands \ {c} : command'[d] = command[d],
           sessions' \subseteq sessions, UNCHANGED <<reader, waiter>>,
           \A t \in Terminals : shell'[t] = "none" => shell[t] = "none"
    PROVE  UnknownWhileOpening' /\ SpawnedFirst'
<1>1. \A d \in Commands, t \in Terminals : command[d].id # t => command'[d].id # t
  BY NamesAssumption
<1> QED
  BY <1>1 DEF Inv, UnknownWhileOpening, SpawnedFirst

LEMMA BeginWriteInv == ASSUME Inv, NEW c \in Commands, BeginWrite(c) PROVE Inv'
<1> USE SizesAssumption, NamesAssumption DEF Inv
<1>1. PICK s \in {"writing", "done"} :
         /\ lock' = IF s = "writing" THEN c ELSE lock
         /\ command' \in [Commands -> Records] /\ command'[c].step = s
         /\ command'[c].id \in {command[c].id, None}
         /\ \A d \in Commands \ {c} : command'[d] = command[d]
  BY GoesOn, Returned DEF BeginWrite, Steps
<1>2. /\ command' \in [Commands -> Records] /\ command'[c].step = s
      /\ \A d \in Commands \ {c} : command'[d] = command[d]
  BY <1>1
<1>3. lock = None /\ command[c].step = "begin"
  BY DEF BeginWrite
<1>4. TypeOK'
  BY <1>1, <1>2 DEF BeginWrite, TypeOK, Records, ptys, threads
<1>5. HeldByTheWriter'
  BY <1>1, <1>2, <1>3 DEF HeldByTheWriter
<1>6. NoShellWithoutASession'
  BY <1>2, <1>3 DEF BeginWrite, NoShellWithoutASession, Opening, ptys, threads
<1>7. ReapedAfterExit' /\ ReadAfterPrinted' /\ GoneBeforeAnnounced'
  BY DEF BeginWrite, ReapedAfterExit, ReadAfterPrinted, GoneBeforeAnnounced, ptys, threads
<1>8. UnknownWhileOpening' /\ SpawnedFirst'
  BY <1>1, UnknownStays DEF BeginWrite, ptys, threads
<1> QED
  BY <1>4, <1>5, <1>6, <1>7, <1>8

LEMMA WriteSomeInv == ASSUME Inv, NEW c \in Commands, WriteSome(c) PROVE Inv'
<1> USE SizesAssumption, NamesAssumption DEF Inv
<1>1. command[c].step = "writing" /\ command \in [Commands -> Records]
  BY RecordsType DEF WriteSome
<1>2. /\ command' \in [Commands -> Records]
      /\ \/ command'[c].step = "writing" /\ UNCHANGED lock
         \/ command'[c].step = "done" /\ lock' = None
      /\ command'[c].id \in {command[c].id, None}
      /\ \A d \in Commands \ {c} : command'[d] = command[d]
  <2>1. CASE Return(c) /\ lock' = None
    BY <2>1, Returned
  <2>2. CASE command[c].left > 0 /\ command' = [command EXCEPT ![c].left = @ - 1] /\ UNCHANGED lock
    <3>1. command[c].left - 1 \in 0 .. Paste
      BY <1>1, <2>2 DEF Records
    <3>2. [command[c] EXCEPT !.left = @ - 1] \in Records
      BY <1>1, <3>1 DEF Records
    <3>3. command' = [command EXCEPT ![c] = [command[c] EXCEPT !.left = @ - 1]]
      BY <1>1, <2>2
    <3>4. /\ [command[c] EXCEPT !.left = @ - 1].step = "writing"
          /\ [command[c] EXCEPT !.left = @ - 1].id = command[c].id
      BY <1>1 DEF Records
    <3> QED
      BY <1>1, <2>2, <3>2, <3>3, <3>4
  <2> QED
    BY <2>1, <2>2 DEF WriteSome
<1>3. TypeOK'
  <2>1. unread' \in [Terminals -> 0 .. PtyRoom]
    BY DEF WriteSome, TypeOK
  <2> QED
    BY <1>2, <2>1 DEF WriteSome, TypeOK, Records, threads
<1>4. HeldByTheWriter'
  BY <1>1, <1>2 DEF HeldByTheWriter
<1>5. NoShellWithoutASession'
  BY <1>1, <1>2 DEF WriteSome, NoShellWithoutASession, Opening, threads
<1>6. ReapedAfterExit' /\ ReadAfterPrinted' /\ GoneBeforeAnnounced'
  BY DEF WriteSome, ReapedAfterExit, ReadAfterPrinted, GoneBeforeAnnounced, threads
<1>7. UnknownWhileOpening' /\ SpawnedFirst'
  BY <1>2, UnknownStays DEF WriteSome, threads
<1> QED
  BY <1>3, <1>4, <1>5, <1>6, <1>7

LEMMA ResizeInv == ASSUME Inv, NEW c \in Commands, Resize(c) PROVE Inv'
<1> USE SizesAssumption, NamesAssumption DEF Inv
<1>1. /\ command' \in [Commands -> Records] /\ command'[c].step = "done"
      /\ command'[c].id = None
      /\ \A d \in Commands \ {c} : command'[d] = command[d]
  BY Returned DEF Resize
<1>2. command[c].step = "begin"
  BY DEF Resize
<1>3. TypeOK'
  BY <1>1 DEF Resize, TypeOK, Records, ptys, threads
<1>4. HeldByTheWriter'
  BY <1>1, <1>2 DEF Resize, HeldByTheWriter
<1>5. NoShellWithoutASession'
  BY <1>1, <1>2 DEF Resize, NoShellWithoutASession, Opening, ptys, threads
<1>6. ReapedAfterExit' /\ ReadAfterPrinted' /\ GoneBeforeAnnounced'
  BY DEF Resize, ReapedAfterExit, ReadAfterPrinted, GoneBeforeAnnounced, ptys, threads
<1>7. UnknownWhileOpening' /\ SpawnedFirst'
  BY <1>1, UnknownStays DEF Resize, ptys, threads
<1> QED
  BY <1>3, <1>4, <1>5, <1>6, <1>7

LEMMA CloseInv == ASSUME Inv, NEW c \in Commands, Close(c) PROVE Inv'
<1> USE SizesAssumption, NamesAssumption DEF Inv
<1>1. PICK s \in {"killing", "done"} :
         /\ command' \in [Commands -> Records] /\ command'[c].step = s
         /\ command[c].id \in sessions => s = "killing" /\ command'[c].id = command[c].id
         /\ command'[c].id \in {command[c].id, None}
         /\ \A d \in Commands \ {c} : command'[d] = command[d]
  BY GoesOn, Returned DEF Close, Steps
<1>2. /\ command' \in [Commands -> Records] /\ command'[c].step = s
      /\ \A d \in Commands \ {c} : command'[d] = command[d]
  BY <1>1
<1>3. command[c].step = "begin"
  BY DEF Close
<1>4. TypeOK'
  BY <1>2 DEF Close, TypeOK, Records, ptys, threads
<1>5. HeldByTheWriter'
  BY <1>2, <1>3 DEF Close, HeldByTheWriter
<1>6. NoShellWithoutASession'
  <2> SUFFICES ASSUME NEW t \in Terminals, shell[t] = "alive", ~Opening(t)
               PROVE  t \in sessions' \/ \E d \in Commands :
                         command'[d].step = "killing" /\ command'[d].id = t
    BY DEF Close, NoShellWithoutASession, Opening, ptys, threads
  <2>1. CASE t \in sessions /\ t = command[c].id
    BY <1>1, <1>2, <2>1
  <2>2. CASE t \in sessions /\ t # command[c].id
    BY <2>2 DEF Close
  <2>3. CASE \E d \in Commands : command[d].step = "killing" /\ command[d].id = t
    BY <1>2, <1>3, <2>3
  <2> QED
    BY <2>1, <2>2, <2>3 DEF NoShellWithoutASession
<1>7. ReapedAfterExit' /\ ReadAfterPrinted' /\ GoneBeforeAnnounced'
  BY DEF Close, ReapedAfterExit, ReadAfterPrinted, GoneBeforeAnnounced, ptys, threads
<1>8. UnknownWhileOpening' /\ SpawnedFirst'
  BY <1>1, UnknownStays DEF Close, ptys, threads
<1> QED
  BY <1>4, <1>5, <1>6, <1>7, <1>8

LEMMA KillInv == ASSUME Inv, NEW c \in Commands, Kill(c) PROVE Inv'
<1> USE SizesAssumption, NamesAssumption DEF Inv
<1>1. /\ command' \in [Commands -> Records] /\ command'[c].step = "done"
      /\ command'[c].id = None
      /\ \A d \in Commands \ {c} : command'[d] = command[d]
  BY Returned DEF Kill
<1>2. command[c].step = "killing"
  BY DEF Kill
<1>3. TypeOK'
  BY <1>1 DEF Kill, TypeOK, Records, threads
<1>4. HeldByTheWriter'
  BY <1>1, <1>2 DEF Kill, HeldByTheWriter
<1>5. NoShellWithoutASession'
  <2> SUFFICES ASSUME NEW t \in Terminals, shell'[t] = "alive", ~Opening(t)'
               PROVE  t \in sessions' \/ \E d \in Commands :
                         command'[d].step = "killing" /\ command'[d].id = t
    BY DEF NoShellWithoutASession
  <2>1. shell[t] = "alive" /\ t # command[c].id
    BY DEF Kill, TypeOK
  <2> QED
    BY <1>1, <1>2, <2>1 DEF Kill, NoShellWithoutASession, Opening, threads
<1>6. ReapedAfterExit' /\ ReadAfterPrinted' /\ GoneBeforeAnnounced'
  BY DEF Kill, TypeOK, ReapedAfterExit, ReadAfterPrinted, GoneBeforeAnnounced, threads
<1>7. UnknownWhileOpening' /\ SpawnedFirst'
  BY <1>1, UnknownStays DEF Kill, TypeOK, threads
<1> QED
  BY <1>3, <1>4, <1>5, <1>6, <1>7

-----------------------------------------------------------------------------

LEMMA StepInv == Inv /\ [Next]_vars => Inv'
<1> SUFFICES ASSUME Inv, [Next]_vars PROVE Inv'
    OBVIOUS
<1>1. CASE UNCHANGED vars
  BY <1>1 DEF vars, ptys, threads, Inv, TypeOK, HeldByTheWriter, ReapedAfterExit,
              ReadAfterPrinted, NoShellWithoutASession, GoneBeforeAnnounced, Opening,
              UnknownWhileOpening, SpawnedFirst
<1>2. ASSUME NEW t \in Terminals, Spawn(t) \/ Insert(t) \/ WaiterNext(t) \/ ReaderNext(t) \/ Forward(t)
                                  \/ PanelGoes(t) \/ ShellNext(t)
      PROVE  Inv'
  BY <1>2, SpawnInv, InsertInv, RemoveInv, ApartInv DEF WaiterNext
<1>3. ASSUME NEW c \in Commands, CommandNext(c) PROVE Inv'
  BY <1>3, BeginWriteInv, WriteSomeInv, ResizeInv, CloseInv, KillInv DEF CommandNext
<1>4. ASSUME NEW c \in Commands, NEW kind \in Kinds, NEW t \in Terminals, Call(c, kind, t)
      PROVE  Inv'
  BY <1>4, CallInv
<1> QED
  BY <1>1, <1>2, <1>3, <1>4 DEF Next

\* The map of terminals in every reachable state: one command at most has its mutex, and every
\* variable keeps its type.
THEOREM TerminalsTypeCorrect == Spec => [](TypeOK /\ HeldByTheWriter)
<1>1. Inv => TypeOK /\ HeldByTheWriter
  BY DEF Inv
<1> QED
  BY <1>1, InitInv, StepInv, PTL DEF Spec

\* However many commands close, resize and write at once, a shell that has been opened and runs
\* can be closed: its session is in the map, or the command that took it out is about to kill it.
\* One whose open still waits for the mutex is not in the map, and no call can name it.
THEOREM EveryShellCanBeClosed ==
    Spec => []/\ NoShellWithoutASession
              /\ \A t \in Terminals : Opening(t) =>
                    t \notin sessions /\ \A c \in Commands : command[c].id # t
<1>1. Inv => /\ NoShellWithoutASession
             /\ \A t \in Terminals : Opening(t) =>
                   t \notin sessions /\ \A c \in Commands : command[c].id # t
  BY DEF Inv, UnknownWhileOpening, Opening
<1> QED
  BY <1>1, InitInv, StepInv, PTL DEF Spec

\* A client that acts on the announcement of an exit finds the session gone.
THEOREM ExitsAreAnnouncedLast == Spec => []GoneBeforeAnnounced
<1>1. Inv => GoneBeforeAnnounced
  BY DEF Inv
<1> QED
  BY <1>1, InitInv, StepInv, PTL DEF Spec

-----------------------------------------------------------------------------
(* The debug console: DebugConsole, beside Terminals, whose names it keeps  *)

CONSTANTS Streams, Sizes, MaxBatch, Socket, OutputRoom, InputRoom, MaxReports
VARIABLES want, reports, unanswered, asked, told, fromAdapter, toAdapter, pumping, queue, phase,
          writing, nextSeq, pending, console, happened

Console == INSTANCE DebugConsole

Items == Console!Outputs \cup Console!Events
Messages == Items \cup Console!Responses
Batches == [stream : Streams \cup {None}, items : Seq(Items)]

-----------------------------------------------------------------------------
(* Induction over numbers, and what it says of a list of lists in a row    *)

\* Induction, for a set of numbers: the least number outside it would be a successor.
LEMMA NumberInduction ==
    ASSUME NEW S, S \subseteq Nat, 0 \in S, \A n \in S : n + 1 \in S
    PROVE  S = Nat
<1> SUFFICES ASSUME S # Nat PROVE FALSE
    OBVIOUS
<1>1. PICK R : IsWellFoundedOn(R, Nat) /\ \A x, y \in Nat : <<x, y>> \in R <=> x < y
  <2> DEFINE R == OpToRel(<, Nat)
  <2>1. IsWellFoundedOn(R, Nat)
    BY NatLessThanWellFounded
  <2>2. \A x, y \in Nat : <<x, y>> \in R <=> x < y
    BY DEF OpToRel
  <2> HIDE DEF R
  <2> QED
    BY <2>1, <2>2, Zenon
<1>2. IsWellFoundedOn(R, Nat) /\ Nat \ S \subseteq Nat /\ Nat \ S # {}
  BY <1>1
<1>3. PICK x \in Nat \ S : \A y \in Nat \ S : ~ (<<y, x>> \in R)
  BY <1>2, WFMin
<1>4. \A y \in Nat \ S : ~(y < x)
  BY <1>1, <1>3, Zenon
<1>5. x # 0 /\ x - 1 \in Nat /\ x - 1 < x /\ x - 1 \in S
  BY <1>4
<1> QED
  BY <1>5

\* The recursion behind FlattenSeq.
Flattens(g, s, n) == g = [i \in 1 .. n |-> IF i = 1 THEN s[i] ELSE g[i - 1] \o s[i]]

LEMMA FlattensExists ==
    ASSUME NEW X, NEW s \in Seq(Seq(X)), NEW n \in 0 .. Len(s)
    PROVE  \E g : Flattens(g, s, n) /\ \A i \in 1 .. n : g[i] \in Seq(X)
<1> DEFINE Good(g, m) == Flattens(g, s, m) /\ \A i \in 1 .. m : g[i] \in Seq(X)
           Have == {m \in Nat : m <= Len(s) => \E g : Good(g, m)}
<1>1. 0 \in Have
  <2> DEFINE g == [i \in 1 .. 0 |-> <<>>]
  <2>1. Good(g, 0)
    BY DEF Flattens
  <2> QED
    BY <2>1
<1>2. ASSUME NEW m \in Have PROVE m + 1 \in Have
  <2> SUFFICES ASSUME m + 1 <= Len(s) PROVE \E g : Good(g, m + 1)
      OBVIOUS
  <2>1. m \in Nat /\ m + 1 \in Nat /\ m <= Len(s) /\ s[m + 1] \in Seq(X)
    OBVIOUS
  <2>2. PICK g : Good(g, m)
    BY <2>1
  <2> DEFINE e == IF m = 0 THEN s[1] ELSE g[m] \o s[m + 1]
             h == [i \in 1 .. m + 1 |-> IF i = m + 1 THEN e ELSE g[i]]
  <2>3. e \in Seq(X)
    BY <2>1, <2>2
  <2>4. \A i \in 1 .. m + 1 : h[i] \in Seq(X)
    BY <2>1, <2>2, <2>3
  <2>5. ASSUME NEW i \in 1 .. m + 1 PROVE h[i] = IF i = 1 THEN s[i] ELSE h[i - 1] \o s[i]
    <3>1. CASE i = m + 1
      <4>1. CASE m = 0
        BY <3>1, <4>1
      <4>2. CASE m # 0
        <5>1. m \in 1 .. m + 1 /\ i # 1 /\ i - 1 = m /\ m # m + 1
          BY <2>1, <3>1, <4>2
        <5> QED
          BY <3>1, <4>2, <5>1
      <4> QED
        BY <4>1, <4>2
    <3>2. CASE i # m + 1
      <4>1. i \in 1 .. m
        BY <2>1, <3>2
      <4>2. g[i] = IF i = 1 THEN s[i] ELSE g[i - 1] \o s[i]
        BY <2>2, <4>1 DEF Flattens
      <4>3. i # 1 => i - 1 \in 1 .. m + 1 /\ i - 1 # m + 1
        BY <2>1, <4>1
      <4> QED
        BY <3>2, <4>2, <4>3
    <3> QED
      BY <3>1, <3>2
  <2>6. h = [i \in 1 .. m + 1 |-> h[i]]
    OBVIOUS
  <2> HIDE DEF h
  <2>7. Flattens(h, s, m + 1)
    BY <2>5, <2>6 DEF Flattens
  <2> QED
    BY <2>4, <2>7
<1> HIDE DEF Good
<1>3. Have = Nat
  BY <1>1, <1>2, NumberInduction
<1> HIDE DEF Have
<1>4. n \in Have /\ n <= Len(s)
  BY <1>3
<1>5. \E g : Good(g, n)
  BY <1>4, Zenon DEF Have
<1> QED
  BY <1>5 DEF Good

LEMMA FlattensOnce ==
    ASSUME NEW s, NEW t, NEW n \in Nat, NEW m \in Nat, n <= m, \A i \in 1 .. n : s[i] = t[i],
           NEW g, Flattens(g, s, n), NEW h, Flattens(h, t, m)
    PROVE  \A i \in 1 .. n : g[i] = h[i]
<1> DEFINE Have == {i \in Nat : i \in 1 .. n => g[i] = h[i]}
<1>1. 0 \in Have
  OBVIOUS
<1>2. ASSUME NEW i \in Have PROVE i + 1 \in Have
  <2> SUFFICES ASSUME i + 1 \in 1 .. n PROVE g[i + 1] = h[i + 1]
      OBVIOUS
  <2>0. i \in Nat /\ i + 1 \in 1 .. m /\ (i + 1) - 1 = i /\ s[i + 1] = t[i + 1]
    OBVIOUS
  <2>1. g[i + 1] = IF i + 1 = 1 THEN s[i + 1] ELSE g[(i + 1) - 1] \o s[i + 1]
    BY DEF Flattens
  <2>2. h[i + 1] = IF i + 1 = 1 THEN t[i + 1] ELSE h[(i + 1) - 1] \o t[i + 1]
    BY <2>0 DEF Flattens
  <2>3. i + 1 # 1 => g[i] = h[i]
    BY <2>0
  <2> QED
    BY <2>0, <2>1, <2>2, <2>3
<1>3. Have = Nat
  <2> HIDE DEF Have
  <2> QED
    BY <1>1, <1>2, NumberInduction DEF Have
<1> QED
  BY <1>3

\* The list of all elements of a list of lists.
LEMMA FlattenAs ==
    ASSUME NEW X, NEW s \in Seq(Seq(X)), Len(s) # 0
    PROVE  \E g : /\ Flattens(g, s, Len(s)) /\ \A i \in 1 .. Len(s) : g[i] \in Seq(X)
                  /\ Console!FlattenSeq(s) = g[Len(s)]
<1>1. PICK f : Flattens(f, s, Len(s)) /\ \A i \in 1 .. Len(s) : f[i] \in Seq(X)
  <2>1. Len(s) \in 0 .. Len(s)
    OBVIOUS
  <2> QED
    BY <2>1, FlattensExists
<1> DEFINE g == CHOOSE h : h = [i \in 1 .. Len(s) |-> IF i = 1 THEN s[i] ELSE h[i - 1] \o s[i]]
<1>2. Flattens(g, s, Len(s))
  BY <1>1 DEF Flattens
<1>3. Console!FlattenSeq(s) = g[Len(s)]
  BY DEF Console!FlattenSeq
<1> HIDE DEF g
<1>4. \A i \in 1 .. Len(s) : g[i] = f[i]
  BY <1>1, <1>2, FlattensOnce
<1> QED
  BY <1>1, <1>2, <1>3, <1>4

\* Flattening goes along with appending.
LEMMA FlattenAppend ==
    ASSUME NEW X, NEW s \in Seq(Seq(X)), NEW x \in Seq(X)
    PROVE  /\ Console!FlattenSeq(s) \in Seq(X)
           /\ Console!FlattenSeq(Append(s, x)) = Console!FlattenSeq(s) \o x
<1> DEFINE t == Append(s, x)
           n == Len(s)
<1>1. /\ t \in Seq(Seq(X)) /\ Len(t) = n + 1 /\ t[n + 1] = x /\ n \in Nat
      /\ \A i \in 1 .. n : t[i] = s[i]
  OBVIOUS
<1>2. PICK h : /\ Flattens(h, t, n + 1)
               /\ Console!FlattenSeq(t) = h[n + 1]
  <2>1. Len(t) # 0
    BY <1>1
  <2> HIDE DEF t
  <2> QED
    BY <1>1, <2>1, FlattenAs
<1> HIDE DEF t
<1>3. h[n + 1] = IF n + 1 = 1 THEN x ELSE h[n] \o x
  <2>1. n + 1 \in 1 .. n + 1 /\ (n + 1) - 1 = n
    BY <1>1
  <2> QED
    BY <1>1, <1>2, <2>1 DEF Flattens
<1>4. CASE n = 0
  <2>1. Console!FlattenSeq(s) = s /\ s = <<>>
    BY <1>4 DEF Console!FlattenSeq
  <2>2. h[n + 1] = x
    BY <1>3, <1>4
  <2>3. <<>> \in Seq(X) /\ <<>> \o x = x
    OBVIOUS
  <2> QED
    BY <1>2, <2>1, <2>2, <2>3 DEF t
<1>5. CASE n # 0
  <2>1. PICK g : /\ Flattens(g, s, n) /\ \A i \in 1 .. n : g[i] \in Seq(X)
                 /\ Console!FlattenSeq(s) = g[n]
    BY <1>5, FlattenAs
  <2>2. g[n] = h[n] /\ g[n] \in Seq(X)
    <3>1. n <= n + 1 /\ n + 1 \in Nat /\ n \in 1 .. n /\ \A i \in 1 .. n : s[i] = t[i]
      BY <1>1, <1>5
    <3>2. \A i \in 1 .. n : g[i] = h[i]
      <4>1. PICK m : m = n + 1
        OBVIOUS
      <4>2. Flattens(g, s, n) /\ Flattens(h, t, m) /\ n \in Nat /\ m \in Nat /\ n <= m
        BY <1>1, <1>2, <2>1, <4>1
      <4>3. \A i \in 1 .. n : s[i] = t[i]
        BY <3>1
      <4> HIDE DEF n
      <4> QED
        BY <4>2, <4>3, FlattensOnce
    <3> QED
      BY <2>1, <3>1, <3>2
  <2>3. h[n + 1] = h[n] \o x
    BY <1>1, <1>3, <1>5
  <2> QED
    BY <1>2, <2>1, <2>2, <2>3 DEF t
<1> QED
  BY <1>4, <1>5

-----------------------------------------------------------------------------
(* Where what has happened is, while it is on its way to the console       *)

\* The messages of Q after the r-th that a console shows are, in this order, what h holds
\* after its first k: f[j] counts those of h that the first j of Q reach up to.
Counts(f, Q, r, k, h) ==
    /\ f \in [0 .. Len(Q) -> 0 .. Len(h)]
    /\ f[0] = k /\ f[Len(Q)] = Len(h)
    /\ \A j \in 1 .. Len(Q) : IF j > r /\ Console!Visible(Q[j])
                              THEN f[j] = f[j - 1] + 1 /\ Q[j] = h[f[j]]
                              ELSE f[j] = f[j - 1]
Traced(Q, r, k, h) == \E f : Counts(f, Q, r, k, h)

LEMMA NoneTraced ==
    ASSUME NEW X, NEW Q \in Seq(X)
    PROVE  Traced(Q, Len(Q), 0, <<>>)
<1> DEFINE f == [j \in 0 .. Len(Q) |-> 0]
<1>1. f \in [0 .. Len(Q) -> 0 .. Len(<<>>)] /\ f[0] = 0 /\ f[Len(Q)] = Len(<<>>)
  OBVIOUS
<1>2. \A j \in 1 .. Len(Q) : ~(j > Len(Q)) /\ f[j] = f[j - 1]
  OBVIOUS
<1> QED
  BY <1>1, <1>2 DEF Traced, Counts

\* A message that joins the queue has just happened, if it is one that a console shows.
LEMMA TracedAppend ==
    ASSUME NEW X, NEW Q \in Seq(X), NEW h \in Seq(X), NEW k, NEW r \in 0 .. Len(Q), Traced(Q, r, k, h),
           NEW m \in X, NEW o, o = IF Console!Visible(m) THEN Append(h, m) ELSE h
    PROVE  Traced(Append(Q, m), r, k, o)
<1>1. PICK f : Counts(f, Q, r, k, h)
  BY DEF Traced
<1> DEFINE P == Append(Q, m)
           n == Len(Q)
           g == [j \in 0 .. n + 1 |-> IF j = n + 1 THEN Len(o) ELSE f[j]]
<1>2. n \in Nat /\ Len(P) = n + 1 /\ P[n + 1] = m /\ \A j \in 1 .. n : P[j] = Q[j]
  OBVIOUS
<1>3. /\ Len(h) \in Nat /\ Len(o) \in Nat /\ Len(h) <= Len(o)
      /\ Console!Visible(m) => Len(o) = Len(h) + 1 /\ o[Len(o)] = m
      /\ ~Console!Visible(m) => Len(o) = Len(h)
      /\ \A j \in 1 .. Len(h) : o[j] = h[j]
  OBVIOUS
<1> HIDE DEF P
<1>4. g \in [0 .. n + 1 -> 0 .. Len(o)] /\ g[0] = k /\ g[n + 1] = Len(o) /\ g[n] = Len(h)
  BY <1>1, <1>2, <1>3 DEF Counts
<1>5. ASSUME NEW j \in 1 .. n + 1
      PROVE  IF j > r /\ Console!Visible(P[j]) THEN g[j] = g[j - 1] + 1 /\ P[j] = o[g[j]] ELSE g[j] = g[j - 1]
  <2>1. CASE j = n + 1
    <3>1. j > r /\ j - 1 = n
      BY <1>2, <2>1
    <3>2. g[j] = Len(o) /\ g[j - 1] = Len(h) /\ P[j] = m
      BY <1>2, <1>4, <2>1, <3>1
    <3> HIDE DEF g
    <3> QED
      BY <1>3, <3>1, <3>2
  <2>2. CASE j # n + 1
    <3>1. j \in 1 .. n /\ j - 1 \in 0 .. n /\ j - 1 # n + 1
      BY <1>2, <2>2
    <3>2. g[j] = f[j] /\ g[j - 1] = f[j - 1] /\ P[j] = Q[j]
      BY <1>2, <2>2, <3>1
    <3>3. /\ f[j] \in 0 .. Len(h) /\ f[j - 1] \in 0 .. Len(h)
          /\ IF j > r /\ Console!Visible(Q[j]) THEN f[j] = f[j - 1] + 1 /\ Q[j] = h[f[j]]
                                               ELSE f[j] = f[j - 1]
      <4>1. /\ f \in [0 .. n -> 0 .. Len(h)] /\ n \in Nat
            /\ \A i \in 1 .. n : IF i > r /\ Console!Visible(Q[i]) THEN f[i] = f[i - 1] + 1 /\ Q[i] = h[f[i]]
                                                                 ELSE f[i] = f[i - 1]
        BY <1>1, <1>2 DEF Counts
      <4> HIDE DEF g, n
      <4>2. f[j] \in 0 .. Len(h) /\ f[j - 1] \in 0 .. Len(h)
        <5>1. f \in [0 .. n -> 0 .. Len(h)]
          BY <4>1
        <5>2. j \in 0 .. n /\ j - 1 \in 0 .. n
          BY <3>1, <4>1
        <5> QED
          BY <5>1, <5>2, Zenon
      <4>3. IF j > r /\ Console!Visible(Q[j]) THEN f[j] = f[j - 1] + 1 /\ Q[j] = h[f[j]]
                                              ELSE f[j] = f[j - 1]
        <5>1. j \in 1 .. n
          BY <3>1
        <5> QED
          BY <4>1, <5>1, Zenon
      <4> QED
        BY <4>2, <4>3, Zenon
    <3>4. f[j] = f[j - 1] + 1 => f[j] \in 1 .. Len(h)
      BY <1>3, <3>3
    <3> HIDE DEF g
    <3> QED
      BY <1>3, <3>2, <3>3, <3>4
  <2> QED
    BY <2>1, <2>2
<1> HIDE DEF g
<1>6. Counts(g, P, r, k, o)
  BY <1>2, <1>4, <1>5 DEF Counts
<1> QED
  BY <1>6 DEF Traced, P

\* A message that leaves the queue is the next to be shown, if it is one that a console shows.
LEMMA TracedTail ==
    ASSUME NEW X, NEW Q \in Seq(X), Q # <<>>, NEW h \in Seq(X), NEW k, NEW r \in 0 .. Len(Q),
           Traced(Q, r, k, h), NEW m, m = Head(Q)
    PROVE  /\ r = 0 /\ Console!Visible(m) => /\ k \in Nat /\ k + 1 \in 1 .. Len(h) /\ h[k + 1] = m
                                             /\ Traced(Tail(Q), 0, k + 1, h)
           /\ r = 0 /\ ~Console!Visible(m) => Traced(Tail(Q), 0, k, h)
           /\ r # 0 => Traced(Tail(Q), r - 1, k, h)
<1>1. PICK f : Counts(f, Q, r, k, h)
  BY DEF Traced
<1> DEFINE P == Tail(Q)
           n == Len(P)
           g == [j \in 0 .. n |-> f[j + 1]]
           p == IF r = 0 THEN 0 ELSE r - 1
<1>2. n \in Nat /\ Len(Q) = n + 1 /\ Q[1] = m /\ \A j \in 1 .. n : P[j] = Q[j + 1]
  OBVIOUS
<1>3. r \in Nat /\ p \in Nat /\ Len(h) \in Nat
  OBVIOUS
<1> HIDE DEF P
<1>4. /\ f \in [0 .. n + 1 -> 0 .. Len(h)] /\ f[0] = k /\ f[n + 1] = Len(h)
      /\ \A j \in 1 .. n + 1 : IF j > r /\ Console!Visible(Q[j]) THEN f[j] = f[j - 1] + 1 /\ Q[j] = h[f[j]]
                                                                 ELSE f[j] = f[j - 1]
  BY <1>1, <1>2 DEF Counts
<1>5. /\ k \in 0 .. Len(h) /\ f[1] \in 0 .. Len(h)
      /\ IF 1 > r /\ Console!Visible(m) THEN f[1] = k + 1 /\ m = h[f[1]] ELSE f[1] = k
  <2>1. 1 \in 1 .. n + 1 /\ 0 \in 0 .. n + 1 /\ 1 \in 0 .. n + 1 /\ 1 - 1 = 0
    BY <1>2
  <2> QED
    BY <1>2, <1>4, <2>1
<1>6. g \in [0 .. n -> 0 .. Len(h)] /\ g[0] = f[1] /\ g[n] = Len(h)
  BY <1>2, <1>4
<1>7. ASSUME NEW j \in 1 .. n
      PROVE  IF j > p /\ Console!Visible(P[j]) THEN g[j] = g[j - 1] + 1 /\ P[j] = h[g[j]] ELSE g[j] = g[j - 1]
  <2>1. /\ j + 1 \in 1 .. n + 1 /\ (j + 1) - 1 = j /\ j - 1 \in 0 .. n /\ (j - 1) + 1 = j /\ j \in 0 .. n
        /\ j > p <=> j + 1 > r
    BY <1>2, <1>3
  <2>2. g[j] = f[j + 1] /\ g[j - 1] = f[j] /\ P[j] = Q[j + 1]
    BY <1>2, <2>1
  <2>3. IF j + 1 > r /\ Console!Visible(Q[j + 1]) THEN f[j + 1] = f[j] + 1 /\ Q[j + 1] = h[f[j + 1]]
                                                   ELSE f[j + 1] = f[j]
    BY <1>4, <2>1
  <2> HIDE DEF g, p
  <2> QED
    BY <2>1, <2>2, <2>3
<1> HIDE DEF g
<1>8. Counts(g, P, p, f[1], h)
  BY <1>6, <1>7 DEF Counts
<1>9. Traced(P, p, f[1], h)
  BY <1>8 DEF Traced
<1> QED
  BY <1>3, <1>5, <1>9 DEF P

\* Only which messages a console shows matters.
LEMMA TracedSame ==
    ASSUME NEW Q, NEW P, NEW k, NEW r, NEW h, Traced(Q, r, k, h), Len(P) = Len(Q),
           \A j \in 1 .. Len(Q) : P[j] = Q[j] \/ (~Console!Visible(P[j]) /\ ~Console!Visible(Q[j]))
    PROVE  Traced(P, r, k, h)
<1>1. PICK f : Counts(f, Q, r, k, h)
  BY DEF Traced
<1>2. Counts(f, P, r, k, h)
  BY <1>1 DEF Counts
<1> QED
  BY <1>2 DEF Traced

\* A message that no console shows is put between the others.
LEMMA TracedInsert ==
    ASSUME NEW X, NEW Q \in Seq(X), NEW h, NEW k, NEW r \in 0 .. Len(Q), Traced(Q, r, k, h),
           NEW n \in 0 .. Len(Q), NEW P, Len(P) = Len(Q) + 1, ~Console!Visible(P[n + 1]),
           \A j \in 1 .. n : P[j] = Q[j],
           \A j \in n + 1 .. Len(Q) : P[j + 1] = Q[j]
    PROVE  Traced(P, IF r > n THEN r + 1 ELSE r, k, h)
<1>1. PICK f : Counts(f, Q, r, k, h)
  BY DEF Traced
<1> DEFINE l == Len(Q)
           p == IF r > n THEN r + 1 ELSE r
           g == [j \in 0 .. l + 1 |-> IF j <= n THEN f[j] ELSE f[j - 1]]
<1>2. l \in Nat /\ n \in Nat /\ r \in Nat /\ n <= l /\ r <= l /\ p \in Nat
  OBVIOUS
<1>3. /\ f \in [0 .. l -> 0 .. Len(h)] /\ f[0] = k /\ f[l] = Len(h)
      /\ \A j \in 1 .. l : IF j > r /\ Console!Visible(Q[j]) THEN f[j] = f[j - 1] + 1 /\ Q[j] = h[f[j]]
                                                              ELSE f[j] = f[j - 1]
  BY <1>1 DEF Counts
<1>4. Len(P) = l + 1 /\ (\A j \in 1 .. n : P[j] = Q[j]) /\ \A j \in n + 1 .. l : P[j + 1] = Q[j]
  OBVIOUS
<1> HIDE DEF l
<1>5. g \in [0 .. l + 1 -> 0 .. Len(h)] /\ g[0] = k /\ g[l + 1] = Len(h)
  BY <1>2, <1>3
<1>6. ASSUME NEW j \in 1 .. l + 1
      PROVE  IF j > p /\ Console!Visible(P[j]) THEN g[j] = g[j - 1] + 1 /\ P[j] = h[g[j]] ELSE g[j] = g[j - 1]
  <2>1. CASE j <= n
    <3>1. j \in 1 .. n /\ j \in 1 .. l /\ j - 1 \in 0 .. l + 1 /\ j \in 0 .. l + 1 /\ j - 1 <= n
      BY <1>2, <2>1
    <3>2. g[j] = f[j] /\ g[j - 1] = f[j - 1] /\ P[j] = Q[j]
      BY <1>4, <2>1, <3>1
    <3>3. j > p <=> j > r
      BY <1>2, <2>1
    <3>4. IF j > r /\ Console!Visible(Q[j]) THEN f[j] = f[j - 1] + 1 /\ Q[j] = h[f[j]] ELSE f[j] = f[j - 1]
      BY <1>3, <3>1
    <3> HIDE DEF g, p
    <3> QED
      BY <3>2, <3>3, <3>4
  <2>2. CASE j = n + 1
    <3>1. j - 1 = n /\ n \in 0 .. l + 1 /\ j \in 0 .. l + 1 /\ ~(j <= n)
      BY <1>2, <2>2
    <3>2. g[j] = f[n] /\ g[j - 1] = f[n] /\ ~Console!Visible(P[j])
      BY <2>2, <3>1
    <3> HIDE DEF g, p
    <3> QED
      BY <3>2
  <2>3. CASE j > n + 1
    <3>1. /\ j - 1 \in n + 1 .. l /\ j - 1 \in 1 .. l /\ (j - 1) + 1 = j /\ j - 1 \in 0 .. l + 1
          /\ j \in 0 .. l + 1 /\ ~(j <= n) /\ ~(j - 1 <= n)
      BY <1>2, <2>3
    <3>2. g[j] = f[j - 1] /\ g[j - 1] = f[(j - 1) - 1] /\ P[j] = Q[j - 1]
      BY <1>4, <3>1
    <3>3. j > p <=> j - 1 > r
      BY <1>2, <2>3
    <3>4. IF j - 1 > r /\ Console!Visible(Q[j - 1]) THEN f[j - 1] = f[(j - 1) - 1] + 1 /\ Q[j - 1] = h[f[j - 1]]
                                                  ELSE f[j - 1] = f[(j - 1) - 1]
      BY <1>3, <3>1
    <3> HIDE DEF g, p
    <3> QED
      BY <3>2, <3>3, <3>4
  <2> QED
    BY <1>2, <2>1, <2>2, <2>3
<1> HIDE DEF g, p
<1>7. Counts(g, P, p, k, h)
  BY <1>4, <1>5, <1>6 DEF Counts
<1>8. Traced(P, p, k, h)
  BY <1>7 DEF Traced
<1> QED
  BY <1>8 DEF p

\* The first part of a list.
Begins(s, h) == Len(s) <= Len(h) /\ \A i \in 1 .. Len(s) : s[i] = h[i]

LEMMA BeginsAppend ==
    ASSUME NEW X, NEW s \in Seq(X), NEW h \in Seq(X), Begins(s, h)
    PROVE  /\ \A m \in X : Len(s) + 1 \in 1 .. Len(h) /\ h[Len(s) + 1] = m => Begins(Append(s, m), h)
           /\ \A m \in X : Begins(s, Append(h, m))
           /\ s = SubSeq(h, 1, Len(s))
<1>1. ASSUME NEW m \in X, Len(s) + 1 \in 1 .. Len(h), h[Len(s) + 1] = m PROVE Begins(Append(s, m), h)
  BY <1>1 DEF Begins
<1>2. ASSUME NEW m \in X PROVE Begins(s, Append(h, m))
  BY <1>2 DEF Begins
<1>3. s = SubSeq(h, 1, Len(s))
  <2>1. Len(s) \in 0 .. Len(h) /\ \A i \in 1 .. Len(s) : s[i] = h[i]
    BY DEF Begins
  <2>2. SubSeq(h, 1, Len(s)) \in Seq(X) /\ Len(SubSeq(h, 1, Len(s))) = Len(s)
    BY <2>1
  <2>3. \A i \in 1 .. Len(s) : SubSeq(h, 1, Len(s))[i] = h[i]
    BY <2>1
  <2> QED
    BY <2>1, <2>2, <2>3
<1> QED
  BY <1>1, <1>2, <1>3

-----------------------------------------------------------------------------
(* The session's invariant                                                 *)

Outgoing == [command : {"initialize", "launch", "configurationDone"}, seq : Nat]
             \cup [command : {"reply"}, seq : Nat, to : Console!Numbers]
Received == Messages \cup {Console!Broken}

\* What is on its way from the adapter to the session, and what the console has or is to have.
Flow == queue \o fromAdapter
Due == Console!shown \o pending.items

Answered == "initialize" \in told
ToFirst(m) == m.type = "response" /\ m.to = Console!initializeSeq
First(x) == x # None /\ x.command # "reply" /\ x.seq = Console!initializeSeq

Typed ==
    /\ want # None => want \in Messages /\ (want.type = "response" => want.to \in unanswered)
    /\ queue \in Seq(Received) /\ fromAdapter \in Seq(Messages) /\ toAdapter \in Seq(Outgoing \ {None})
    /\ writing \in Outgoing \cup {None} /\ nextSeq \in Nat \ {0, 1}
    /\ console \in Seq(Batches) /\ pending \in Batches /\ happened \in Seq(Items)
    /\ phase \in {"initialize", "session", "over"}

\* initialize is asked once and answered at most once.
Once ==
    /\ First(writing) => toAdapter = <<>> /\ Console!initializeSeq \notin unanswered /\ ~Answered
    /\ \A k \in 1 .. Len(toAdapter) : First(toAdapter[k]) =>
          k = 1 /\ Console!initializeSeq \notin unanswered /\ ~Answered
    /\ Answered => Console!initializeSeq \notin unanswered
    /\ ~Answered => /\ \A j \in 1 .. Len(queue) : ~ToFirst(queue[j])
                    /\ \A j \in 1 .. Len(fromAdapter) : ~ToFirst(fromAdapter[j])

\* The console shows the first part of what has happened; the rest is held back or on its
\* way, behind the answer to initialize as long as that is on its way too.
Streaming ==
    /\ Begins(Console!shown, happened)
    /\ phase = "session" => Answered /\ Begins(Due, happened) /\ Traced(Flow, 0, Len(Due), happened)
    /\ phase = "initialize" =>
          /\ console = <<>> /\ pending = Console!Nothing
          /\ ~Answered => happened = <<>>
          /\ Answered => \E r \in 1 .. Len(Flow) :
                            /\ Traced(Flow, r, 0, happened)
                            /\ \A j \in 1 .. Len(Flow) : ToFirst(Flow[j]) <=> j = r

ConsoleInv == Typed /\ Once /\ Streaming

\* A step of the stream that is promised, or none.
Promised == Console!Abstract!Next \/ UNCHANGED Console!Abstract!vars

LEMMA MessageTypes ==
    /\ \A m \in Messages : Console!Visible(m) => m \in Items
    /\ \A m \in Received : m.type = "output" => m \in Console!Outputs
    /\ \A m \in Received : m.type = "reverse" => m \in Console!Events
    /\ \A m \in Received : m.type = "state" => m \in Console!Events
    /\ Console!Broken.type = "error" /\ ~ToFirst(Console!Broken) /\ ~Console!Visible(Console!Broken)
    /\ \A m : m.type # "output" => (Console!Visible(m) <=> m.type = "state")
    /\ \A m : m.type = "output" => Console!Visible(m)
    /\ \A m : ToFirst(m) => ~Console!Visible(m)
BY DEF Messages, Items, Received, Console!Outputs, Console!Events, Console!Responses, Console!Broken,
       Console!Visible, ToFirst

\* The console, flattened.
Flat(c) == Console!FlattenSeq([k \in DOMAIN c |-> c[k].items])

LEMMA FlatAppend ==
    ASSUME NEW c \in Seq(Batches), NEW b \in Batches
    PROVE  Flat(c) \in Seq(Items) /\ Flat(Append(c, b)) = Flat(c) \o b.items
<1> DEFINE s == [k \in DOMAIN c |-> c[k].items]
           t == [k \in DOMAIN Append(c, b) |-> Append(c, b)[k].items]
<1>1. b.items \in Seq(Items) /\ \A k \in 1 .. Len(c) : c[k].items \in Seq(Items)
  <2>1. \A k \in 1 .. Len(c) : c[k] \in Batches
    OBVIOUS
  <2>2. \A x \in Batches : x.items \in Seq(Items)
    BY DEF Batches
  <2> QED
    BY <2>1, <2>2
<1>2. s \in Seq(Seq(Items)) /\ Len(s) = Len(c) /\ \A k \in 1 .. Len(c) : s[k] = c[k].items
  <2>1. DOMAIN c = 1 .. Len(c) /\ Len(c) \in Nat
    OBVIOUS
  <2>2. s = [k \in 1 .. Len(c) |-> c[k].items]
    BY <2>1
  <2> HIDE DEF s
  <2> QED
    BY <1>1, <2>1, <2>2
<1>3. t = Append(s, b.items)
  <2>1. t = [k \in 1 .. Len(c) + 1 |-> IF k = Len(c) + 1 THEN b.items ELSE c[k].items]
    OBVIOUS
  <2>2. /\ Append(s, b.items) \in Seq(Seq(Items)) /\ Len(Append(s, b.items)) = Len(c) + 1
        /\ \A k \in 1 .. Len(c) + 1 : Append(s, b.items)[k] = IF k = Len(c) + 1 THEN b.items ELSE c[k].items
    <3> HIDE DEF s
    <3> QED
      BY <1>1, <1>2
  <2> HIDE DEF s, t
  <2>3. t \in Seq(Seq(Items)) /\ Len(t) = Len(c) + 1
    BY <1>1, <2>1
  <2>4. \A k \in 1 .. Len(c) + 1 : t[k] = Append(s, b.items)[k]
    BY <2>1, <2>2
  <2> QED
    BY <2>2, <2>3, <2>4
<1>4. Flat(c) = Console!FlattenSeq(s) /\ Flat(Append(c, b)) = Console!FlattenSeq(t)
  BY DEF Flat
<1> HIDE DEF s, t
<1> QED
  BY <1>1, <1>2, <1>3, <1>4, FlattenAppend

\* What is held back follows, as one batch.
LEMMA FlatBatch ==
    ASSUME NEW c \in Seq(Batches), NEW p \in Batches
    PROVE  /\ c \o Console!Batch(p) \in Seq(Batches)
           /\ Flat(c \o Console!Batch(p)) = Flat(c) \o p.items
           /\ Flat(c) \in Seq(Items) /\ p.items \in Seq(Items)
<1>1. p.items \in Seq(Items) /\ Flat(c) \in Seq(Items)
  BY FlatAppend DEF Batches
<1>2. CASE p = Console!Nothing
  <2>1. Console!Batch(p) = <<>> /\ p.items = <<>>
    BY <1>2 DEF Console!Batch, Console!Nothing
  <2>2. c \o <<>> = c /\ Flat(c) \o <<>> = Flat(c)
    BY <1>1
  <2> QED
    BY <1>1, <2>1, <2>2
<1>3. CASE p # Console!Nothing
  <2>1. c \o Console!Batch(p) = Append(c, p)
    BY <1>3 DEF Console!Batch
  <2> QED
    BY <1>1, <2>1, FlatAppend
<1> QED
  BY <1>2, <1>3

LEMMA ShownFlat == Console!shown = Flat(console) /\ Console!shown' = Flat(console')
BY DEF Console!shown, Flat

LEMMA NothingBatch == Console!Nothing \in Batches /\ Console!Nothing.items = <<>>
BY DEF Console!Nothing, Batches

LEMMA DueTyped ==
    ASSUME Typed
    PROVE  /\ Console!shown \in Seq(Items) /\ pending.items \in Seq(Items) /\ Due \in Seq(Items)
           /\ Len(Due) = Len(Console!shown) + Len(pending.items)
           /\ \A i \in 1 .. Len(Console!shown) : Due[i] = Console!shown[i]
<1>1. Console!shown \in Seq(Items) /\ pending.items \in Seq(Items)
  BY FlatBatch, ShownFlat DEF Typed
<1> QED
  BY <1>1 DEF Due

LEMMA ShownInDue ==
    ASSUME Typed, NEW h \in Seq(Items), Begins(Due, h)
    PROVE  Begins(Console!shown, h)
BY DueTyped DEF Begins

-----------------------------------------------------------------------------
(* Steps that show more, or nothing                                        *)

LEMMA ShowsMore ==
    ASSUME Typed, happened' = happened, phase # "over", NEW s \in Seq(Items), Console!shown' = s,
           Begins(s, happened), s = Console!shown \/ Len(s) > Len(Console!shown)
    PROVE  Promised
<1>1. s = SubSeq(happened, 1, Len(s)) /\ Len(s) <= Len(happened) /\ happened \in Seq(Items)
  BY BeginsAppend DEF Typed, Begins
<1>2. Console!shown \in Seq(Items)
  BY DueTyped
<1>3. CASE s = Console!shown
  BY <1>3 DEF Promised, Console!Abstract!Next, Console!Abstract!End, Console!Abstract!vars
<1>4. CASE Len(s) > Len(Console!shown)
  <2>1. Len(s) \in Len(Console!shown) + 1 .. Len(happened)
    BY <1>1, <1>2, <1>4
  <2>2. (phase' = "over") \in BOOLEAN
    OBVIOUS
  <2>3. Console!Abstract!Show
    BY <1>1, <2>1, <2>2 DEF Console!Abstract!Show
  <2> QED
    BY <2>3 DEF Promised, Console!Abstract!Next
<1> QED
  BY <1>3, <1>4

LEMMA ShowsSame ==
    ASSUME Typed, UNCHANGED <<happened, console>>, phase' = phase \/ phase # "over"
    PROVE  Promised /\ Console!shown' = Console!shown
<1>1. Console!shown' = Console!shown
  BY ShownFlat
<1> QED
  BY <1>1 DEF Promised, Console!Abstract!Next, Console!Abstract!End, Console!Abstract!vars

-----------------------------------------------------------------------------
(* Lists                                                                   *)

LEMMA CatAppend ==
    ASSUME NEW X, NEW s \in Seq(X), NEW t \in Seq(X), NEW m \in X
    PROVE  s \o Append(t, m) = Append(s \o t, m)
OBVIOUS

LEMMA CatTail ==
    ASSUME NEW X, NEW s \in Seq(X), NEW t \in Seq(X), s # <<>>
    PROVE  s \o t \in Seq(X) /\ s \o t # <<>> /\ Head(s \o t) = Head(s) /\ Tail(s) \o t = Tail(s \o t)
OBVIOUS

LEMMA CatItems ==
    ASSUME NEW X, NEW s \in Seq(X), NEW t \in Seq(X)
    PROVE  /\ Len(s \o t) = Len(s) + Len(t)
           /\ \A j \in 1 .. Len(s \o t) : (s \o t)[j] = IF j <= Len(s) THEN s[j] ELSE t[j - Len(s)]
OBVIOUS

LEMMA FlowTyped ==
    ASSUME Typed
    PROVE  /\ Flow \in Seq(Received) /\ Len(Flow) = Len(queue) + Len(fromAdapter)
           /\ fromAdapter \in Seq(Received) /\ happened \in Seq(Received)
           /\ \A j \in 1 .. Len(Flow) : IF j <= Len(queue) THEN Flow[j] = queue[j]
                                        ELSE Flow[j] = fromAdapter[j - Len(queue)]
           /\ Once /\ ~Answered => \A j \in 1 .. Len(Flow) : ~ToFirst(Flow[j])
<1>1. fromAdapter \in Seq(Received) /\ queue \in Seq(Received) /\ happened \in Seq(Received)
  BY DEF Typed, Received, Messages
<1>2. /\ Flow \in Seq(Received) /\ Len(Flow) = Len(queue) + Len(fromAdapter)
      /\ \A j \in 1 .. Len(Flow) : IF j <= Len(queue) THEN Flow[j] = queue[j]
                                   ELSE Flow[j] = fromAdapter[j - Len(queue)]
  BY <1>1 DEF Flow
<1>3. ASSUME Once, ~Answered, NEW j \in 1 .. Len(Flow) PROVE ~ToFirst(Flow[j])
  <2>1. Len(queue) \in Nat /\ Len(fromAdapter) \in Nat
    BY <1>1
  <2>2. CASE j <= Len(queue)
    BY <1>2, <1>3, <2>1, <2>2 DEF Once
  <2>3. CASE ~(j <= Len(queue))
    <3>1. j - Len(queue) \in 1 .. Len(fromAdapter)
      BY <1>2, <2>1, <2>3
    <3> QED
      BY <1>2, <1>3, <2>3, <3>1 DEF Once
  <2> QED
    BY <2>2, <2>3
<1> QED
  BY <1>1, <1>2, <1>3

\* Nothing that is on its way changes for the console.
LEMMA QuietStream ==
    ASSUME ConsoleInv, UNCHANGED <<console, pending, happened, phase>>, Answered' <=> Answered,
           Len(Flow') = Len(Flow),
           \A j \in 1 .. Len(Flow) :
              \/ Flow'[j] = Flow[j]
              \/ /\ ~Console!Visible(Flow'[j]) /\ ~Console!Visible(Flow[j])
                 /\ ~ToFirst(Flow'[j]) /\ ~ToFirst(Flow[j])
    PROVE  Streaming'
<1>1. Console!shown' = Console!shown /\ Due' = Due
  BY ShownFlat DEF Due
<1>2. \A r, k : Traced(Flow, r, k, happened) => Traced(Flow, r, k, happened)'
  <2> SUFFICES ASSUME NEW r, NEW k, Traced(Flow, r, k, happened) PROVE Traced(Flow', r, k, happened)
      OBVIOUS
  <2> QED
    BY TracedSame
<1>3. \A j \in 1 .. Len(Flow) : ToFirst(Flow'[j]) <=> ToFirst(Flow[j])
  OBVIOUS
<1>4. Begins(Console!shown, happened)'
  BY <1>1 DEF ConsoleInv, Streaming, Begins
<1>5. ASSUME phase' = "session"
      PROVE  Answered' /\ Begins(Due, happened)' /\ Traced(Flow', 0, Len(Due'), happened')
  BY <1>1, <1>2, <1>5 DEF ConsoleInv, Streaming, Begins
<1>6. ASSUME phase' = "initialize"
      PROVE  /\ console' = <<>> /\ pending' = Console!Nothing
             /\ ~Answered' => happened' = <<>>
             /\ Answered' => \E r \in 1 .. Len(Flow') :
                                /\ Traced(Flow', r, 0, happened')
                                /\ \A j \in 1 .. Len(Flow') : ToFirst(Flow'[j]) <=> j = r
  BY <1>2, <1>3, <1>6 DEF ConsoleInv, Streaming
<1> QED
  BY <1>4, <1>5, <1>6 DEF Streaming

\* Once the session is over only what it has shown matters.
LEMMA OverStream ==
    ASSUME phase' = "over", Begins(Console!shown', happened')
    PROVE  Streaming'
BY DEF Streaming

-----------------------------------------------------------------------------
(* The adapter's steps and the draining task's                             *)

LEMMA BeginKeeps ==
    ASSUME ConsoleInv, NEW m \in Console!Sayable, Console!Begin(m)
    PROVE  ConsoleInv' /\ Promised
<1>1. /\ UNCHANGED <<unanswered, told, fromAdapter, toAdapter, queue, phase, writing, nextSeq,
                     pending, console, happened>>
      /\ want' = m
  BY DEF Console!Begin, Console!pipes, Console!session
<1>2. m \in Messages /\ (m.type = "response" => m.to \in unanswered)
  BY DEF Console!Sayable, Messages, Items
<1>3. Typed' /\ Once'
  BY <1>1, <1>2 DEF ConsoleInv, Typed, Once, Answered
<1>4. Flow' = Flow /\ (Answered' <=> Answered)
  BY <1>1 DEF Flow, Answered
<1>5. Streaming'
  BY <1>1, <1>4, QuietStream
<1>6. Promised
  BY <1>1, ShowsSame DEF ConsoleInv
<1> QED
  BY <1>3, <1>5, <1>6 DEF ConsoleInv

LEMMA HangupKeeps ==
    ASSUME ConsoleInv, Console!Hangup
    PROVE  ConsoleInv' /\ Promised
<1>1. /\ UNCHANGED <<unanswered, fromAdapter, toAdapter, queue, phase, writing, nextSeq,
                     pending, console, happened>>
      /\ want' = None
      /\ Answered' <=> Answered
  BY DEF Console!Hangup, Console!pipes, Console!session, Answered
<1>2. Typed' /\ Once'
  BY <1>1 DEF ConsoleInv, Typed, Once
<1>3. Flow' = Flow
  BY <1>1 DEF Flow
<1>4. Streaming'
  BY <1>1, <1>3, QuietStream
<1>5. Promised
  BY <1>1, ShowsSame DEF ConsoleInv
<1> QED
  BY <1>2, <1>4, <1>5 DEF ConsoleInv

LEMMA ListenKeeps ==
    ASSUME ConsoleInv, Console!Listen
    PROVE  ConsoleInv' /\ Promised
<1>1. /\ UNCHANGED <<want, told, fromAdapter, queue, phase, writing, nextSeq, pending, console, happened>>
      /\ want = None /\ toAdapter # <<>> /\ toAdapter' = Tail(toAdapter)
      /\ Answered' <=> Answered
      /\ unanswered' = unanswered
         \/ (Head(toAdapter).command # "reply" /\ unanswered' = unanswered \cup {Head(toAdapter).seq})
  BY DEF Console!Listen, Console!session, Answered
<1>2. Typed'
  BY <1>1 DEF ConsoleInv, Typed
<1>3. /\ toAdapter \in Seq(Outgoing \ {None}) /\ Head(toAdapter) = toAdapter[1] /\ 1 \in 1 .. Len(toAdapter)
      /\ Len(toAdapter') = Len(toAdapter) - 1 /\ Len(toAdapter) \in Nat
      /\ \A k \in 1 .. Len(toAdapter') : toAdapter'[k] = toAdapter[k + 1] /\ k + 1 \in 1 .. Len(toAdapter)
      /\ toAdapter[1] \in Outgoing /\ toAdapter[1] # None
  BY <1>1 DEF ConsoleInv, Typed
<1>4. \A k \in 1 .. Len(toAdapter') : ~First(toAdapter'[k])
  <2> SUFFICES ASSUME NEW k \in 1 .. Len(toAdapter'), First(toAdapter[k + 1]) PROVE FALSE
      BY <1>3
  <2>1. k + 1 = 1 /\ k \in Nat /\ k >= 1
    BY <1>3 DEF ConsoleInv, Once
  <2> QED
    BY <2>1
<1>5. ~First(writing)
  BY <1>1 DEF ConsoleInv, Once
<1>6. Answered => Console!initializeSeq \notin unanswered'
  <2> SUFFICES ASSUME Answered, Console!initializeSeq \in unanswered' PROVE FALSE
      OBVIOUS
  <2>1. toAdapter[1].command # "reply" /\ toAdapter[1].seq = Console!initializeSeq
    BY <1>1, <1>3 DEF ConsoleInv, Once
  <2>2. First(toAdapter[1])
    BY <1>3, <2>1 DEF First
  <2> QED
    BY <1>3, <2>1, <2>2 DEF ConsoleInv, Once
<1>7. Once'
  BY <1>1, <1>4, <1>5, <1>6 DEF ConsoleInv, Once, First
<1>8. Flow' = Flow
  BY <1>1 DEF Flow
<1>9. Streaming'
  BY <1>1, <1>8, QuietStream
<1>10. Promised
  BY <1>1, ShowsSame DEF ConsoleInv
<1> QED
  BY <1>2, <1>7, <1>9, <1>10 DEF ConsoleInv

\* The draining task moves a message from the pipe to the queue; one that it cannot decode
\* becomes an error.
LEMMA PumpMoves ==
    ASSUME Typed, Console!Pump, phase # "over"
    PROVE  /\ Len(Flow') = Len(Flow)
           /\ \A j \in 1 .. Len(Flow) :
                 \/ Flow'[j] = Flow[j]
                 \/ Flow[j].type \in {"garbage", "closed"} /\ Flow'[j] = Console!Broken
<1> DEFINE m == Head(fromAdapter)
           e == IF m.type \in {"garbage", "closed"} THEN Console!Broken ELSE m
<1>1. fromAdapter # <<>> /\ fromAdapter' = Tail(fromAdapter) /\ queue' = Append(queue, e)
  BY DEF Console!Pump
<1>2. /\ queue \in Seq(Received) /\ fromAdapter \in Seq(Messages) /\ m \in Messages
      /\ Len(fromAdapter) \in Nat /\ Len(queue) \in Nat /\ Len(fromAdapter) >= 1
      /\ m = fromAdapter[1] /\ Len(fromAdapter') = Len(fromAdapter) - 1
      /\ \A j \in 1 .. Len(fromAdapter') : fromAdapter'[j] = fromAdapter[j + 1] /\ j + 1 \in 1 .. Len(fromAdapter)
      /\ fromAdapter' \in Seq(Messages)
  BY <1>1 DEF Typed
<1> HIDE DEF m
<1>3. /\ e \in Received
      /\ e = m \/ (m.type \in {"garbage", "closed"} /\ e = Console!Broken)
  BY <1>2 DEF Received
<1> HIDE DEF e
<1>4. /\ queue' \in Seq(Received) /\ Len(queue') = Len(queue) + 1
      /\ \A j \in 1 .. Len(queue) : queue'[j] = queue[j]
      /\ queue'[Len(queue) + 1] = e
  BY <1>1, <1>2, <1>3
<1>5. /\ Len(Flow) = Len(queue) + Len(fromAdapter)
      /\ \A j \in 1 .. Len(Flow) : IF j <= Len(queue) THEN Flow[j] = queue[j]
                                   ELSE Flow[j] = fromAdapter[j - Len(queue)]
      /\ Len(Flow') = Len(queue') + Len(fromAdapter')
      /\ \A j \in 1 .. Len(Flow') : IF j <= Len(queue') THEN Flow'[j] = queue'[j]
                                    ELSE Flow'[j] = fromAdapter'[j - Len(queue')]
  <2>1. queue' \in Seq(Received) /\ fromAdapter' \in Seq(Received) /\ fromAdapter \in Seq(Received)
    BY <1>2, <1>4 DEF Received
  <2>2. Flow' = queue' \o fromAdapter' /\ Flow = queue \o fromAdapter
    BY DEF Flow
  <2> QED
    BY <1>2, <2>1, <2>2
<1>6. Len(Flow') = Len(Flow)
  BY <1>2, <1>4, <1>5
<1>7. ASSUME NEW j \in 1 .. Len(Flow)
      PROVE  \/ Flow'[j] = Flow[j]
             \/ Flow[j].type \in {"garbage", "closed"} /\ Flow'[j] = Console!Broken
  <2>1. /\ j \in Nat /\ j >= 1 /\ j \in 1 .. Len(Flow')
        /\ Flow[j] = IF j <= Len(queue) THEN queue[j] ELSE fromAdapter[j - Len(queue)]
        /\ Flow'[j] = IF j <= Len(queue) + 1 THEN queue'[j] ELSE fromAdapter'[j - (Len(queue) + 1)]
    BY <1>4, <1>5, <1>6
  <2>2. CASE j <= Len(queue)
    <3>1. queue'[j] = queue[j] /\ j <= Len(queue) + 1
      BY <1>2, <1>4, <2>1, <2>2
    <3> QED
      BY <2>1, <2>2, <3>1
  <2>3. CASE j = Len(queue) + 1
    <3>1. Flow'[j] = e /\ Flow[j] = fromAdapter[1]
      BY <1>2, <1>4, <1>5, <1>6, <2>3
    <3> QED
      BY <1>2, <1>3, <3>1
  <2>4. CASE j > Len(queue) + 1
    <3>1. Flow'[j] = fromAdapter'[j - Len(queue')] /\ Flow[j] = fromAdapter[j - Len(queue)]
      BY <1>2, <1>4, <2>1, <2>4
    <3>2. j - Len(queue') \in 1 .. Len(fromAdapter') /\ (j - Len(queue')) + 1 = j - Len(queue)
      BY <1>2, <1>4, <1>5, <1>6, <2>4
    <3> QED
      BY <1>2, <3>1, <3>2
  <2>5. j <= Len(queue) \/ j = Len(queue) + 1 \/ j > Len(queue) + 1
    BY <1>2, <2>1
  <2> QED
    BY <2>2, <2>3, <2>4, <2>5
<1> QED
  BY <1>6, <1>7

LEMMA PumpKeeps ==
    ASSUME ConsoleInv, Console!Pump
    PROVE  ConsoleInv' /\ Promised
<1> DEFINE m == Head(fromAdapter)
           e == IF m.type \in {"garbage", "closed"} THEN Console!Broken ELSE m
<1>1. /\ UNCHANGED <<want, unanswered, told, toAdapter, phase, writing, nextSeq, pending, console, happened>>
      /\ fromAdapter # <<>> /\ fromAdapter' = Tail(fromAdapter)
      /\ queue' = IF phase = "over" THEN queue ELSE Append(queue, e)
  BY DEF Console!Pump, Console!adapter, Console!session
<1>2. /\ queue \in Seq(Received) /\ fromAdapter \in Seq(Messages) /\ m \in Messages
      /\ Len(fromAdapter) \in Nat /\ Len(queue) \in Nat /\ Len(fromAdapter) >= 1
      /\ m = fromAdapter[1] /\ Len(fromAdapter') = Len(fromAdapter) - 1
      /\ \A j \in 1 .. Len(fromAdapter') : fromAdapter'[j] = fromAdapter[j + 1] /\ j + 1 \in 1 .. Len(fromAdapter)
      /\ fromAdapter' \in Seq(Messages)
  BY <1>1 DEF ConsoleInv, Typed
<1> HIDE DEF m
<1>3. /\ e \in Received
      /\ e = m \/ (~Console!Visible(e) /\ ~Console!Visible(m) /\ ~ToFirst(e) /\ ~ToFirst(m))
  BY <1>2, MessageTypes DEF Received, Console!Visible, ToFirst
<1> HIDE DEF e
<1>4. Typed'
  BY <1>1, <1>2, <1>3 DEF ConsoleInv, Typed
<1>5. Once'
  <2>1. ASSUME ~Answered
        PROVE  /\ \A j \in 1 .. Len(queue') : ~ToFirst(queue'[j])
               /\ \A j \in 1 .. Len(fromAdapter') : ~ToFirst(fromAdapter'[j])
    <3>1. /\ \A j \in 1 .. Len(queue) : ~ToFirst(queue[j])
          /\ \A j \in 1 .. Len(fromAdapter) : ~ToFirst(fromAdapter[j])
      BY <2>1 DEF ConsoleInv, Once
    <3>2. ~ToFirst(m) /\ ~ToFirst(e)
      BY <1>2, <1>3, <3>1
    <3> QED
      BY <1>1, <1>2, <1>3, <3>1, <3>2
  <2> QED
    BY <1>1, <2>1 DEF ConsoleInv, Once, First, Answered
<1>6. Streaming'
  <2>1. CASE phase = "over"
    <3>1. Console!shown' = Console!shown
      BY <1>1, ShownFlat
    <3> QED
      BY <1>1, <2>1, <3>1, OverStream DEF ConsoleInv, Streaming
  <2>2. CASE phase # "over"
    <3>1. /\ Len(Flow') = Len(Flow)
          /\ \A j \in 1 .. Len(Flow) :
                \/ Flow'[j] = Flow[j]
                \/ Flow[j].type \in {"garbage", "closed"} /\ Flow'[j] = Console!Broken
      BY <2>2, PumpMoves DEF ConsoleInv
    <3>2. \A x : x.type \in {"garbage", "closed"} => ~Console!Visible(x) /\ ~ToFirst(x)
      BY DEF Console!Visible, ToFirst
    <3>3. \A j \in 1 .. Len(Flow) :
             \/ Flow'[j] = Flow[j]
             \/ /\ ~Console!Visible(Flow'[j]) /\ ~Console!Visible(Flow[j])
                /\ ~ToFirst(Flow'[j]) /\ ~ToFirst(Flow[j])
      BY <3>1, <3>2, MessageTypes
    <3>4. Answered' <=> Answered
      BY <1>1 DEF Answered
    <3> QED
      BY <1>1, <3>1, <3>3, <3>4, QuietStream
  <2> QED
    BY <2>1, <2>2
<1>7. Promised
  BY <1>1, ShowsSame DEF ConsoleInv
<1> QED
  BY <1>4, <1>5, <1>6, <1>7 DEF ConsoleInv

\* Where the framing is lost an error joins the queue, in front of what nobody will read.
LEMMA LosesFraming ==
    ASSUME Typed, Console!LoseFraming, phase # "over"
    PROVE  /\ Len(Flow') = Len(Flow) + 1 /\ Len(queue) \in 0 .. Len(Flow)
           /\ Flow'[Len(queue) + 1] = Console!Broken
           /\ \A j \in 1 .. Len(queue) : Flow'[j] = Flow[j]
           /\ \A j \in Len(queue) + 1 .. Len(Flow) : Flow'[j + 1] = Flow[j]
<1>1. fromAdapter' = fromAdapter /\ queue' = Append(queue, Console!Broken)
  BY DEF Console!LoseFraming, Console!pipes
<1>2. /\ queue \in Seq(Received) /\ fromAdapter \in Seq(Received) /\ Console!Broken \in Received
      /\ Len(queue) \in Nat /\ Len(fromAdapter) \in Nat
  BY DEF Typed, Received, Messages
<1>3. /\ queue' \in Seq(Received) /\ Len(queue') = Len(queue) + 1
      /\ \A j \in 1 .. Len(queue) : queue'[j] = queue[j]
      /\ queue'[Len(queue) + 1] = Console!Broken
  BY <1>1, <1>2
<1>4. /\ Len(Flow) = Len(queue) + Len(fromAdapter)
      /\ \A j \in 1 .. Len(Flow) : IF j <= Len(queue) THEN Flow[j] = queue[j]
                                   ELSE Flow[j] = fromAdapter[j - Len(queue)]
      /\ Len(Flow') = (Len(queue) + 1) + Len(fromAdapter)
      /\ \A j \in 1 .. Len(Flow') : IF j <= Len(queue) + 1 THEN Flow'[j] = queue'[j]
                                    ELSE Flow'[j] = fromAdapter[j - (Len(queue) + 1)]
  <2>1. /\ Len(queue \o fromAdapter) = Len(queue) + Len(fromAdapter)
        /\ \A j \in 1 .. Len(queue \o fromAdapter) :
              (queue \o fromAdapter)[j] = IF j <= Len(queue) THEN queue[j] ELSE fromAdapter[j - Len(queue)]
    BY <1>2, CatItems
  <2>2. /\ Len(queue' \o fromAdapter) = Len(queue') + Len(fromAdapter)
        /\ \A j \in 1 .. Len(queue' \o fromAdapter) :
              (queue' \o fromAdapter)[j] = IF j <= Len(queue') THEN queue'[j] ELSE fromAdapter[j - Len(queue')]
    BY <1>2, <1>3, CatItems
  <2>3. Flow' = queue' \o fromAdapter /\ Flow = queue \o fromAdapter
    BY <1>1 DEF Flow
  <2> HIDE DEF Flow
  <2> QED
    BY <1>3, <2>1, <2>2, <2>3
<1>5. ASSUME NEW j \in 1 .. Len(queue) PROVE Flow'[j] = Flow[j]
  <2>1. j \in 1 .. Len(Flow) /\ j \in 1 .. Len(Flow') /\ j <= Len(queue) /\ j <= Len(queue) + 1
    BY <1>2, <1>4
  <2> QED
    BY <1>3, <1>4, <2>1
<1>6. ASSUME NEW j \in Len(queue) + 1 .. Len(Flow) PROVE Flow'[j + 1] = Flow[j]
  <2>1. /\ j \in 1 .. Len(Flow) /\ j + 1 \in 1 .. Len(Flow') /\ ~(j <= Len(queue))
        /\ ~(j + 1 <= Len(queue) + 1) /\ (j + 1) - (Len(queue) + 1) = j - Len(queue)
    BY <1>2, <1>4
  <2> QED
    BY <1>4, <2>1
<1>7. Len(queue) + 1 \in 1 .. Len(Flow') /\ Len(queue) \in 0 .. Len(Flow) /\ Len(Flow') = Len(Flow) + 1
  BY <1>2, <1>4
<1>8. Flow'[Len(queue) + 1] = Console!Broken
  BY <1>2, <1>3, <1>4, <1>7
<1> QED
  BY <1>5, <1>6, <1>7, <1>8

LEMMA LoseFramingKeeps ==
    ASSUME ConsoleInv, Console!LoseFraming
    PROVE  ConsoleInv' /\ Promised
<1>1. /\ UNCHANGED <<want, unanswered, told, fromAdapter, toAdapter, phase, writing, nextSeq, pending,
                     console, happened>>
      /\ queue' = IF phase = "over" THEN queue ELSE Append(queue, Console!Broken)
      /\ Answered' <=> Answered
  BY DEF Console!LoseFraming, Console!adapter, Console!pipes, Console!session, Answered
<1>2. queue \in Seq(Received) /\ Console!Broken \in Received /\ ~ToFirst(Console!Broken)
      /\ ~Console!Visible(Console!Broken)
  BY MessageTypes DEF ConsoleInv, Typed, Received
<1>3. Typed'
  BY <1>1, <1>2 DEF ConsoleInv, Typed
<1>4. Once'
  <2>1. ASSUME ~Answered PROVE \A j \in 1 .. Len(queue') : ~ToFirst(queue'[j])
    <3>1. \A j \in 1 .. Len(queue) : ~ToFirst(queue[j])
      BY <2>1 DEF ConsoleInv, Once
    <3> QED
      BY <1>1, <1>2, <3>1
  <2> QED
    BY <1>1, <2>1 DEF ConsoleInv, Once, First
<1>5. Console!shown' = Console!shown /\ Due' = Due
  BY <1>1, ShownFlat DEF Due
<1>6. Begins(Console!shown, happened)'
  BY <1>1, <1>5 DEF ConsoleInv, Streaming, Begins
<1>7. ASSUME phase = "over" PROVE Streaming'
  BY <1>1, <1>6, <1>7 DEF Streaming
<1>8. ASSUME phase # "over" PROVE Streaming'
  <2> DEFINE n == Len(queue)
             Shift(r) == IF r > n THEN r + 1 ELSE r
  <2>1. /\ Len(Flow') = Len(Flow) + 1 /\ n \in 0 .. Len(Flow) /\ Flow'[n + 1] = Console!Broken
        /\ \A j \in 1 .. n : Flow'[j] = Flow[j]
        /\ \A j \in n + 1 .. Len(Flow) : Flow'[j + 1] = Flow[j]
        /\ Flow \in Seq(Received) /\ Len(Flow) \in Nat
    BY <1>8, LosesFraming, FlowTyped DEF ConsoleInv
  <2> HIDE DEF n
  <2>2. ASSUME NEW r \in 0 .. Len(Flow), NEW k, Traced(Flow, r, k, happened)
        PROVE  Traced(Flow', Shift(r), k, happened)
    BY <1>2, <2>1, <2>2, TracedInsert
  <2>3. ASSUME phase' = "session"
        PROVE  Answered' /\ Begins(Due, happened)' /\ Traced(Flow', 0, Len(Due'), happened')
    <3>1. Answered /\ Begins(Due, happened) /\ Traced(Flow, 0, Len(Due), happened)
      BY <1>1, <2>3 DEF ConsoleInv, Streaming
    <3>2. 0 \in 0 .. Len(Flow) /\ Shift(0) = 0
      BY <2>1
    <3>3. Traced(Flow', 0, Len(Due), happened)
      BY <2>2, <3>1, <3>2
    <3> QED
      BY <1>1, <1>5, <3>1, <3>3 DEF Begins
  <2>4. ASSUME phase' = "initialize", Answered'
        PROVE  \E r \in 1 .. Len(Flow') : /\ Traced(Flow', r, 0, happened')
                                          /\ \A j \in 1 .. Len(Flow') : ToFirst(Flow'[j]) <=> j = r
    <3>1. PICK r \in 1 .. Len(Flow) : /\ Traced(Flow, r, 0, happened)
                                      /\ \A j \in 1 .. Len(Flow) : ToFirst(Flow[j]) <=> j = r
      BY <1>1, <2>4 DEF ConsoleInv, Streaming
    <3>2. r \in 0 .. Len(Flow) /\ Shift(r) \in 1 .. Len(Flow')
      BY <2>1
    <3>3. Traced(Flow', Shift(r), 0, happened')
      BY <1>1, <2>2, <3>1, <3>2
    <3>4. ASSUME NEW j \in 1 .. Len(Flow') PROVE ToFirst(Flow'[j]) <=> j = Shift(r)
      <4>1. CASE j <= n
        <5>1. j \in 1 .. n /\ j \in 1 .. Len(Flow) /\ (j = Shift(r) <=> j = r)
          BY <2>1, <4>1
        <5> QED
          BY <2>1, <3>1, <5>1
      <4>2. CASE j = n + 1
        <5>1. j # Shift(r)
          BY <2>1, <4>2
        <5> QED
          BY <1>2, <2>1, <4>2, <5>1
      <4>3. CASE j > n + 1
        <5>1. /\ j - 1 \in n + 1 .. Len(Flow) /\ (j - 1) + 1 = j /\ j - 1 \in 1 .. Len(Flow)
              /\ j = Shift(r) <=> j - 1 = r
          BY <2>1, <4>3
        <5>2. Flow'[j] = Flow[j - 1]
          BY <2>1, <5>1
        <5>3. ToFirst(Flow[j - 1]) <=> j - 1 = r
          BY <3>1, <5>1
        <5> QED
          BY <5>1, <5>2, <5>3
      <4> QED
        BY <2>1, <4>1, <4>2, <4>3
    <3> QED
      BY <3>2, <3>3, <3>4
  <2>5. phase' = "initialize" => /\ console' = <<>> /\ pending' = Console!Nothing
                                 /\ ~Answered' => happened' = <<>>
    BY <1>1 DEF ConsoleInv, Streaming
  <2> QED
    BY <1>6, <2>3, <2>4, <2>5 DEF Streaming
<1>9. Promised
  BY <1>1, ShowsSame DEF ConsoleInv
<1> QED
  BY <1>3, <1>4, <1>7, <1>8, <1>9 DEF ConsoleInv

LEMMA PushKeeps ==
    ASSUME ConsoleInv, Console!Push
    PROVE  ConsoleInv' /\ Promised
<1>1. /\ want # None /\ want' = None /\ fromAdapter' = Append(fromAdapter, want)
      /\ UNCHANGED <<toAdapter, queue, phase, writing, nextSeq, pending, console>>
      /\ happened' = IF Answered /\ Console!Visible(want) THEN Append(happened, want) ELSE happened
  BY DEF Console!Push, Console!session, Answered
<1>2. /\ Answered' <=> Answered \/ ToFirst(want)
      /\ unanswered' = IF want.type = "response" THEN unanswered \ {want.to} ELSE unanswered
  BY DEF Console!Push, Answered, ToFirst
<1>3. /\ want \in Messages /\ want \in Received
      /\ want.type = "response" => want.to \in unanswered
      /\ Console!Visible(want) => want \in Items
      /\ ToFirst(want) => ~Console!Visible(want)
  BY <1>1, MessageTypes DEF ConsoleInv, Typed, Received
<1>4. happened \in Seq(Items) /\ fromAdapter \in Seq(Messages) /\ queue \in Seq(Received)
  BY DEF ConsoleInv, Typed
<1>5. happened' \in Seq(Items) /\ fromAdapter' \in Seq(Messages)
  BY <1>1, <1>3, <1>4
<1>6. Typed'
  BY <1>1, <1>5 DEF ConsoleInv, Typed
<1>7. ToFirst(want) => ~Answered
  BY <1>3 DEF ConsoleInv, Once, ToFirst
<1>8. Once'
  <2>1. CASE ToFirst(want)
    <3>1. ~First(writing) /\ \A k \in 1 .. Len(toAdapter) : ~First(toAdapter[k])
      BY <1>3, <2>1 DEF ConsoleInv, Once, ToFirst
    <3>2. Console!initializeSeq \notin unanswered' /\ Answered'
      BY <1>2, <2>1 DEF ToFirst
    <3> QED
      BY <1>1, <3>1, <3>2 DEF Once, First
  <2>2. CASE ~ToFirst(want)
    <3>1. (Answered' <=> Answered) /\ unanswered' \subseteq unanswered
      BY <1>2, <2>2
    <3>2. ASSUME ~Answered PROVE \A j \in 1 .. Len(fromAdapter') : ~ToFirst(fromAdapter'[j])
      <4>1. \A j \in 1 .. Len(fromAdapter) : ~ToFirst(fromAdapter[j])
        BY <3>2 DEF ConsoleInv, Once
      <4> QED
        BY <1>1, <1>3, <1>4, <2>2, <4>1
    <3> QED
      BY <1>1, <3>1, <3>2 DEF ConsoleInv, Once, First
  <2> QED
    BY <2>1, <2>2
<1>9. /\ Flow' = Append(Flow, want) /\ Flow \in Seq(Received) /\ Flow' \in Seq(Received)
      /\ Len(Flow') = Len(Flow) + 1 /\ Len(Flow) \in Nat /\ Flow'[Len(Flow) + 1] = want
      /\ \A j \in 1 .. Len(Flow) : Flow'[j] = Flow[j]
  <2>1. Flow \in Seq(Received) /\ fromAdapter \in Seq(Received)
    BY FlowTyped DEF ConsoleInv
  <2>2. Flow' = Append(Flow, want)
    BY <1>1, <1>3, <1>4, <2>1, CatAppend DEF Flow
  <2> HIDE DEF Flow
  <2> QED
    BY <1>3, <2>1, <2>2
<1>10. Console!shown' = Console!shown /\ Due' = Due /\ Console!shown \in Seq(Items) /\ Due \in Seq(Items)
  BY <1>1, ShownFlat, DueTyped DEF Due, ConsoleInv
<1>11. \A s \in Seq(Items) : Begins(s, happened) => Begins(s, happened')
  BY <1>1, <1>3, <1>4, BeginsAppend
<1>12. ASSUME Answered, NEW r \in 0 .. Len(Flow), NEW k, Traced(Flow, r, k, happened)
       PROVE  Traced(Flow', r, k, happened')
  <2>1. happened' = IF Console!Visible(want) THEN Append(happened, want) ELSE happened
    BY <1>1, <1>12
  <2>2. happened \in Seq(Received)
    BY FlowTyped DEF ConsoleInv
  <2>3. Traced(Append(Flow, want), r, k, happened')
    BY <1>3, <1>9, <1>12, <2>1, <2>2, TracedAppend
  <2> QED
    BY <1>9, <2>3
<1>13. Begins(Console!shown, happened)'
  BY <1>10, <1>11 DEF ConsoleInv, Streaming, Begins
<1>14. ASSUME phase' = "session"
       PROVE  Answered' /\ Begins(Due, happened)' /\ Traced(Flow', 0, Len(Due'), happened')
  <2>1. Answered /\ Begins(Due, happened) /\ Traced(Flow, 0, Len(Due), happened)
    BY <1>1, <1>14 DEF ConsoleInv, Streaming
  <2>2. 0 \in 0 .. Len(Flow)
    BY <1>9
  <2>3. Begins(Due, happened') /\ Traced(Flow', 0, Len(Due), happened')
    BY <1>10, <1>11, <1>12, <2>1, <2>2
  <2> QED
    BY <1>2, <1>10, <2>1, <2>3 DEF Begins
<1>15. ASSUME phase' = "initialize", Answered'
       PROVE  \E r \in 1 .. Len(Flow') : /\ Traced(Flow', r, 0, happened')
                                         /\ \A j \in 1 .. Len(Flow') : ToFirst(Flow'[j]) <=> j = r
  <2>1. CASE ~Answered
    <3>1. ToFirst(want) /\ happened' = <<>>
      BY <1>1, <1>2, <1>15, <2>1 DEF ConsoleInv, Streaming
    <3>2. \A j \in 1 .. Len(Flow) : ~ToFirst(Flow[j])
      BY <2>1, FlowTyped DEF ConsoleInv
    <3>3. Traced(Flow', Len(Flow'), 0, happened')
      BY <1>9, <3>1, NoneTraced
    <3>4. Len(Flow') \in 1 .. Len(Flow') /\ \A j \in 1 .. Len(Flow') : ToFirst(Flow'[j]) <=> j = Len(Flow')
      BY <1>9, <3>1, <3>2
    <3> QED
      BY <3>3, <3>4
  <2>2. CASE Answered
    <3>1. PICK r \in 1 .. Len(Flow) : /\ Traced(Flow, r, 0, happened)
                                      /\ \A j \in 1 .. Len(Flow) : ToFirst(Flow[j]) <=> j = r
      BY <1>1, <1>15, <2>2 DEF ConsoleInv, Streaming
    <3>2. r \in 0 .. Len(Flow) /\ r \in 1 .. Len(Flow')
      BY <1>9
    <3>3. Traced(Flow', r, 0, happened')
      BY <1>12, <2>2, <3>1, <3>2
    <3>4. \A j \in 1 .. Len(Flow') : ToFirst(Flow'[j]) <=> j = r
      BY <1>7, <1>9, <2>2, <3>1
    <3> QED
      BY <3>2, <3>3, <3>4
  <2> QED
    BY <2>1, <2>2
<1>16. phase' = "initialize" => /\ console' = <<>> /\ pending' = Console!Nothing
                                /\ ~Answered' => happened' = <<>>
  BY <1>1, <1>2 DEF ConsoleInv, Streaming
<1>17. Streaming'
  BY <1>13, <1>14, <1>15, <1>16 DEF Streaming
<1>18. Promised
  <2>1. CASE happened' = happened
    BY <1>1, <2>1, ShowsSame DEF ConsoleInv
  <2>2. CASE happened' # happened
    <3>1. want \in Console!Outputs \cup Console!Events /\ happened' = Append(happened, want)
      BY <1>1, <1>3, <2>2 DEF Items
    <3> QED
      BY <1>1, <1>10, <3>1 DEF Promised, Console!Abstract!Next, Console!Abstract!Report
  <2> QED
    BY <2>1, <2>2
<1> QED
  BY <1>6, <1>8, <1>17, <1>18 DEF ConsoleInv

-----------------------------------------------------------------------------
(* The session's steps                                                     *)

LEMMA WriteKeeps ==
    ASSUME ConsoleInv, Console!Write
    PROVE  ConsoleInv' /\ Promised
<1>1. /\ UNCHANGED <<want, unanswered, told, fromAdapter, queue, nextSeq, pending, console, happened>>
      /\ phase # "over" /\ writing # None /\ writing' = None
      /\ \/ phase' = "over" /\ toAdapter' = toAdapter
         \/ phase' = phase /\ toAdapter' = Append(toAdapter, writing)
      /\ Answered' <=> Answered
  BY DEF Console!Write, Console!adapter, Answered
<1>2. /\ writing \in Outgoing \ {None} /\ toAdapter \in Seq(Outgoing \ {None})
      /\ phase \in {"initialize", "session", "over"}
  BY <1>1 DEF ConsoleInv, Typed
<1>3. toAdapter' \in Seq(Outgoing \ {None}) /\ phase' \in {"initialize", "session", "over"}
  BY <1>1, <1>2
<1>4. Typed'
  BY <1>1, <1>3 DEF ConsoleInv, Typed
<1>5. Once'
  <2>1. ASSUME NEW k \in 1 .. Len(toAdapter'), First(toAdapter'[k])
        PROVE  k = 1 /\ Console!initializeSeq \notin unanswered /\ ~Answered
    <3>1. CASE toAdapter' = toAdapter
      BY <2>1, <3>1 DEF ConsoleInv, Once
    <3>2. CASE toAdapter' = Append(toAdapter, writing)
      <4>1. CASE k = Len(toAdapter) + 1
        <5>1. First(writing)
          BY <1>2, <2>1, <3>2, <4>1
        <5> QED
          BY <4>1, <5>1 DEF ConsoleInv, Once
      <4>2. CASE k # Len(toAdapter) + 1
        <5>1. k \in 1 .. Len(toAdapter) /\ First(toAdapter[k])
          BY <1>2, <2>1, <3>2, <4>2
        <5> QED
          BY <5>1 DEF ConsoleInv, Once
      <4> QED
        BY <4>1, <4>2
    <3> QED
      BY <1>1, <3>1, <3>2
  <2> QED
    BY <1>1, <2>1 DEF ConsoleInv, Once, First
<1>6. Flow' = Flow
  BY <1>1 DEF Flow
<1>7. Console!shown' = Console!shown
  BY <1>1, ShownFlat
<1>8. Streaming'
  <2>1. CASE phase' = phase
    BY <1>1, <1>6, <2>1, QuietStream
  <2>2. CASE phase' = "over"
    BY <1>1, <1>7, <2>2, OverStream DEF ConsoleInv, Streaming
  <2> QED
    BY <1>1, <2>1, <2>2
<1>9. Promised
  BY <1>1, ShowsSame DEF ConsoleInv
<1> QED
  BY <1>4, <1>5, <1>8, <1>9 DEF ConsoleInv

LEMMA CatchUpKeeps ==
    ASSUME ConsoleInv, Console!CatchUp
    PROVE  ConsoleInv' /\ Promised
<1>1. /\ UNCHANGED <<want, unanswered, told, fromAdapter, toAdapter, queue, phase, writing, nextSeq, happened>>
      /\ phase # "over" /\ pending # Console!Nothing /\ pending' = Console!Nothing
      /\ console' = console \o Console!Batch(pending)
      /\ Answered' <=> Answered
  BY DEF Console!CatchUp, Console!Flush, Console!adapter, Console!pipes, Console!session, Answered
<1>2. phase = "session" /\ Answered /\ Begins(Due, happened) /\ Traced(Flow, 0, Len(Due), happened)
  BY <1>1 DEF ConsoleInv, Streaming, Typed
<1>3. console' \in Seq(Batches) /\ Console!shown' = Due /\ Due \in Seq(Items)
  BY <1>1, FlatBatch, ShownFlat DEF ConsoleInv, Typed, Due
<1>4. pending' \in Batches /\ pending'.items = <<>>
  BY <1>1, NothingBatch
<1>5. Typed'
  BY <1>1, <1>3, <1>4 DEF ConsoleInv, Typed
<1>6. Once'
  BY <1>1 DEF ConsoleInv, Once
<1>7. Flow' = Flow
  BY <1>1 DEF Flow
<1>8. Due' = Due
  BY <1>3, <1>4 DEF Due
<1>9. Streaming'
  BY <1>1, <1>2, <1>3, <1>7, <1>8 DEF Streaming
<1>10. Due = Console!shown \/ Len(Due) > Len(Console!shown)
  <2>1. pending.items = <<>> \/ Len(pending.items) > 0
    BY DueTyped DEF ConsoleInv
  <2>2. pending.items = <<>> => Due = Console!shown
    BY DueTyped DEF ConsoleInv, Due
  <2> QED
    BY <2>1, <2>2, DueTyped DEF ConsoleInv
<1>11. Promised
  BY <1>1, <1>2, <1>3, <1>10, ShowsMore DEF ConsoleInv
<1> QED
  BY <1>5, <1>6, <1>9, <1>11 DEF ConsoleInv

\* A message is taken from the queue, and so from what is on its way.
LEMMA TakenFlow ==
    ASSUME ConsoleInv, NEW m, Console!Takes(m), UNCHANGED fromAdapter
    PROVE  /\ m \in Received /\ queue' \in Seq(Received) /\ writing = None /\ phase # "over"
           /\ Flow \in Seq(Received) /\ Flow # <<>> /\ Head(Flow) = m /\ Flow[1] = m
           /\ Flow' = Tail(Flow) /\ Len(Flow) \in Nat /\ Len(Flow') = Len(Flow) - 1 /\ Len(Flow) >= 1
           /\ \A j \in 1 .. Len(Flow') : Flow'[j] = Flow[j + 1] /\ j + 1 \in 1 .. Len(Flow)
           /\ \A j \in 1 .. Len(queue') : queue'[j] = queue[j + 1] /\ j + 1 \in 1 .. Len(queue)
<1>1. /\ queue # <<>> /\ Head(queue) = m /\ queue' = Tail(queue) /\ writing = None /\ phase # "over"
      /\ queue \in Seq(Received) /\ fromAdapter \in Seq(Received)
  BY FlowTyped DEF Console!Takes, ConsoleInv, Typed
<1>2. /\ m \in Received /\ queue' \in Seq(Received)
      /\ \A j \in 1 .. Len(queue') : queue'[j] = queue[j + 1] /\ j + 1 \in 1 .. Len(queue)
  BY <1>1
<1>3. /\ Flow \in Seq(Received) /\ Flow # <<>> /\ Head(Flow) = m /\ Flow' = Tail(Flow)
  <2>1. /\ queue \o fromAdapter \in Seq(Received) /\ queue \o fromAdapter # <<>>
        /\ Head(queue \o fromAdapter) = Head(queue)
        /\ Tail(queue) \o fromAdapter = Tail(queue \o fromAdapter)
    BY <1>1, CatTail
  <2>2. Flow' = queue' \o fromAdapter' /\ Flow = queue \o fromAdapter
    BY DEF Flow
  <2> QED
    BY <1>1, <2>1, <2>2
<1>4. /\ Flow[1] = m /\ Len(Flow) \in Nat /\ Len(Flow') = Len(Flow) - 1 /\ Len(Flow) >= 1
      /\ \A j \in 1 .. Len(Flow') : Flow'[j] = Flow[j + 1] /\ j + 1 \in 1 .. Len(Flow)
  <2> HIDE DEF Flow
  <2> QED
    BY <1>3
<1> QED
  BY <1>1, <1>2, <1>3, <1>4

LEMMA TakenOnce ==
    ASSUME ConsoleInv, NEW m, Console!Takes(m), UNCHANGED <<fromAdapter, toAdapter, unanswered, told>>,
           ~First(writing')
    PROVE  Once' /\ (Answered' <=> Answered)
<1>1. Answered' <=> Answered
  BY DEF Answered
<1>2. ASSUME ~Answered PROVE \A j \in 1 .. Len(queue') : ~ToFirst(queue'[j])
  BY <1>2, TakenFlow DEF ConsoleInv, Once
<1> QED
  BY <1>1, <1>2 DEF ConsoleInv, Once, First

\* What the session writes next, and that it is none of what was asked first.
LEMMA NextWritten ==
    ASSUME ConsoleInv, NEW m \in Received, writing = None,
           \/ UNCHANGED <<writing, nextSeq>>
           \/ Console!Request(Console!Send("launch")) \/ Console!Request(Console!Send("configurationDone"))
           \/ m.type = "reverse" /\ Console!Request(Console!Reply(m))
    PROVE  writing' \in Outgoing \cup {None} /\ nextSeq' \in Nat \ {0, 1} /\ ~First(writing')
<1>1. nextSeq \in Nat \ {0, 1}
  BY DEF ConsoleInv, Typed
<1>2. CASE UNCHANGED <<writing, nextSeq>>
  BY <1>1, <1>2 DEF First
<1>3. CASE Console!Request(Console!Send("launch")) \/ Console!Request(Console!Send("configurationDone"))
  BY <1>1, <1>3 DEF Console!Request, Console!Send, Outgoing, First, Console!initializeSeq
<1>4. CASE m.type = "reverse" /\ Console!Request(Console!Reply(m))
  <2>1. m.n \in Console!Numbers
    BY <1>4, MessageTypes DEF Console!Events
  <2> QED
    BY <1>1, <1>4, <2>1 DEF Console!Request, Console!Reply, Outgoing, First
<1> QED
  BY <1>2, <1>3, <1>4

LEMMA EmptyFlat == Flat(<<>>) = <<>>
<1>1. [k \in DOMAIN <<>> |-> <<>>[k].items] = <<>>
  OBVIOUS
<1>2. Console!FlattenSeq(<<>>) = <<>>
  BY DEF Console!FlattenSeq
<1> QED
  BY <1>1, <1>2 DEF Flat

LEMMA InitializeKeeps ==
    ASSUME ConsoleInv, NEW m, Console!Initialize(m)
    PROVE  ConsoleInv' /\ Promised
<1>1. /\ Console!Takes(m) /\ phase = "initialize"
      /\ UNCHANGED <<want, unanswered, told, fromAdapter, toAdapter, pending, console, happened>>
      /\ \/ phase' = "over" /\ UNCHANGED <<writing, nextSeq>>
         \/ phase' = "session" /\ ToFirst(m) /\ Console!Request(Console!Send("launch"))
         \/ /\ phase' = "initialize" /\ ~ToFirst(m)
            /\ UNCHANGED <<writing, nextSeq>> \/ (m.type = "reverse" /\ Console!Request(Console!Reply(m)))
  BY DEF Console!Initialize, Console!adapter, Console!pipes, ToFirst
<1>2. UNCHANGED fromAdapter
  BY <1>1
<1>3. m \in Received /\ queue' \in Seq(Received) /\ writing = None
  BY <1>1, <1>2, TakenFlow
<1>4. writing' \in Outgoing \cup {None} /\ nextSeq' \in Nat \ {0, 1} /\ ~First(writing')
  BY <1>1, <1>3, NextWritten
<1>5. Once' /\ (Answered' <=> Answered)
  BY <1>1, <1>4, TakenOnce
<1>6. Typed'
  BY <1>1, <1>3, <1>4 DEF ConsoleInv, Typed
<1>7. Console!shown' = Console!shown
  BY <1>1, ShownFlat
<1>8. /\ console = <<>> /\ pending = Console!Nothing /\ Begins(Console!shown, happened)
      /\ ~Answered => happened = <<>>
      /\ Answered => \E r \in 1 .. Len(Flow) : /\ Traced(Flow, r, 0, happened)
                                               /\ \A j \in 1 .. Len(Flow) : ToFirst(Flow[j]) <=> j = r
  BY <1>1 DEF ConsoleInv, Streaming
<1>9. /\ Flow \in Seq(Received) /\ Flow # <<>> /\ Head(Flow) = m /\ Flow[1] = m
      /\ Flow' = Tail(Flow) /\ Len(Flow) \in Nat /\ Len(Flow') = Len(Flow) - 1 /\ Len(Flow) >= 1
      /\ \A j \in 1 .. Len(Flow') : Flow'[j] = Flow[j + 1] /\ j + 1 \in 1 .. Len(Flow)
  BY <1>1, <1>2, TakenFlow
<1>10. \A r \in 1 .. Len(Flow) : Traced(Flow, r, 0, happened) => Traced(Flow', r - 1, 0, happened')
  <2> SUFFICES ASSUME NEW r \in 1 .. Len(Flow), Traced(Flow, r, 0, happened)
               PROVE  Traced(Flow', r - 1, 0, happened)
      BY <1>1
  <2>1. r \in 0 .. Len(Flow) /\ r # 0
    BY <1>9
  <2>2. happened \in Seq(Received)
    BY FlowTyped DEF ConsoleInv
  <2>3. Traced(Tail(Flow), r - 1, 0, happened)
    BY <1>9, <2>1, <2>2, TracedTail
  <2> QED
    BY <1>9, <2>3
<1>11. Begins(Console!shown, happened)'
  BY <1>1, <1>7, <1>8 DEF Begins
<1>12. Streaming'
  <2>1. CASE phase' = "over"
    BY <1>11, <2>1 DEF Streaming
  <2>2. CASE phase' = "session"
    <3>1. ToFirst(Flow[1]) /\ 1 \in 1 .. Len(Flow)
      BY <1>1, <1>9, <2>2
    <3>2. Answered
      BY <3>1, FlowTyped DEF ConsoleInv
    <3>3. PICK r \in 1 .. Len(Flow) : /\ Traced(Flow, r, 0, happened)
                                      /\ \A j \in 1 .. Len(Flow) : ToFirst(Flow[j]) <=> j = r
      BY <1>8, <3>2
    <3>4. r = 1 /\ r - 1 = 0
      BY <3>1, <3>3
    <3>5. Traced(Flow', 0, 0, happened')
      BY <1>10, <3>3, <3>4
    <3>6. Due' = <<>> /\ Len(Due') = 0
      <4>1. Console!shown' = <<>> /\ pending'.items = <<>>
        BY <1>1, <1>8, ShownFlat, EmptyFlat, NothingBatch
      <4> QED
        BY <4>1 DEF Due
    <3>7. Begins(Due, happened)'
      BY <1>6, <3>6 DEF Begins, Typed
    <3> QED
      BY <1>5, <1>11, <2>2, <3>2, <3>5, <3>6, <3>7 DEF Streaming
  <2>3. CASE phase' = "initialize"
    <3>1. ASSUME Answered
          PROVE  \E r \in 1 .. Len(Flow') : /\ Traced(Flow', r, 0, happened')
                                            /\ \A j \in 1 .. Len(Flow') : ToFirst(Flow'[j]) <=> j = r
      <4>1. PICK r \in 1 .. Len(Flow) : /\ Traced(Flow, r, 0, happened)
                                        /\ \A j \in 1 .. Len(Flow) : ToFirst(Flow[j]) <=> j = r
        BY <1>8, <3>1
      <4>2. r # 1
        BY <1>1, <1>9, <2>3, <4>1
      <4>3. r - 1 \in 1 .. Len(Flow') /\ Traced(Flow', r - 1, 0, happened')
        BY <1>9, <1>10, <4>1, <4>2
      <4>4. \A j \in 1 .. Len(Flow') : ToFirst(Flow'[j]) <=> j = r - 1
        <5> SUFFICES ASSUME NEW j \in 1 .. Len(Flow') PROVE ToFirst(Flow'[j]) <=> j = r - 1
            OBVIOUS
        <5>1. Flow'[j] = Flow[j + 1] /\ j + 1 \in 1 .. Len(Flow)
          BY <1>9
        <5>2. ToFirst(Flow[j + 1]) <=> j + 1 = r
          BY <4>1, <5>1
        <5>3. j + 1 = r <=> j = r - 1
          OBVIOUS
        <5> QED
          BY <5>1, <5>2, <5>3
      <4> QED
        BY <4>3, <4>4
    <3> QED
      BY <1>1, <1>5, <1>8, <1>11, <2>3, <3>1 DEF Streaming
  <2> QED
    BY <1>1, <2>1, <2>2, <2>3
<1>13. Promised
  BY <1>1, ShowsSame DEF ConsoleInv
<1> QED
  BY <1>5, <1>6, <1>12, <1>13 DEF ConsoleInv

\* While the session lasts, the message it takes is the next that is due, if it is one
\* that a console shows.
LEMMA TakenDue ==
    ASSUME ConsoleInv, NEW m, phase = "session", Console!Takes(m), UNCHANGED <<fromAdapter, happened>>,
           NEW d, d = IF Console!Visible(m) THEN Append(Due, m) ELSE Due
    PROVE  /\ d \in Seq(Items) /\ Begins(d, happened) /\ Traced(Flow', 0, Len(d), happened)
           /\ Due \in Seq(Items) /\ Begins(Due, happened)
<1>1. /\ Begins(Due, happened) /\ Traced(Flow, 0, Len(Due), happened)
      /\ happened \in Seq(Items) /\ happened \in Seq(Received) /\ Due \in Seq(Items)
  BY FlowTyped, DueTyped DEF ConsoleInv, Streaming, Typed
<1>2. /\ m \in Received /\ Flow \in Seq(Received) /\ Flow # <<>> /\ Head(Flow) = m /\ Flow' = Tail(Flow)
      /\ 0 \in 0 .. Len(Flow)
  BY TakenFlow
<1>3. /\ Console!Visible(m) => /\ Len(Due) + 1 \in 1 .. Len(happened) /\ happened[Len(Due) + 1] = m
                               /\ Traced(Flow', 0, Len(Due) + 1, happened)
      /\ ~Console!Visible(m) => Traced(Flow', 0, Len(Due), happened)
  <2>1. PICK k : k = Len(Due)
    OBVIOUS
  <2>2. Traced(Flow, 0, k, happened)
    BY <1>1, <2>1
  <2>3. /\ Console!Visible(m) => /\ k + 1 \in 1 .. Len(happened) /\ happened[k + 1] = m
                                 /\ Traced(Tail(Flow), 0, k + 1, happened)
        /\ ~Console!Visible(m) => Traced(Tail(Flow), 0, k, happened)
    <3> HIDE DEF Flow, Due
    <3> QED
      BY <1>1, <1>2, <2>2, TracedTail
  <2> QED
    BY <1>2, <2>1, <2>3
<1>4. CASE Console!Visible(m)
  <2>1. m \in Items
    BY <1>2, <1>4, MessageTypes DEF Received
  <2>2. Begins(Append(Due, m), happened)
    BY <1>1, <1>3, <1>4, <2>1, BeginsAppend
  <2>3. Append(Due, m) \in Seq(Items) /\ Len(Append(Due, m)) = Len(Due) + 1
    BY <1>1, <2>1
  <2> QED
    BY <1>1, <1>3, <1>4, <2>2, <2>3
<1>5. CASE ~Console!Visible(m)
  BY <1>1, <1>3, <1>5
<1> QED
  BY <1>4, <1>5

\* What is due is what is shown, or more.
LEMMA DueIsMore ==
    ASSUME Typed, NEW m \in Items
    PROVE  /\ Due = Console!shown \/ Len(Due) > Len(Console!shown)
           /\ Len(Append(Due, m)) > Len(Console!shown)
<1>1. /\ Console!shown \in Seq(Items) /\ pending.items \in Seq(Items) /\ Due \in Seq(Items)
      /\ Len(Due) = Len(Console!shown) + Len(pending.items)
  BY DueTyped
<1>2. CASE pending.items = <<>>
  <2>1. Due = Console!shown
    BY <1>1, <1>2 DEF Due
  <2> QED
    BY <1>1, <2>1
<1>3. CASE pending.items # <<>>
  BY <1>1, <1>3
<1> QED
  BY <1>2, <1>3

\* A message taken while the session lasts, whatever is done with it.
LEMMA TakenKeeps ==
    ASSUME ConsoleInv, NEW m, phase = "session", Console!Takes(m), phase' \in {"session", "over"},
           UNCHANGED <<want, unanswered, told, fromAdapter, toAdapter, happened>>,
           writing' \in Outgoing \cup {None} /\ nextSeq' \in Nat \ {0, 1} /\ ~First(writing'),
           console' \in Seq(Batches), pending' \in Batches,
           Due' = IF Console!Visible(m) THEN Append(Due, m) ELSE Due,
           Console!shown' = Console!shown \/ Console!shown' = Due \/ Console!shown' = Due'
    PROVE  ConsoleInv' /\ Promised
<1>1. m \in Received /\ queue' \in Seq(Received)
  BY TakenFlow
<1>2. Typed'
  BY <1>1 DEF ConsoleInv, Typed
<1>3. Once' /\ (Answered' <=> Answered)
  BY TakenOnce
<1>4. /\ Due' \in Seq(Items) /\ Begins(Due', happened) /\ Traced(Flow', 0, Len(Due'), happened)
      /\ Due \in Seq(Items) /\ Begins(Due, happened)
  <2>1. PICK d : d = Due'
    OBVIOUS
  <2>2. UNCHANGED <<fromAdapter, happened>> /\ d = IF Console!Visible(m) THEN Append(Due, m) ELSE Due
    BY <2>1
  <2>3. /\ d \in Seq(Items) /\ Begins(d, happened) /\ Traced(Flow', 0, Len(d), happened)
        /\ Due \in Seq(Items) /\ Begins(Due, happened)
    BY <2>2, TakenDue
  <2> QED
    BY <2>1, <2>3
<1>5. Console!shown' \in Seq(Items) /\ Begins(Console!shown', happened)
  BY <1>4, DueTyped DEF ConsoleInv, Streaming
<1>6. Streaming'
  <2>1. Answered'
    BY <1>3 DEF ConsoleInv, Streaming
  <2>2. Begins(Console!shown, happened)' /\ Begins(Due, happened)' /\ Traced(Flow', 0, Len(Due'), happened')
    BY <1>4, <1>5 DEF Begins
  <2> QED
    BY <2>1, <2>2 DEF Streaming
<1>7. Console!shown' = Console!shown \/ Len(Console!shown') > Len(Console!shown)
  <2>1. CASE Console!shown' = Console!shown
    BY <2>1
  <2>2. CASE Console!Visible(m) /\ Console!shown' # Console!shown
    <3>1. m \in Items
      BY <1>1, <2>2, MessageTypes DEF Received
    <3> QED
      BY <2>2, <3>1, DueIsMore DEF ConsoleInv
  <2>3. CASE ~Console!Visible(m) /\ Console!shown' # Console!shown
    <3>1. Console!shown' = Due /\ Len(Due) = Len(Console!shown) + Len(pending.items) /\ pending.items \in Seq(Items)
      BY <2>3, DueTyped DEF ConsoleInv
    <3>2. pending.items = <<>> => Due = Console!shown
      BY DueTyped DEF ConsoleInv, Due
    <3>3. pending.items = <<>> \/ Len(pending.items) > 0
      BY <3>1
    <3>4. Len(Console!shown) \in Nat
      BY DueTyped DEF ConsoleInv
    <3> QED
      BY <2>3, <3>1, <3>2, <3>3, <3>4
  <2> QED
    BY <2>1, <2>2, <2>3
<1>8. Promised
  BY <1>5, <1>7, ShowsMore DEF ConsoleInv
<1> QED
  BY <1>2, <1>3, <1>6, <1>8 DEF ConsoleInv

LEMMA CatAssociates ==
    ASSUME NEW X, NEW s \in Seq(X), NEW t \in Seq(X), NEW m \in X
    PROVE  s \o Append(t, m) = Append(s \o t, m) /\ s \o <<m>> = Append(s, m) /\ s \o <<>> = s
OBVIOUS

LEMMA OutputKeeps ==
    ASSUME ConsoleInv, NEW m, Console!Output(m)
    PROVE  ConsoleInv' /\ Promised
<1>1. /\ Console!Takes(m) /\ phase = "session" /\ phase' = phase /\ m.type = "output"
      /\ UNCHANGED <<want, unanswered, told, fromAdapter, toAdapter, writing, nextSeq, happened>>
      /\ pending' = Console!Held(pending, m)
      /\ console' = IF Console!Flushes(pending, m) THEN console \o Console!Batch(pending) ELSE console
  BY DEF Console!Output, Console!adapter, Console!pipes, Console!session
<1>2. m \in Received /\ writing = None /\ Console!Visible(m) /\ m \in Items /\ m.stream \in Streams
  <2>1. m \in Received /\ writing = None
    BY <1>1, TakenFlow
  <2>2. m \in Console!Outputs
    BY <1>1, <2>1, MessageTypes
  <2> QED
    BY <1>1, <2>1, <2>2, MessageTypes DEF Console!Outputs, Items
<1>3. writing' \in Outgoing \cup {None} /\ nextSeq' \in Nat \ {0, 1} /\ ~First(writing')
  BY <1>1, <1>2, NextWritten
<1>4. /\ console \in Seq(Batches) /\ pending \in Batches /\ pending.items \in Seq(Items)
      /\ Console!shown \in Seq(Items) /\ Due \in Seq(Items) /\ Due = Console!shown \o pending.items
  BY DueTyped DEF ConsoleInv, Typed, Due
<1>5. /\ console \o Console!Batch(pending) \in Seq(Batches)
      /\ Flat(console \o Console!Batch(pending)) = Due
  BY <1>4, FlatBatch, ShownFlat
<1>6. Due' = Console!shown' \o pending'.items
  BY DEF Due
<1>7. /\ console' \in Seq(Batches) /\ pending' \in Batches /\ Due' = Append(Due, m)
      /\ Console!shown' = Console!shown \/ Console!shown' = Due
  <2>1. CASE Console!Flushes(pending, m)
    <3>1. pending' = [stream |-> m.stream, items |-> <<m>>] /\ Console!shown' = Due
      BY <1>1, <1>5, <2>1, ShownFlat DEF Console!Held
    <3>2. pending' \in Batches /\ pending'.items = <<m>>
      BY <1>2, <3>1 DEF Batches
    <3>3. Due \o <<m>> = Append(Due, m)
      BY <1>2, <1>4, CatAssociates
    <3> QED
      BY <1>1, <1>5, <1>6, <2>1, <3>1, <3>2, <3>3
  <2>2. CASE ~Console!Flushes(pending, m) /\ pending = Console!Nothing
    <3>1. pending' = [stream |-> m.stream, items |-> <<m>>] /\ Console!shown' = Console!shown
      BY <1>1, <2>2, ShownFlat DEF Console!Held
    <3>2. pending' \in Batches /\ pending'.items = <<m>>
      BY <1>2, <3>1 DEF Batches
    <3>3. Due = Console!shown
      <4>1. pending.items = <<>>
        BY <2>2, NothingBatch
      <4> QED
        BY <1>4, <4>1, CatAssociates
    <3>4. Due \o <<m>> = Append(Due, m)
      BY <1>2, <1>4, CatAssociates
    <3> QED
      BY <1>1, <1>4, <1>6, <2>2, <3>1, <3>2, <3>3, <3>4
  <2>3. CASE ~Console!Flushes(pending, m) /\ pending # Console!Nothing
    <3>1. pending' = [pending EXCEPT !.items = Append(@, m)] /\ Console!shown' = Console!shown
      BY <1>1, <2>3, ShownFlat DEF Console!Held
    <3>2. pending' \in Batches /\ pending'.items = Append(pending.items, m)
      <4>1. Append(pending.items, m) \in Seq(Items)
        BY <1>2, <1>4
      <4> QED
        BY <1>4, <3>1, <4>1 DEF Batches
    <3>3. Console!shown \o Append(pending.items, m) = Append(Console!shown \o pending.items, m)
      <4>1. PICK s, t : s = Console!shown /\ t = pending.items
        OBVIOUS
      <4>2. s \in Seq(Items) /\ t \in Seq(Items)
        BY <1>4, <4>1
      <4>3. s \o Append(t, m) = Append(s \o t, m)
        BY <1>2, <4>2, CatAppend
      <4> QED
        BY <4>1, <4>3
    <3> QED
      BY <1>1, <1>4, <1>6, <2>3, <3>1, <3>2, <3>3
  <2> QED
    BY <2>1, <2>2, <2>3
<1> QED
  BY <1>1, <1>2, <1>3, <1>7, TakenKeeps

LEMMA HandleKeeps ==
    ASSUME ConsoleInv, NEW m, Console!Handle(m)
    PROVE  ConsoleInv' /\ Promised
<1>1. /\ Console!Takes(m) /\ phase = "session" /\ phase' \in {"session", "over"} /\ m.type # "output"
      /\ UNCHANGED <<want, unanswered, told, fromAdapter, toAdapter, happened>>
      /\ pending' = Console!Nothing
      /\ console' = console \o Console!Batch(pending)
                            \o (IF m.type = "state" THEN <<Console!State(m)>> ELSE <<>>)
      /\ \/ UNCHANGED <<writing, nextSeq>>
         \/ Console!Request(Console!Send("configurationDone"))
         \/ m.type = "reverse" /\ Console!Request(Console!Reply(m))
  BY DEF Console!Handle, Console!adapter, Console!pipes
<1>2. m \in Received /\ writing = None /\ (Console!Visible(m) <=> m.type = "state")
  BY <1>1, TakenFlow, MessageTypes
<1>3. writing' \in Outgoing \cup {None} /\ nextSeq' \in Nat \ {0, 1} /\ ~First(writing')
  BY <1>1, <1>2, NextWritten
<1>4. /\ console \in Seq(Batches) /\ pending \in Batches
      /\ Console!shown \in Seq(Items) /\ Due \in Seq(Items)
  BY DueTyped DEF ConsoleInv, Typed
<1>5. PICK c : c = console \o Console!Batch(pending)
  OBVIOUS
<1>6. c \in Seq(Batches) /\ Flat(c) = Due
  BY <1>4, <1>5, FlatBatch, ShownFlat DEF Due
<1>7. pending' \in Batches /\ pending'.items = <<>>
  BY <1>1, NothingBatch
<1>8. console' \in Seq(Batches) /\ Console!shown' = IF m.type = "state" THEN Append(Due, m) ELSE Due
  <2>1. CASE m.type = "state"
    <3>1. m \in Items
      BY <1>2, <2>1, MessageTypes DEF Items
    <3>2. Console!State(m) \in Batches /\ Console!State(m).items = <<m>>
      BY <3>1 DEF Console!State, Batches
    <3>3. console' = Append(c, Console!State(m))
      <4>1. c \o <<Console!State(m)>> = Append(c, Console!State(m))
        BY <1>6, <3>2, CatAssociates
      <4> QED
        BY <1>1, <1>5, <2>1, <4>1
    <3>4. console' \in Seq(Batches) /\ Flat(console') = Due \o <<m>>
      <4>1. PICK b : b = Console!State(m)
        OBVIOUS
      <4>2. b \in Batches /\ b.items = <<m>>
        BY <3>2, <4>1
      <4>3. Append(c, b) \in Seq(Batches)
        BY <1>6, <4>2
      <4>4. Flat(Append(c, b)) = Flat(c) \o b.items
        BY <1>6, <4>2, FlatAppend
      <4> QED
        BY <1>6, <3>3, <4>1, <4>2, <4>3, <4>4
    <3>5. Due \o <<m>> = Append(Due, m)
      BY <1>4, <3>1, CatAssociates
    <3> QED
      BY <2>1, <3>4, <3>5, ShownFlat
  <2>2. CASE m.type # "state"
    <3>1. console' = c
      <4>1. c \o <<>> = c
        BY <1>6
      <4> QED
        BY <1>1, <1>5, <2>2, <4>1
    <3> QED
      BY <1>6, <2>2, <3>1, ShownFlat
  <2> QED
    BY <2>1, <2>2
<1>9. Console!shown' \in Seq(Items)
  BY <1>8, FlatBatch, ShownFlat, NothingBatch
<1>10. Due' = Console!shown'
  BY <1>7, <1>9 DEF Due
<1> QED
  BY <1>1, <1>2, <1>3, <1>7, <1>8, <1>10, TakenKeeps

-----------------------------------------------------------------------------
(* The console implements the stream                                       *)

LEMMA ConsoleInit ==
    ASSUME Console!Init
    PROVE  ConsoleInv /\ Console!Abstract!Init
<1>1. /\ want = None /\ unanswered = {} /\ told = {} /\ fromAdapter = <<>> /\ toAdapter = <<>>
      /\ queue = <<>> /\ phase = "initialize" /\ nextSeq = 2
      /\ writing = [command |-> "initialize", seq |-> Console!initializeSeq]
      /\ pending = Console!Nothing /\ console = <<>> /\ happened = <<>>
  BY DEF Console!Init
<1>2. Console!shown = <<>>
  BY <1>1, ShownFlat, EmptyFlat
<1>3. writing \in Outgoing
  BY <1>1 DEF Outgoing, Console!initializeSeq
<1>4. Typed
  BY <1>1, <1>3, NothingBatch DEF Typed
<1>5. Once
  BY <1>1 DEF Once, Answered
<1>6. Streaming
  BY <1>1, <1>2 DEF Streaming, Answered, Begins
<1> QED
  BY <1>1, <1>2, <1>4, <1>5, <1>6 DEF ConsoleInv, Console!Abstract!Init

LEMMA ConsoleNext ==
    ASSUME ConsoleInv, [Console!Next]_(Console!vars)
    PROVE  ConsoleInv' /\ Promised
<1>1. CASE UNCHANGED Console!vars
  <2>1. UNCHANGED <<want, unanswered, told, fromAdapter, toAdapter, queue, phase, writing, nextSeq,
                    pending, console, happened>>
    BY <1>1 DEF Console!vars, Console!adapter, Console!pipes, Console!session
  <2>2. Typed' /\ Once'
    BY <2>1 DEF ConsoleInv, Typed, Once, Answered
  <2>3. Flow' = Flow /\ (Answered' <=> Answered)
    BY <2>1 DEF Flow, Answered
  <2>4. Streaming'
    BY <2>1, <2>3, QuietStream
  <2>5. Promised
    BY <2>1, ShowsSame DEF ConsoleInv
  <2> QED
    BY <2>2, <2>4, <2>5 DEF ConsoleInv
<1>2. ASSUME NEW m \in Console!Sayable, Console!Begin(m) PROVE ConsoleInv' /\ Promised
  BY <1>2, BeginKeeps
<1>3. CASE Console!Push
  BY <1>3, PushKeeps
<1>4. CASE Console!Hangup
  BY <1>4, HangupKeeps
<1>5. CASE Console!Listen
  BY <1>5, ListenKeeps
<1>6. CASE Console!Pump
  BY <1>6, PumpKeeps
<1>7. CASE Console!LoseFraming
  BY <1>7, LoseFramingKeeps
<1>8. CASE Console!Session
  <2>1. CASE Console!Write
    BY <2>1, WriteKeeps
  <2>2. CASE Console!CatchUp
    BY <2>2, CatchUpKeeps
  <2>3. ASSUME NEW m, Console!Initialize(m) PROVE ConsoleInv' /\ Promised
    BY <2>3, InitializeKeeps
  <2>4. ASSUME NEW m, Console!Output(m) PROVE ConsoleInv' /\ Promised
    BY <2>4, OutputKeeps
  <2>5. ASSUME NEW m, Console!Handle(m) PROVE ConsoleInv' /\ Promised
    BY <2>5, HandleKeeps
  <2> QED
    BY <1>8, <2>1, <2>2, <2>3, <2>4, <2>5 DEF Console!Session
<1> QED
  BY <1>1, <1>2, <1>3, <1>4, <1>5, <1>6, <1>7, <1>8 DEF Console!Next

\* The debug console shows what the adapter reports, all of it, once and in order, for any
\* room of the pipes, any sizes and any cap of a batch: every step of the session, of the
\* draining task and of the adapter is a step of the promised stream, or none.
THEOREM TheConsoleShowsTheSession == Console!Spec => Console!ShowsTheSession
<1>1. Console!Init => ConsoleInv /\ Console!Abstract!Init
  BY ConsoleInit
<1>2. ConsoleInv /\ [Console!Next]_(Console!vars) => ConsoleInv' /\ [Console!Abstract!Next]_(Console!Abstract!vars)
  BY ConsoleNext DEF Promised
<1> QED
  BY <1>1, <1>2, PTL DEF Console!Spec, Console!ShowsTheSession, Console!Abstract!Spec

\* Nothing is on its way to a session, and nothing held back.
Caught == phase = "session" /\ Flow = <<>> /\ pending = Console!Nothing

\* Nothing is withheld: when a session has nothing left to take and has flushed what it held
\* back, the console shows all that has happened (debug.rs 473-495).  That it comes to this is
\* NothingIsWithheld, which needs fairness.
THEOREM CaughtUpIsComplete == Console!Spec => [](Caught => Console!shown = happened)
<1>1. Console!Init => ConsoleInv
  BY ConsoleInit
<1>2. ConsoleInv /\ [Console!Next]_(Console!vars) => ConsoleInv'
  BY ConsoleNext
<1>3. ConsoleInv => (Caught => Console!shown = happened)
  <2> SUFFICES ASSUME ConsoleInv, Caught PROVE Console!shown = happened
      OBVIOUS
  <2>1. Begins(Due, happened) /\ Traced(Flow, 0, Len(Due), happened) /\ happened \in Seq(Items)
    BY DEF ConsoleInv, Streaming, Typed, Caught
  <2>2. Due = Console!shown /\ Due \in Seq(Items)
    <3>1. pending.items = <<>> /\ Console!shown \in Seq(Items)
      BY NothingBatch, DueTyped DEF ConsoleInv, Caught
    <3> QED
      BY <3>1 DEF Due
  <2>3. Len(Due) = Len(happened)
    <3>1. PICK f : Counts(f, Flow, 0, Len(Due), happened)
      BY <2>1 DEF Traced
    <3>2. Len(Flow) = 0
      BY DEF Caught
    <3> QED
      BY <3>1, <3>2 DEF Counts
  <2>4. Due = happened
    <3> HIDE DEF Due
    <3> QED
      BY <2>1, <2>2, <2>3 DEF Begins
  <2> QED
    BY <2>2, <2>4
<1> QED
  BY <1>1, <1>2, <1>3, PTL DEF Console!Spec

-----------------------------------------------------------------------------
(* The adapter's own requests                                              *)

Asks(m, n) == m.type = "reverse" /\ m.n = n
Replies(x, n) == x # None /\ x.command = "reply" /\ x.to = n

\* Where a request of the adapter's is until the adapter has read the reply to it.
OnItsWay(n) ==
    \/ \E j \in 1 .. Len(Flow) : Asks(Flow[j], n)
    \/ Replies(writing, n)
    \/ \E k \in 1 .. Len(toAdapter) : Replies(toAdapter[k], n)

Attending == phase # "over" => \A n \in asked : OnItsWay(n)

\* What the draining task no longer reads is on no way to anybody: then it has told the session
\* that the stream is broken.
Drained == phase # "over" => pumping \/ \E j \in 1 .. Len(queue) : queue[j] = Console!Broken

\* What is taken is answered, if it is a request, and nothing else is touched.
LEMMA TakenAttends ==
    ASSUME None \notin Outgoing, ConsoleInv, Attending,
           NEW m, Console!Takes(m), UNCHANGED <<asked, fromAdapter, toAdapter>>,
           phase' = "over" \/ m.type # "reverse" \/ Console!Request(Console!Reply(m))
    PROVE  Attending'
<1> SUFFICES ASSUME phase' # "over", NEW n \in asked PROVE OnItsWay(n)'
    BY DEF Attending
<1>1. /\ writing = None /\ phase # "over" /\ Flow[1] = m
      /\ Len(Flow) \in Nat /\ Len(Flow') = Len(Flow) - 1 /\ m \in Received
      /\ \A j \in 1 .. Len(Flow') : Flow'[j] = Flow[j + 1] /\ j + 1 \in 1 .. Len(Flow)
  BY TakenFlow
<1>2. \/ \E j \in 1 .. Len(Flow) : Asks(Flow[j], n)
      \/ \E k \in 1 .. Len(toAdapter) : Replies(toAdapter[k], n)
  BY <1>1 DEF Attending, OnItsWay, Replies
<1>3. CASE \E k \in 1 .. Len(toAdapter) : Replies(toAdapter[k], n)
  BY <1>3 DEF OnItsWay
<1>4. ASSUME NEW j \in 1 .. Len(Flow), Asks(Flow[j], n) PROVE OnItsWay(n)'
  <2>1. CASE j = 1
    <3>1. m.type = "reverse" /\ m.n = n
      BY <1>1, <1>4, <2>1 DEF Asks
    <3>2. writing' = Console!Reply(m)
      BY <3>1 DEF Console!Request
    <3>3. writing' # None
      <4>1. nextSeq \in Nat /\ m.n \in Console!Numbers
        BY <1>1, <3>1, MessageTypes DEF ConsoleInv, Typed, Console!Events
      <4> QED
        BY <3>2, <4>1 DEF Outgoing, Console!Reply
    <3> QED
      BY <3>1, <3>2, <3>3 DEF OnItsWay, Replies, Console!Reply
  <2>2. CASE j # 1
    <3>1. j - 1 \in 1 .. Len(Flow') /\ (j - 1) + 1 = j
      BY <1>1, <2>2
    <3>2. Flow'[j - 1] = Flow[j]
      BY <1>1, <3>1
    <3> QED
      BY <1>4, <3>1, <3>2 DEF OnItsWay
  <2> QED
    BY <2>1, <2>2
<1> QED
  BY <1>2, <1>3, <1>4

\* A step that leaves everything where it is, or adds to it.
LEMMA StaysOnItsWay ==
    ASSUME NEW n, OnItsWay(n), UNCHANGED <<writing, toAdapter>>,
           \A j \in 1 .. Len(Flow) : Asks(Flow[j], n) => j \in 1 .. Len(Flow') /\ Flow'[j] = Flow[j]
    PROVE  OnItsWay(n)'
BY DEF OnItsWay

LEMMA ListenAttends == ASSUME ConsoleInv, Attending, Console!Listen PROVE Attending'
<1> SUFFICES ASSUME phase' # "over", NEW n \in asked' PROVE OnItsWay(n)'
    BY DEF Attending
<1> DEFINE m == Head(toAdapter)
<1>1. /\ UNCHANGED <<fromAdapter, queue, phase, writing>> /\ toAdapter # <<>> /\ toAdapter' = Tail(toAdapter)
      /\ IF m.command = "reply" THEN asked' = asked \ {m.to} ELSE asked' = asked
  BY DEF Console!Listen, Console!session
<1>2. n \in asked /\ ~Replies(m, n) /\ OnItsWay(n)
  BY <1>1 DEF Attending, Replies
<1>3. Flow' = Flow
  BY <1>1 DEF Flow
<1>4. ASSUME NEW k \in 1 .. Len(toAdapter), Replies(toAdapter[k], n) PROVE OnItsWay(n)'
  <2>1. /\ m = toAdapter[1] /\ Len(toAdapter') = Len(toAdapter) - 1 /\ Len(toAdapter) \in Nat
        /\ \A i \in 1 .. Len(toAdapter') : toAdapter'[i] = toAdapter[i + 1]
    BY <1>1 DEF ConsoleInv, Typed
  <2>2. k # 1
    BY <1>2, <1>4, <2>1
  <2>3. k - 1 \in 1 .. Len(toAdapter') /\ (k - 1) + 1 = k
    BY <2>1, <2>2
  <2>4. toAdapter'[k - 1] = toAdapter[k]
    BY <2>1, <2>3
  <2> QED
    BY <1>4, <2>3, <2>4 DEF OnItsWay
<1> QED
  BY <1>1, <1>2, <1>3, <1>4 DEF OnItsWay

LEMMA WriteAttends == ASSUME ConsoleInv, Attending, Console!Write PROVE Attending'
<1> SUFFICES ASSUME phase' # "over", NEW n \in asked' PROVE OnItsWay(n)'
    BY DEF Attending
<1>1. /\ UNCHANGED <<asked, fromAdapter, queue, phase>> /\ writing # None
      /\ toAdapter' = Append(toAdapter, writing)
  BY DEF Console!Write, Console!adapter
<1>2. OnItsWay(n) /\ Flow' = Flow
  BY <1>1 DEF Attending, Flow
<1>3. /\ Len(toAdapter) \in Nat /\ Len(toAdapter') = Len(toAdapter) + 1 /\ toAdapter'[Len(toAdapter) + 1] = writing
      /\ \A k \in 1 .. Len(toAdapter) : toAdapter'[k] = toAdapter[k]
  <2>1. toAdapter \in Seq(Outgoing \ {None}) /\ writing \in Outgoing \ {None}
    BY <1>1 DEF ConsoleInv, Typed
  <2> QED
    BY <1>1, <2>1
<1>4. CASE Replies(writing, n)
  BY <1>3, <1>4 DEF OnItsWay
<1>5. CASE ~Replies(writing, n)
  BY <1>2, <1>3, <1>5 DEF OnItsWay
<1> QED
  BY <1>4, <1>5

LEMMA PushAttends == ASSUME ConsoleInv, Attending, Console!Push PROVE Attending'
<1> SUFFICES ASSUME phase' # "over", NEW n \in asked' PROVE OnItsWay(n)'
    BY DEF Attending
<1>1. /\ UNCHANGED <<toAdapter, queue, phase, writing>> /\ want # None /\ fromAdapter' = Append(fromAdapter, want)
      /\ asked' = IF want.type = "reverse" THEN asked \cup {want.n} ELSE asked
  BY DEF Console!Push, Console!session
<1>2. /\ Flow' = Append(Flow, want) /\ Len(Flow) \in Nat /\ Len(Flow') = Len(Flow) + 1
      /\ Flow'[Len(Flow) + 1] = want /\ \A j \in 1 .. Len(Flow) : Flow'[j] = Flow[j]
  <2>1. want \in Received /\ queue \in Seq(Received) /\ fromAdapter \in Seq(Received) /\ Flow \in Seq(Received)
    BY <1>1, FlowTyped DEF ConsoleInv, Typed, Received
  <2>2. Flow' = Append(Flow, want)
    BY <1>1, <2>1, CatAppend DEF Flow
  <2> HIDE DEF Flow
  <2> QED
    BY <2>1, <2>2
<1>3. CASE n \in asked
  <2>1. OnItsWay(n)
    BY <1>1, <1>3 DEF Attending
  <2>2. \A j \in 1 .. Len(Flow) : j \in 1 .. Len(Flow') /\ Flow'[j] = Flow[j]
    BY <1>2
  <2> QED
    BY <1>1, <2>1, <2>2, StaysOnItsWay
<1>4. CASE n \notin asked
  <2>1. Asks(want, n)
    BY <1>1, <1>4 DEF Asks
  <2>2. Len(Flow) + 1 \in 1 .. Len(Flow') /\ Asks(Flow'[Len(Flow) + 1], n)
    BY <1>2, <2>1
  <2> QED
    BY <2>2 DEF OnItsWay
<1> QED
  BY <1>3, <1>4

LEMMA PumpAttends == ASSUME ConsoleInv, Attending, Console!Pump PROVE Attending'
<1> SUFFICES ASSUME phase' # "over", NEW n \in asked' PROVE OnItsWay(n)'
    BY DEF Attending
<1>1. UNCHANGED <<asked, phase, writing, toAdapter>> /\ OnItsWay(n)
  BY DEF Console!Pump, Console!adapter, Console!session, Attending
<1>2. \A j \in 1 .. Len(Flow) : Asks(Flow[j], n) => j \in 1 .. Len(Flow') /\ Flow'[j] = Flow[j]
  BY <1>1, PumpMoves DEF Asks, ConsoleInv
<1> QED
  BY <1>1, <1>2, StaysOnItsWay

LEMMA LoseFramingAttends == ASSUME ConsoleInv, Attending, Console!LoseFraming PROVE Attending'
<1> SUFFICES ASSUME phase' # "over", NEW n \in asked' PROVE OnItsWay(n)'
    BY DEF Attending
<1>1. UNCHANGED <<asked, phase, writing, toAdapter>> /\ OnItsWay(n)
  BY DEF Console!LoseFraming, Console!adapter, Console!pipes, Console!session, Attending
<1>2. ASSUME NEW j \in 1 .. Len(Flow), Asks(Flow[j], n) PROVE OnItsWay(n)'
  <2>1. PICK l : l = Len(queue)
    OBVIOUS
  <2>2. /\ Len(Flow') = Len(Flow) + 1 /\ l \in 0 .. Len(Flow) /\ Len(Flow) \in Nat
        /\ \A i \in 1 .. l : Flow'[i] = Flow[i]
        /\ \A i \in l + 1 .. Len(Flow) : Flow'[i + 1] = Flow[i]
    BY <1>1, <2>1, LosesFraming, FlowTyped DEF ConsoleInv
  <2>3. \E i \in 1 .. Len(Flow') : Asks(Flow'[i], n)
    <3>1. CASE j <= l
      <4>1. j \in 1 .. l /\ j \in 1 .. Len(Flow')
        BY <2>2, <3>1
      <4> QED
        BY <1>2, <2>2, <4>1
    <3>2. CASE j > l
      <4>1. j \in l + 1 .. Len(Flow) /\ j + 1 \in 1 .. Len(Flow')
        BY <2>2, <3>2
      <4> QED
        BY <1>2, <2>2, <4>1
    <3> QED
      BY <2>2, <3>1, <3>2
  <2> QED
    BY <2>3 DEF OnItsWay
<1> QED
  BY <1>1, <1>2 DEF OnItsWay

LEMMA DrainedNext ==
    ASSUME ConsoleInv, Drained, [Console!Next]_(Console!vars)
    PROVE  Drained'
<1>1. ASSUME UNCHANGED <<pumping, queue, phase>> PROVE Drained'
  BY <1>1 DEF Drained
<1>2. CASE UNCHANGED Console!vars
  BY <1>1, <1>2 DEF Console!vars, Console!session
<1>3. ASSUME NEW m \in Console!Sayable, Console!Begin(m) PROVE Drained'
  BY <1>1, <1>3 DEF Console!Begin, Console!session
<1>4. CASE Console!Push \/ Console!Hangup \/ Console!Listen
  BY <1>1, <1>4 DEF Console!Push, Console!Hangup, Console!Listen, Console!session
<1>5. ASSUME queue' = Append(queue, Console!Broken) PROVE Drained'
  <2>1. queue \in Seq(Received) /\ Console!Broken \in Received
    BY DEF ConsoleInv, Typed, Received
  <2>2. Len(queue) + 1 \in 1 .. Len(queue') /\ queue'[Len(queue) + 1] = Console!Broken
    BY <1>5, <2>1
  <2> QED
    BY <2>2 DEF Drained
<1>6. CASE Console!Pump
  BY <1>5, <1>6 DEF Console!Pump, Console!session, Drained
<1>7. CASE Console!LoseFraming
  BY <1>5, <1>7 DEF Console!LoseFraming, Console!session, Drained
<1>8. ASSUME NEW m, Console!Takes(m), phase' = "over" \/ m # Console!Broken, UNCHANGED pumping
      PROVE  Drained'
  <2> SUFFICES ASSUME phase' # "over", ~pumping PROVE \E i \in 1 .. Len(queue') : queue'[i] = Console!Broken
      BY <1>8 DEF Drained
  <2>1. /\ queue \in Seq(Received) /\ queue # <<>> /\ queue' = Tail(queue) /\ queue[1] = m /\ phase # "over"
        /\ m # Console!Broken
    BY <1>8 DEF ConsoleInv, Typed, Console!Takes
  <2>2. PICK j \in 1 .. Len(queue) : queue[j] = Console!Broken
    BY <2>1 DEF Drained
  <2>3. j - 1 \in 1 .. Len(queue') /\ queue'[j - 1] = queue[j]
    BY <2>1, <2>2
  <2> QED
    BY <2>2, <2>3
<1>9. CASE Console!Session
  <2>1. CASE Console!Write
    BY <2>1 DEF Console!Write, Drained
  <2>2. CASE Console!CatchUp
    BY <1>1, <2>2 DEF Console!CatchUp, Console!session
  <2>3. ASSUME NEW m, Console!Initialize(m) PROVE Drained'
    <3>1. Console!Takes(m) /\ (phase' = "over" \/ m # Console!Broken) /\ UNCHANGED pumping
      BY <2>3, MessageTypes DEF Console!Initialize, ToFirst
    <3> QED
      BY <1>8, <3>1
  <2>4. ASSUME NEW m, Console!Output(m) PROVE Drained'
    <3>1. Console!Takes(m) /\ (phase' = "over" \/ m # Console!Broken) /\ UNCHANGED pumping
      BY <2>4, MessageTypes DEF Console!Output
    <3> QED
      BY <1>8, <3>1
  <2>5. ASSUME NEW m, Console!Handle(m) PROVE Drained'
    <3>1. Console!Takes(m) /\ (phase' = "over" \/ m # Console!Broken) /\ UNCHANGED pumping
      BY <2>5, MessageTypes DEF Console!Handle
    <3> QED
      BY <1>8, <3>1
  <2> QED
    BY <1>9, <2>1, <2>2, <2>3, <2>4, <2>5 DEF Console!Session
<1> QED
  BY <1>2, <1>3, <1>4, <1>6, <1>7, <1>9 DEF Console!Next

LEMMA AttendsNext ==
    ASSUME None \notin Outgoing, ConsoleInv, Attending, [Console!Next]_(Console!vars)
    PROVE  Attending'
<1>1. ASSUME UNCHANGED <<asked, fromAdapter, toAdapter, queue, phase, writing>> PROVE Attending'
  BY <1>1 DEF Attending, OnItsWay, Flow
<1>2. CASE UNCHANGED Console!vars
  BY <1>1, <1>2 DEF Console!vars, Console!adapter, Console!pipes, Console!session
<1>3. ASSUME NEW m \in Console!Sayable, Console!Begin(m) PROVE Attending'
  BY <1>1, <1>3 DEF Console!Begin, Console!pipes, Console!session
<1>4. CASE Console!Push
  BY <1>4, PushAttends
<1>5. CASE Console!Hangup
  BY <1>1, <1>5 DEF Console!Hangup, Console!pipes, Console!session
<1>6. CASE Console!Listen
  BY <1>6, ListenAttends
<1>7. CASE Console!Pump
  BY <1>7, PumpAttends
<1>8. CASE Console!LoseFraming
  BY <1>8, LoseFramingAttends
<1>9. CASE Console!Session
  <2>1. CASE Console!Write
    BY <2>1, WriteAttends
  <2>2. CASE Console!CatchUp
    BY <1>1, <2>2 DEF Console!CatchUp, Console!adapter, Console!pipes, Console!session
  <2>3. ASSUME NEW m, Console!Initialize(m) PROVE Attending'
    <3>1. /\ Console!Takes(m) /\ UNCHANGED <<asked, fromAdapter, toAdapter>>
          /\ phase' = "over" \/ m.type # "reverse" \/ Console!Request(Console!Reply(m))
      BY <2>3 DEF Console!Initialize, Console!adapter, Console!pipes
    <3> QED
      BY <3>1, TakenAttends
  <2>4. ASSUME NEW m, Console!Output(m) PROVE Attending'
    <3>1. Console!Takes(m) /\ UNCHANGED <<asked, fromAdapter, toAdapter>> /\ m.type # "reverse"
      BY <2>4 DEF Console!Output, Console!adapter, Console!pipes
    <3> QED
      BY <3>1, TakenAttends
  <2>5. ASSUME NEW m, Console!Handle(m) PROVE Attending'
    <3>1. /\ Console!Takes(m) /\ UNCHANGED <<asked, fromAdapter, toAdapter>>
          /\ phase' = "over" \/ m.type # "reverse" \/ Console!Request(Console!Reply(m))
      BY <2>5 DEF Console!Handle, Console!adapter, Console!pipes
    <3> QED
      BY <3>1, TakenAttends
  <2> QED
    BY <1>9, <2>1, <2>2, <2>3, <2>4, <2>5 DEF Console!Session
<1> QED
  BY <1>2, <1>3, <1>4, <1>5, <1>6, <1>7, <1>8, <1>9 DEF Console!Next

\* No request of the adapter's is dropped while the session lasts: it is on its way to the
\* session, or the reply to it is on its way to the adapter (debug.rs 545, 637).  What lies in a
\* pipe that is no longer drained goes nowhere, and then the session has been told that its
\* stream is broken.  That it all arrives is RequestsAreAnswered, which needs fairness.
THEOREM RequestsAreNeverDropped ==
    ASSUME None \notin Outgoing
    PROVE  Console!Spec => [](phase # "over" =>
                                /\ \A n \in asked : OnItsWay(n)
                                /\ pumping \/ \E j \in 1 .. Len(queue) : queue[j] = Console!Broken)
<1>1. Console!Init => ConsoleInv /\ Attending /\ Drained
  BY ConsoleInit DEF Console!Init, Attending, Drained
<1>2. ConsoleInv /\ Attending /\ Drained /\ [Console!Next]_(Console!vars)
         => ConsoleInv' /\ Attending' /\ Drained'
  BY ConsoleNext, AttendsNext, DrainedNext
<1>3. Attending /\ Drained =>
        (phase # "over" => /\ \A n \in asked : OnItsWay(n)
                           /\ pumping \/ \E j \in 1 .. Len(queue) : queue[j] = Console!Broken)
  BY DEF Attending, Drained
<1> QED
  BY <1>1, <1>2, <1>3, PTL DEF Console!Spec
================================================================================
