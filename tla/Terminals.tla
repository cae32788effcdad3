----------------------------- MODULE Terminals -----------------------------
(***************************************************************************)
(* The interactive terminals (pty/mod.rs, commands/terminal.rs): a map of  *)
(* sessions behind one mutex, the commands that reach a session by its id, *)
(* and for every terminal a thread that pumps its output and one that      *)
(* waits for its shell.                                                    *)
(*                                                                         *)
(* A shell is external.  It reads its input when it likes, and the         *)
(* pseudo-terminal holds only so much of what it has not read.             *)
(***************************************************************************)
EXTENDS Naturals, FiniteSets

CONSTANTS
    Terminals,  \* the sessions, by the id terminal_open mints
    Commands,   \* the calls of terminal_write, terminal_resize and terminal_close
    PtyRoom,    \* the unread input a pseudo-terminal holds
    Paste,      \* the length of what a terminal_write brings, in the same unit
    EventRoom,  \* the terminal's event channel (512 in the code)
    MaxOutput,  \* how much a shell prints
    Quiet,      \* the terminals that print nothing and whose panel stays
    None

ASSUME SizesAssumption ==
    PtyRoom \in Nat /\ Paste \in Nat /\ EventRoom \in Nat \ {0} /\ MaxOutput \in Nat
ASSUME NamesAssumption == None \notin Commands \cup Terminals

VARIABLES
    sessions, \* the map's keys; a key stands for the master and writer ends it owns
    lock,     \* who holds the map's mutex
    shell,    \* none, alive, exited
    unread,   \* the input in each pseudo-terminal
    printed,  \* what each shell has printed
    output,   \* what the reader has not taken yet
    events,   \* the messages in each event channel
    reader,   \* the reader thread of each terminal
    waiter,   \* the thread that waits for the shell
    gone,     \* the terminals whose panel has gone away
    command   \* the calls

threads == <<reader, waiter>>
ptys == <<shell, unread, printed, output>>
vars == <<sessions, lock, ptys, events, threads, gone, command>>

Kinds == {"write", "resize", "close"}
Steps == {"idle", "begin", "writing", "killing", "done"}

TypeOK ==
    /\ sessions \subseteq Terminals
    /\ lock \in Commands \cup {None}
    /\ shell \in [Terminals -> {"none", "alive", "exited"}]
    /\ unread \in [Terminals -> 0 .. PtyRoom]
    /\ printed \in [Terminals -> 0 .. MaxOutput]
    /\ output \in [Terminals -> 0 .. MaxOutput]
    /\ events \in [Terminals -> 0 .. EventRoom]
    /\ reader \in [Terminals -> {"none", "reading", "sending", "ended"}]
    /\ waiter \in [Terminals -> {"none", "waiting", "removing", "announcing", "ended"}]
    /\ gone \subseteq Terminals
    /\ command \in [Commands -> [step : Steps, kind : Kinds \cup {None},
                                 id : Terminals \cup {None}, left : 0 .. Paste]]

\* A call that has not been made, or has returned.
NoCall(step) == [step |-> step, kind |-> None, id |-> None, left |-> 0]

Init ==
    /\ sessions = {}
    /\ lock = None
    /\ shell = [t \in Terminals |-> "none"]
    /\ unread = [t \in Terminals |-> 0]
    /\ printed = [t \in Terminals |-> 0]
    /\ output = [t \in Terminals |-> 0]
    /\ events = [t \in Terminals |-> 0]
    /\ reader = [t \in Terminals |-> "none"]
    /\ waiter = [t \in Terminals |-> "none"]
    /\ gone = {}
    /\ command = [c \in Commands |-> NoCall("idle")]

----------------------------------------------------------------------------
(* Opening a terminal: the shell is spawned, and then its session is       *)
(* inserted under the mutex and its two threads are started.  The id is    *)
(* returned after that, so nobody can name the terminal before.  An open   *)
(* that fails closes the pseudo-terminal and the shell.                    *)

\* Its shell has been spawned and its session has not been inserted yet.
Opening(t) == shell[t] # "none" /\ waiter[t] = "none"

Spawn(t) ==
    /\ shell[t] = "none"
    /\ shell' = [shell EXCEPT ![t] = "alive"]
    /\ UNCHANGED <<sessions, lock, unread, printed, output, events, threads, gone, command>>

Insert(t) ==
    /\ Opening(t)
    /\ lock = None
    /\ sessions' = sessions \cup {t}
    /\ reader' = [reader EXCEPT ![t] = "reading"]
    /\ waiter' = [waiter EXCEPT ![t] = "waiting"]
    /\ UNCHANGED <<lock, ptys, events, gone, command>>

Call(c, kind, t) ==
    /\ command[c].step = "idle"
    /\ waiter[t] # "none"
    /\ command' = [command EXCEPT ![c] =
         [step |-> "begin", kind |-> kind, id |-> t, left |-> IF kind = "write" THEN Paste ELSE 0]]
    /\ UNCHANGED <<sessions, lock, ptys, events, threads, gone>>

Return(c) == command' = [command EXCEPT ![c] = NoCall("done")]

\* PtyManager::write takes the mutex, and keeps it while the input is written.
BeginWrite(c) ==
    /\ command[c].step = "begin" /\ command[c].kind = "write"
    /\ lock = None
    /\ IF command[c].id \in sessions
       THEN /\ lock' = c
            /\ command' = [command EXCEPT ![c].step = "writing"]
       ELSE Return(c) /\ UNCHANGED lock
    /\ UNCHANGED <<sessions, ptys, events, threads, gone>>

\* Mutated: only a full write ends the loop.
WriteSomeStubborn(c) ==
    LET t == command[c].id IN
    /\ command[c].step = "writing"
    /\ \/ /\ shell[t] = "alive" /\ command[c].left > 0 /\ unread[t] < PtyRoom
          /\ unread' = [unread EXCEPT ![t] = @ + 1]
          /\ command' = [command EXCEPT ![c].left = @ - 1]
          /\ UNCHANGED lock
       \/ /\ command[c].left = 0
          /\ lock' = None
          /\ Return(c)
          /\ UNCHANGED unread
    /\ UNCHANGED <<sessions, shell, printed, output, events, threads, gone>>

\* write_all: what there is room for goes in; the rest waits for the shell to read.  A
\* shell that has gone ends the call with an error.
WriteSome(c) ==
    LET t == command[c].id IN
    /\ command[c].step = "writing"
    /\ \/ /\ shell[t] = "alive" /\ command[c].left > 0 /\ unread[t] < PtyRoom
          /\ unread' = [unread EXCEPT ![t] = @ + 1]
          /\ command' = [command EXCEPT ![c].left = @ - 1]
          /\ UNCHANGED lock
       \/ /\ shell[t] = "exited" \/ command[c].left = 0
          /\ lock' = None
          /\ Return(c)
          /\ UNCHANGED unread
    /\ UNCHANGED <<sessions, shell, printed, output, events, threads, gone>>

\* PtyManager::resize, with or without a session, is done under the mutex in one go.
Resize(c) ==
    /\ command[c].step = "begin" /\ command[c].kind = "resize"
    /\ lock = None
    /\ Return(c)
    /\ UNCHANGED <<sessions, lock, ptys, events, threads, gone>>

\* Mutated: the session is dropped, and the shell is trusted to notice.
CloseTrusting(c) ==
    /\ command[c].step = "begin" /\ command[c].kind = "close"
    /\ lock = None
    /\ sessions' = sessions \ {command[c].id}
    /\ Return(c)
    /\ UNCHANGED <<lock, ptys, events, threads, gone>>

\* PtyManager::close takes the session out under the mutex and kills the tree without it.
Close(c) ==
    LET t == command[c].id IN
    /\ command[c].step = "begin" /\ command[c].kind = "close"
    /\ lock = None
    /\ sessions' = sessions \ {t}
    /\ IF t \in sessions THEN command' = [command EXCEPT ![c].step = "killing"] ELSE Return(c)
    /\ UNCHANGED <<lock, ptys, events, threads, gone>>

Kill(c) ==
    /\ command[c].step = "killing"
    /\ shell' = [shell EXCEPT ![command[c].id] = "exited"]
    /\ Return(c)
    /\ UNCHANGED <<sessions, lock, unread, printed, output, events, threads, gone>>

----------------------------------------------------------------------------
(* The threads of a terminal, and the task that forwards its events.       *)

\* pump_reader: EOF once the shell or the session has gone and all is read.
ReadOutput(t) ==
    /\ reader[t] = "reading"
    /\ \/ /\ output[t] > 0
          /\ output' = [output EXCEPT ![t] = @ - 1]
          /\ reader' = [reader EXCEPT ![t] = "sending"]
       \/ /\ output[t] = 0 /\ shell[t] = "exited"
          /\ reader' = [reader EXCEPT ![t] = "ended"]
          /\ UNCHANGED output
    /\ UNCHANGED <<sessions, lock, shell, unread, printed, events, waiter, gone, command>>

\* blocking_send: it waits for room, and fails when the receiver has gone.
SendOutput(t) ==
    /\ reader[t] = "sending"
    /\ \/ /\ t \in gone
          /\ reader' = [reader EXCEPT ![t] = "ended"]
          /\ UNCHANGED events
       \/ /\ t \notin gone /\ events[t] < EventRoom
          /\ events' = [events EXCEPT ![t] = @ + 1]
          /\ reader' = [reader EXCEPT ![t] = "reading"]
    /\ UNCHANGED <<sessions, lock, ptys, waiter, gone, command>>

Reap(t) ==
    /\ waiter[t] = "waiting" /\ shell[t] = "exited"
    /\ waiter' = [waiter EXCEPT ![t] = "removing"]
    /\ UNCHANGED <<sessions, lock, ptys, events, reader, gone, command>>

\* The session is removed before the exit is announced.
Remove(t) ==
    /\ waiter[t] = "removing"
    /\ lock = None
    /\ sessions' = sessions \ {t}
    /\ waiter' = [waiter EXCEPT ![t] = "announcing"]
    /\ UNCHANGED <<lock, ptys, events, reader, gone, command>>

Announce(t) ==
    /\ waiter[t] = "announcing"
    /\ \/ t \in gone /\ UNCHANGED events
       \/ t \notin gone /\ events[t] < EventRoom /\ events' = [events EXCEPT ![t] = @ + 1]
    /\ waiter' = [waiter EXCEPT ![t] = "ended"]
    /\ UNCHANGED <<sessions, lock, ptys, reader, gone, command>>

\* forward: to the panel, until the panel has gone.
Forward(t) ==
    /\ t \notin gone /\ events[t] > 0
    /\ events' = [events EXCEPT ![t] = @ - 1]
    /\ UNCHANGED <<sessions, lock, ptys, threads, gone, command>>

PanelGoes(t) ==
    /\ shell[t] # "none" /\ t \notin gone \cup Quiet
    /\ gone' = gone \cup {t}
    /\ UNCHANGED <<sessions, lock, ptys, events, threads, command>>

----------------------------------------------------------------------------
(* The shell.                                                              *)

ShellReads(t) ==
    /\ shell[t] = "alive" /\ unread[t] > 0
    /\ unread' = [unread EXCEPT ![t] = @ - 1]
    /\ UNCHANGED <<sessions, lock, shell, printed, output, events, threads, gone, command>>

ShellPrints(t) ==
    /\ shell[t] = "alive" /\ t \notin Quiet /\ printed[t] < MaxOutput
    /\ printed' = [printed EXCEPT ![t] = @ + 1]
    /\ output' = [output EXCEPT ![t] = @ + 1]
    /\ UNCHANGED <<sessions, lock, shell, unread, events, threads, gone, command>>

ShellExits(t) ==
    /\ shell[t] = "alive"
    /\ shell' = [shell EXCEPT ![t] = "exited"]
    /\ UNCHANGED <<sessions, lock, unread, printed, output, events, threads, gone, command>>

CommandNext(c) == BeginWrite(c) \/ WriteSome(c) \/ Resize(c) \/ Close(c) \/ Kill(c)
ReaderNext(t) == ReadOutput(t) \/ SendOutput(t)
WaiterNext(t) == Reap(t) \/ Remove(t) \/ Announce(t)
ShellNext(t) == ShellReads(t) \/ ShellPrints(t) \/ ShellExits(t)

Next ==
    \/ \E t \in Terminals :
           \/ Spawn(t) \/ Insert(t) \/ ReaderNext(t) \/ WaiterNext(t) \/ Forward(t) \/ PanelGoes(t)
           \/ ShellNext(t)
    \/ \E c \in Commands :
           \/ CommandNext(c)
           \/ \E kind \in Kinds, t \in Terminals : Call(c, kind, t)

\* The calls run, and a mutex that is free again and again is got in the end.  Nothing is
\* assumed of the shells, of an open nor of the threads of a terminal.
Fairness == \A c \in Commands : SF_vars(CommandNext(c))

Spec == Init /\ [][Next]_vars
FairSpec == Spec /\ Fairness

----------------------------------------------------------------------------

\* No shell that has been opened runs out of everybody's reach: it has a session in the map
\* until the command that took the session out has sent the kill (pty/mod.rs 273-297).  Before
\* that its open is still waiting for the mutex (184), which the stuck write of another terminal
\* may hold (236-244): until it gets it the shell runs and cannot be closed.
NoShellWithoutASession ==
    \A t \in Terminals :
        shell[t] = "alive" =>
            \/ t \in sessions
            \/ Opening(t)
            \/ \E c \in Commands : command[c].step = "killing" /\ command[c].id = t

\* A close returns, whatever other calls, threads and shells do: the mutex it needs is held on
\* to only by a write to a living shell that does not read its input, and that write is let
\* go once the shell reads or ends (pty/mod.rs 236-288).
ClosesUnlessStuck ==
    \A c \in Commands :
        (command[c].step = "begin" /\ command[c].kind = "close") ~>
            \/ command[c].step = "done"
            \/ \E d \in Commands : /\ lock = d /\ shell[command[d].id] = "alive"
                                  /\ unread[command[d].id] = PtyRoom

\* "Remove before announcing, so a client acting on the exit sees the session already gone"
\* (pty/mod.rs 222-223).
GoneBeforeAnnounced ==
    \A t \in Terminals : waiter[t] \in {"announcing", "ended"} => t \notin sessions

\* What pty/mod.rs 15-16 says, "every critical section is a quick map operation with nothing
\* awaited inside it", does not hold of write: whoever takes the map's mutex gives it back,
\* whatever the shells do.
SectionsAreQuick == \A c \in Commands : lock = c ~> lock # c
=============================================================================
