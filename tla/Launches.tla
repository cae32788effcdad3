------------------------------ MODULE Launches ------------------------------
(***************************************************************************)
(* The processes started for run configurations, and the three tables that *)
(* know them: the supervisor's map of runs and debug builds               *)
(* (process/mod.rs), the map of debug adapters (state.rs, DebugSessions),  *)
(* and the registry behind the Running panel (running/store.rs), which the *)
(* two kinds of launch share under one key and which is written to a file  *)
(* so that what outlives a crash can be offered at the next start.         *)
(*                                                                         *)
(* Every command is a sequence of steps; between two of them the code      *)
(* awaits or releases a lock, so the steps of different commands           *)
(* interleave.  Program[kind] lists the steps of a command in the order of *)
(* the code and there is one action per step.                              *)
(***************************************************************************)
EXTENDS Naturals, Sequences

CONSTANTS
    Launchers,  \* the start_run and start_debug calls; a launch is known by its call
    Stoppers,   \* the cancel_run, stop_debug and kill_running calls
    Ids,        \* the run configurations of one workspace
    MaxDowns,   \* how often the application may crash or quit
    None

ASSUME NamesAssumption == None \notin Launchers /\ Launchers \cap Stoppers = {}
ASSUME DownsAssumption == MaxDowns \in Nat

VARIABLES
    call,     \* the commands: kind, configuration, next step, process about to be killed
    proc,     \* the process of each launch
    compile,  \* the process of its debug build
    running,  \* Supervisor.running: the run that owns each id
    builds,   \* the same map at "<id>:debug-build"
    debug,    \* DebugSessions.running
    live,     \* RunningStore.live: one record for each configuration
    orphans,  \* RunningStore.orphans
    file,     \* running.json
    flagged,  \* the supervised processes whose cancel flag is set
    outcome,  \* what a finished launch reports to its console
    up,       \* the application is running
    downs,    \* how often it has gone down
    picked,   \* history: the launches that somebody, or they themselves, set out to kill
    stopped,  \* history: the launches another command has killed
    settled,  \* history: the launches whose record has been written to the file
    raced     \* history: configurations launched while a launch was still on its way

tables == <<running, builds, debug>>
processes == <<proc, compile>>
store == <<live, orphans, file>>
history == <<picked, stopped, settled, raced>>
vars == <<call, processes, tables, store, flagged, outcome, up, downs, history>>

Calls == Launchers \cup Stoppers

\* Mutated: start_run forgets the debug session of its configuration.
ProgramRunOnly ==
    [run   |-> <<"find", "kill", "spawn", "insert", "record", "persist", "wait", "remove">>,
     debug |-> <<"find", "kill", "drop", "kill", "findBuild", "killBuild", "spawnBuild",
                 "insertBuild", "waitBuild", "removeBuild", "spawn", "drop", "kill", "enter",
                 "record", "persist", "talk", "finish", "stop", "reap", "unrecord">>,
     stopRun   |-> <<"find", "kill">>,
     stopDebug |-> <<"drop", "kill", "findBuild", "killBuild">>,
     panel     |-> <<"drop", "kill", "find", "kill">>]

\* The steps of each command: start_run, start_debug (which builds first, for .NET),
\* cancel_run, stop_debug and the Running panel's kill.
Program ==
    [run   |-> <<"drop", "kill", "find", "kill", "spawn", "insert", "record", "persist",
                 "wait", "remove">>,
     debug |-> <<"find", "kill", "drop", "kill", "findBuild", "killBuild", "spawnBuild",
                 "insertBuild", "waitBuild", "removeBuild", "spawn", "drop", "kill", "enter",
                 "record", "persist", "talk", "finish", "stop", "reap", "unrecord">>,
     stopRun   |-> <<"find", "kill">>,
     stopDebug |-> <<"drop", "kill", "findBuild", "killBuild">>,
     panel     |-> <<"drop", "kill", "find", "kill">>]

LaunchKinds == {"run", "debug"}
StopKinds == {"stopRun", "stopDebug", "panel"}

\* A launch that is over keeps its place past the last step.
Idle == [kind |-> "none", id |-> None, at |-> 0, victim |-> None]
Over == [Idle EXCEPT !.kind = "over"]
End(k) == Len(Program[k]) + 1
Busy(c) == call[c].kind \in DOMAIN Program /\ call[c].at < End(call[c].kind)
Step(c, s) == up /\ Busy(c) /\ Program[call[c].kind][call[c].at] = s

\* The command goes on at a step, without a victim or with one.
GoTo(c, n, x) ==
    call' = [call EXCEPT ![c] = IF c \in Stoppers /\ n >= End(@.kind) THEN Over
                                ELSE [@ EXCEPT !.at = n, !.victim = x]]
Proceed(c) == GoTo(c, call[c].at + 1, None)
GiveUp(c) == GoTo(c, End(call[c].kind), None)

\* A step that is still to come, this one included.
Ahead(c, s) == Busy(c) /\ \E n \in call[c].at .. Len(Program[call[c].kind]) :
                             Program[call[c].kind][n] = s

Running == {"alive", "doomed", "termed"}

\* SIGTERM now, SIGKILL from a thread of this application two seconds later.
Signal(p, c) == [p EXCEPT ![c] = IF @ \in Running THEN "doomed" ELSE @]

Recorded == {live[i] : i \in Ids} \ {None}

Init ==
    /\ call = [c \in Calls |-> Idle]
    /\ proc = [c \in Launchers |-> "none"] /\ compile = proc
    /\ running = [i \in Ids |-> None]
    /\ builds = [i \in Ids |-> None]
    /\ debug = [i \in Ids |-> None]
    /\ live = [i \in Ids |-> None]
    /\ orphans = {} /\ file = {} /\ flagged = {}
    /\ outcome = [c \in Launchers |-> "none"]
    /\ up = TRUE /\ downs = 0
    /\ picked = {} /\ stopped = {} /\ settled = {} /\ raced = {}

-----------------------------------------------------------------------------
(* The commands *)

Start(c, k, i) ==
    /\ up /\ call[c] = Idle
    /\ k \in IF c \in Launchers THEN LaunchKinds ELSE StopKinds
    /\ call' = [call EXCEPT ![c] = [kind |-> k, id |-> i, at |-> 1, victim |-> None]]
    /\ raced' = IF c \in Launchers /\ \E d \in Launchers : call[d].id = i /\ Ahead(d, "persist")
                THEN raced \cup {i} ELSE raced
    /\ UNCHANGED <<processes, tables, store, flagged, outcome, up, downs, picked, stopped, settled>>

\* Nothing is registered: the kill that would follow is skipped.
Target(c, x) == IF x = None THEN GoTo(c, call[c].at + 2, None) ELSE GoTo(c, call[c].at + 1, x)

\* Supervisor::cancel, first half: under the map's lock the run is marked as
\* cancelled.  It stays in the map: only its own task takes it out.
Find(c) ==
    /\ Step(c, "find")
    /\ Target(c, running[call[c].id])
    /\ flagged' = flagged \cup ({running[call[c].id]} \ {None})
    /\ picked' = picked \cup flagged'
    /\ UNCHANGED <<processes, tables, store, outcome, up, downs, stopped, settled, raced>>

\* The build's entry; there is nothing to build for Node.
FindBuild(c) ==
    /\ Step(c, "findBuild")
    /\ \/ Target(c, builds[call[c].id])
       \/ c \in Launchers /\ GoTo(c, call[c].at + 6, None)
    /\ UNCHANGED <<processes, tables, store, flagged, outcome, up, downs, history>>

\* DebugSessions::cancel, first half: the adapter leaves its map.
Drop(c) ==
    /\ Step(c, "drop")
    /\ Target(c, debug[call[c].id])
    /\ debug' = [debug EXCEPT ![call[c].id] = None]
    /\ picked' = picked \cup ({debug[call[c].id]} \ {None})
    /\ UNCHANGED <<processes, running, builds, store, flagged, outcome, up, downs,
                   stopped, settled, raced>>

\* Second half of both: the tree is killed, without a lock.  It returns when the
\* signal is sent.  The panel tries the supervisor only if no adapter was reached.
Kill(c) ==
    /\ Step(c, "kill")
    /\ LET v == call[c].victim IN
         /\ proc' = Signal(proc, v)
         /\ stopped' = IF proc[v] \in Running THEN stopped \cup {v} ELSE stopped
         /\ IF call[c].kind = "panel" /\ proc[v] \in Running
            THEN GiveUp(c)
            ELSE Proceed(c)
    /\ UNCHANGED <<compile, tables, store, flagged, outcome, up, downs, picked, settled, raced>>

KillBuild(c) ==
    /\ Step(c, "killBuild") /\ Proceed(c)
    /\ compile' = Signal(compile, call[c].victim)
    /\ UNCHANGED <<proc, tables, store, flagged, outcome, up, downs, history>>

Spawn(c) ==
    /\ Step(c, "spawn")
    /\ \/ proc' = [proc EXCEPT ![c] = "alive"] /\ Proceed(c) /\ UNCHANGED outcome
       \/ GiveUp(c) /\ outcome' = [outcome EXCEPT ![c] = "failed"] /\ UNCHANGED proc
    /\ UNCHANGED <<compile, tables, store, flagged, up, downs, history>>

SpawnBuild(c) ==
    /\ Step(c, "spawnBuild")
    /\ \/ compile' = [compile EXCEPT ![c] = "alive"] /\ Proceed(c) /\ UNCHANGED outcome
       \/ GiveUp(c) /\ outcome' = [outcome EXCEPT ![c] = "failed"] /\ UNCHANGED compile
    /\ UNCHANGED <<proc, tables, store, flagged, up, downs, history>>

\* The supervisor's map takes the new run, whatever it held before.
Insert(c) ==
    /\ Step(c, "insert") /\ Proceed(c)
    /\ running' = [running EXCEPT ![call[c].id] = c]
    /\ UNCHANGED <<processes, builds, debug, store, flagged, outcome, up, downs, history>>

InsertBuild(c) ==
    /\ Step(c, "insertBuild") /\ Proceed(c)
    /\ builds' = [builds EXCEPT ![call[c].id] = c]
    /\ UNCHANGED <<processes, running, debug, store, flagged, outcome, up, downs, history>>

\* DebugSessions::register, after its own cancel.
Enter(c) ==
    /\ Step(c, "enter") /\ Proceed(c)
    /\ debug' = [debug EXCEPT ![call[c].id] = c]
    /\ UNCHANGED <<processes, running, builds, store, flagged, outcome, up, downs, history>>

\* RunningStore::record and ::persist take the store's lock one after the other;
\* persist writes the table as it finds it.
Record(c) ==
    /\ Step(c, "record") /\ Proceed(c)
    /\ live' = [live EXCEPT ![call[c].id] = c]
    /\ UNCHANGED <<processes, tables, orphans, file, flagged, outcome, up, downs, history>>

OnDisk(l, o) == ({l[i] : i \in Ids} \ {None}) \cup o

Persist(c) ==
    /\ Step(c, "persist") /\ Proceed(c)
    /\ file' = OnDisk(live, orphans)
    /\ settled' = settled \cup {c}
    /\ UNCHANGED <<processes, tables, live, orphans, flagged, outcome, up, downs, picked, stopped, raced>>

\* The child is waited for and its pipes are read to their end.
Wait(c) ==
    /\ Step(c, "wait") /\ Proceed(c)
    /\ proc[c] = "exited"
    /\ proc' = [proc EXCEPT ![c] = "reaped"]
    /\ UNCHANGED <<compile, tables, store, flagged, outcome, up, downs, history>>

WaitBuild(c) ==
    /\ Step(c, "waitBuild") /\ Proceed(c)
    /\ compile[c] = "exited"
    /\ compile' = [compile EXCEPT ![c] = "reaped"]
    /\ UNCHANGED <<proc, tables, store, flagged, outcome, up, downs, history>>

\* Mutated: whoever reaps takes the entry out, without comparing tokens.
RemoveAnyway(c) ==
    /\ Step(c, "remove") /\ Proceed(c)
    /\ running' = [running EXCEPT ![call[c].id] = None]
    /\ live' = [live EXCEPT ![call[c].id] = None]
    /\ file' = OnDisk(live', orphans)
    /\ outcome' = [outcome EXCEPT ![c] = IF c \in flagged THEN "cancelled" ELSE "ended"]
    /\ UNCHANGED <<processes, builds, debug, orphans, flagged, up, downs, history>>

\* The end of run_inner.  Whoever still owns the id takes the entry out of the map
\* and the configuration's record out of the store; then the end is reported.
Remove(c) ==
    /\ Step(c, "remove") /\ Proceed(c)
    /\ LET i == call[c].id IN
         IF running[i] = c
         THEN /\ running' = [running EXCEPT ![i] = None]
              /\ live' = [live EXCEPT ![i] = None]
              /\ file' = OnDisk(live', orphans)
         ELSE UNCHANGED <<running, live, file>>
    /\ outcome' = [outcome EXCEPT ![c] = IF c \in flagged THEN "cancelled" ELSE "ended"]
    /\ UNCHANGED <<processes, builds, debug, orphans, flagged, up, downs, history>>

\* The debug build ends, and only an exit code of 0 goes on to the adapter.
RemoveBuild(c) ==
    /\ Step(c, "removeBuild")
    /\ builds' = IF builds[call[c].id] = c THEN [builds EXCEPT ![call[c].id] = None] ELSE builds
    /\ \/ Proceed(c) /\ UNCHANGED outcome
       \/ GiveUp(c) /\ outcome' = [outcome EXCEPT ![c] = "failed"]
    /\ UNCHANGED <<processes, running, debug, store, flagged, up, downs, history>>

\* run_protocol returns: the debuggee is done, or the adapter's stream has ended.
Talk(c) ==
    /\ Step(c, "talk") /\ Proceed(c)
    /\ UNCHANGED <<processes, tables, store, flagged, outcome, up, downs, history>>

\* Mutated: every end is the adapter's own.
FinishAsOwn(c) ==
    /\ Step(c, "finish") /\ Proceed(c)
    /\ debug' = [debug EXCEPT ![call[c].id] = IF @ = c THEN None ELSE @]
    /\ outcome' = [outcome EXCEPT ![c] = "ended"]
    /\ picked' = picked \cup {c}
    /\ UNCHANGED <<processes, running, builds, store, flagged, up, downs, stopped, settled, raced>>

\* DebugSessions::finish compares pids: an entry that is gone, or is another
\* adapter's, means that this one was stopped.
Finish(c) ==
    /\ Step(c, "finish") /\ Proceed(c)
    /\ LET own == debug[call[c].id] = c IN
         /\ debug' = IF own THEN [debug EXCEPT ![call[c].id] = None] ELSE debug
         /\ outcome' = [outcome EXCEPT ![c] = IF own THEN "ended" ELSE "cancelled"]
    /\ picked' = picked \cup {c}
    /\ UNCHANGED <<processes, running, builds, store, flagged, up, downs, stopped, settled, raced>>

StopSelf(c) ==
    /\ Step(c, "stop") /\ Proceed(c)
    /\ proc' = Signal(proc, c)
    /\ UNCHANGED <<compile, tables, store, flagged, outcome, up, downs, history>>

Reap(c) ==
    /\ Step(c, "reap") /\ Proceed(c)
    /\ proc[c] = "exited"
    /\ proc' = [proc EXCEPT ![c] = "reaped"]
    /\ UNCHANGED <<compile, tables, store, flagged, outcome, up, downs, history>>

\* Mutated: the configuration's record is removed, whosever it is.
UnrecordByKey(c) ==
    /\ Step(c, "unrecord") /\ Proceed(c)
    /\ live' = [live EXCEPT ![call[c].id] = None]
    /\ file' = OnDisk(live', orphans)
    /\ UNCHANGED <<processes, tables, orphans, flagged, outcome, up, downs, history>>

\* Mutated: a stopped adapter keeps its record.
UnrecordIfEnded(c) ==
    /\ Step(c, "unrecord") /\ Proceed(c)
    /\ live' = [i \in Ids |-> IF live[i] = c /\ outcome[c] = "ended" THEN None ELSE live[i]]
    /\ file' = OnDisk(live', orphans)
    /\ UNCHANGED <<processes, tables, orphans, flagged, outcome, up, downs, history>>

\* RunningStore::remove_if_pid.
Unrecord(c) ==
    /\ Step(c, "unrecord") /\ Proceed(c)
    /\ live' = [i \in Ids |-> IF live[i] = c THEN None ELSE live[i]]
    /\ file' = IF live' = live THEN file ELSE OnDisk(live', orphans)
    /\ UNCHANGED <<processes, tables, orphans, flagged, outcome, up, downs, history>>

-----------------------------------------------------------------------------
(* The operating system, the panel's orphans, and the application's own end *)

Exit(c) ==
    /\ proc[c] \in Running
    /\ proc' = [proc EXCEPT ![c] = "exited"]
    /\ UNCHANGED <<call, compile, tables, store, flagged, outcome, up, downs, history>>

ExitBuild(c) ==
    /\ compile[c] \in Running
    /\ compile' = [compile EXCEPT ![c] = "exited"]
    /\ UNCHANGED <<call, proc, tables, store, flagged, outcome, up, downs, history>>

\* kill_orphan: the pid is probed again, killed if it is the recorded process, and
\* the record is resolved either way.
KillOrphan(c) ==
    /\ up /\ c \in orphans
    /\ proc' = Signal(proc, c)
    /\ orphans' = orphans \ {c}
    /\ file' = OnDisk(live, orphans')
    /\ UNCHANGED <<call, compile, tables, live, flagged, outcome, up, downs, history>>

\* Every table is lost and every command with it, and so are the threads that were
\* to follow a SIGTERM with a SIGKILL.  A quit first kills what the registry lists.
\* A debug build is not recorded: what becomes of it is not followed further.
GoDown(swept) ==
    /\ up /\ downs < MaxDowns
    /\ up' = FALSE /\ downs' = downs + 1
    /\ proc' = [c \in Launchers |-> IF proc[c] = "doomed" \/ (c \in swept /\ proc[c] \in Running)
                                    THEN "termed" ELSE proc[c]]
    /\ compile' = [c \in Launchers |-> "none"]
    /\ call' = [c \in Calls |-> IF c \in Stoppers /\ Busy(c) THEN Over
                               ELSE IF Busy(c) THEN [call[c] EXCEPT !.at = End(call[c].kind), !.victim = None]
                               ELSE call[c]]
    /\ outcome' = [c \in Launchers |-> "none"]
    /\ running' = [i \in Ids |-> None]
    /\ builds' = [i \in Ids |-> None]
    /\ debug' = [i \in Ids |-> None]
    /\ live' = [i \in Ids |-> None]
    /\ orphans' = {} /\ flagged' = {}
    /\ stopped' = {}
    /\ settled' = {c \in settled : proc[c] \in Running}
    /\ UNCHANGED <<file, picked, raced>>

Crash == GoDown({})
Quit == GoDown(Recorded)

\* load_orphans: what the file lists and still runs as recorded is offered, and the
\* file is rewritten to that.
Restart ==
    /\ ~up /\ up' = TRUE
    /\ orphans' = {c \in file : proc[c] \in Running}
    /\ file' = orphans'
    /\ UNCHANGED <<call, processes, tables, live, flagged, outcome, downs, history>>

\* The steps a task takes by itself once they are possible.
Task(c) ==
    \/ Find(c) \/ FindBuild(c) \/ Drop(c) \/ Kill(c) \/ KillBuild(c)
    \/ c \in Launchers /\
         (\/ Spawn(c) \/ SpawnBuild(c) \/ Insert(c) \/ InsertBuild(c) \/ Enter(c) \/ Record(c)
          \/ Persist(c) \/ Wait(c) \/ WaitBuild(c) \/ Remove(c) \/ RemoveBuild(c) \/ Finish(c) \/ StopSelf(c) \/ Reap(c)
          \/ Unrecord(c))

Next ==
    \/ \E c \in Calls : Task(c) \/ \E i \in Ids, k \in LaunchKinds \cup StopKinds : Start(c, k, i)
    \/ \E c \in Launchers : Talk(c) \/ Exit(c) \/ ExitBuild(c) \/ KillOrphan(c)
    \/ Crash \/ Quit \/ Restart

Spec == Init /\ [][Next]_vars

\* What happens by itself: the runtime schedules every task and its locks are fair; a
\* process that has been sent SIGTERM is sent SIGKILL as long as the application lives;
\* an adapter that has exited closes its stream.  A process that nobody signals need not
\* end, a debuggee need not finish and a command need not come.
Progress ==
    \/ \E c \in Calls : Task(c)
    \/ \E c \in Launchers : \/ proc[c] = "doomed" /\ Exit(c)
                            \/ compile[c] = "doomed" /\ ExitBuild(c)
                            \/ proc[c] = "exited" /\ Talk(c)

-----------------------------------------------------------------------------
(* Properties *)

TypeOK ==
    /\ call \in [Calls -> [kind : LaunchKinds \cup StopKinds \cup {"none", "over"}, id : Ids \cup {None},
                           at : 0 .. 30, victim : Launchers \cup {None}]]
    /\ {proc, compile} \subseteq [Launchers -> Running \cup {"none", "exited", "reaped"}]
    /\ {running, builds, debug, live} \subseteq [Ids -> Launchers \cup {None}]
    /\ orphans \subseteq Launchers /\ file \subseteq Launchers /\ flagged \subseteq Launchers
    /\ outcome \in [Launchers -> {"none", "ended", "cancelled", "failed"}]
    /\ up \in BOOLEAN /\ downs \in 0 .. MaxDowns
    /\ picked \cup stopped \subseteq Launchers /\ settled \subseteq Launchers /\ raced \subseteq Ids

Kind(c, k) == call[c].kind = k

\* A launch whose process another command killed never reports that it ended by
\* itself: the supervisor sets the flag, and the debug map gives up the entry,
\* before the signal is sent (process/mod.rs 334-346, state.rs 284-289).
StopsAreReportedAsStops == \A c \in stopped : outcome[c] # "ended"

\* The process is the configuration's current one: nobody has signalled it or is about
\* to, and its launch has not finished with it.
Current(c) ==
    /\ Busy(c) /\ proc[c] = "alive"
    /\ \A d \in Calls : ~(call[d].victim = c /\ Step(d, "kill"))
    /\ ~Step(c, "finish") /\ ~Step(c, "stop")

\* Everything that is running can be stopped: once a launch has registered its
\* process, the map its stop command looks in leads to it for as long as the process is
\* current.  Two launches of one configuration on their way at once are exempt.
EverythingRunningCanBeStopped ==
    \A c \in Launchers :
        Current(c) /\ call[c].id \notin raced =>
            \/ running[call[c].id] = c
            \/ debug[call[c].id] = c
            \/ \E s \in {"insert", "drop", "enter"} : Step(c, s)

\* Across any number of crashes, a process that has once been written to running.json
\* and that nobody has set out to kill is in the file, so the next start can offer it
\* (running/store.rs 72-108, 178-190).  Exempt are configurations whose launches raced
\* and adapters that replaced a run (see ReplacementStaysListed).
ListedWhileRunning ==
    \A c \in settled :
        /\ proc[c] = "alive" /\ c \notin picked /\ call[c].id \notin raced
        /\ Kind(c, "debug") => \A r \in picked : ~(Kind(r, "run") /\ call[r].id = call[c].id)
        => c \in file

\* One generation of a configuration at a time, when its launches do not race
\* (run.rs 54-56, debug.rs 690-691, state.rs 264).
OneGenerationUnlessRaced ==
    \A c, d \in Launchers :
        c # d /\ Current(c) /\ Current(d) /\ call[c].id = call[d].id => call[c].id \in raced

\* A launch that waits for something which need not come: for its process or its debug
\* build to end, or for an adapter's stream.
Awaits(c) ==
    \/ (Step(c, "wait") \/ Step(c, "talk") \/ Step(c, "reap")) /\ proc[c] # "exited"
    \/ Step(c, "waitBuild") /\ compile[c] # "exited"

\* Nothing is left that happens by itself: this is ~ENABLED Progress, spelled out.
AtRest ==
    /\ \A c \in Calls : Busy(c) => c \in Launchers /\ Awaits(c)
    /\ \A c \in Launchers : proc[c] # "doomed" /\ compile[c] # "doomed"

\* Stops take effect and leave nothing behind: when there is nothing left that happens by
\* itself, every launch that somebody set out to kill is over, and no record in the
\* Running panel is of a process that is gone, unless the configuration's launches raced.
\* (Each step by itself takes a command or a process further, so this state of rest is
\* always reached.)
RestLeavesNothingBehind ==
    up /\ AtRest =>
        /\ \A c \in picked : ~Busy(c)
        /\ \A i \in Ids \ raced : live[i] # None => proc[live[i]] \in Running

\* While the application is up, AtRest says what it means.
RestIsNoProgress == up => (AtRest <=> ~ENABLED Progress)

\* "One active generation per configuration. A Debug launch owns the same
\* service/ports as Run, so replacing it is safer than letting both race."
\* (commands/run.rs 54-55).
OneActiveGeneration ==
    \A c, d \in Launchers :
        /\ c # d /\ Current(c) /\ Current(d) /\ call[c].id = call[d].id
        => ~(running[call[c].id] = c /\ debug[call[d].id] = d)

\* "when this (now superseded) run finally reaps, the entry belongs to the replacement
\* and must be left alone - both in the map and in the registry" (process/mod.rs
\* 286-288): no run's end takes another launch's record out of the registry.
ReplacementStaysListed ==
    [][\A c \in Launchers, i \in Ids \ raced :
         Remove(c) /\ live[i] \notin {None, c} => live'[i] = live[i]]_vars
=============================================================================
