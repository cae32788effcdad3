# code-basics: a TLA+ verification project

code-basics is a desktop companion for reading and running code: a Rust core library
(`src/crates/core`), a Tauri shell around it (`src/src-tauri`), a React front end (`src/src`) and a
small .NET sidecar. Most of it is request and answer: it scans a directory, parses something, shows
it. The part that is hard to get right is the part that keeps *other* programs alive and talks to
them while the user edits, switches tabs and closes workspaces: language servers first, and in the
same style run configurations, debug adapters and terminals. This project models that part, checks
it with TLC and proves what matters most of it with TLAPS.

Paths below are relative to the repository, whose root is the directory `src/` beside this one.

## 1. Inventory

| part | source | state it keeps | operations | what is hard |
|---|---|---|---|---|
| transport of one server process | `crates/core/src/lsp/transport.rs`, `framing.rs`, `jsonrpc.rs` | pending map, death slot, outgoing queue, sticky signal, the child process | request, cancel, notify, shutdown, drop; writer, reader, reaper and stderr tasks | five tasks share the pending map and the death slot; answers, deadlines and deaths race; a failed pipe does not end the process |
| readiness | `lsp/client.rs` | readiness watch, titled-progress matcher, ceiling | start, wait_ready, ask; the watch task | a signal sent once over a lossy broadcast, one matcher fed by two tasks, a ceiling and a death in one `select!` |
| document mirror | `lsp/documents.rs` | open texts and versions, the highest version ever used | open, change, close, replay_for | versions across close, reopen and restart |
| session actor | `lsp/session.rs` | one server per language, the mirrors, shared status and pids | fourteen messages, start tasks, supervisors, request tasks, teardown | messages of earlier servers, edits while a server starts, requests behind edits, teardown with work in flight |
| workspaces | `src-tauri/src/state.rs`, `commands/lsp.rs`, `commands/workspace.rs` | map of slots, active pointer, per slot a session, supervisors, indexes | open, activate, close, ensure_session, restart, document commands | every command is its own task and resolves the *active* workspace, several locks, checks outside them, retries |
| process supervisor | `crates/core/src/process`, `commands/run.rs` | map of runs with tokens and cancel flags | run, cancel | two runs of one id, a cancel against the reap, a replacement against the end of what it replaces |
| debug adapters | `commands/debug.rs`, `crates/core/src/dap`, `state.rs` `DebugSessions` | map of adapters; outstanding requests, batched output | start, stop; pump, handle, flush | an adapter that blocks on its pipe stops the debuggee; a batch must neither withhold nor reorder |
| running registry | `crates/core/src/running` | live records, orphans, `running.json` | record, remove, load_orphans, kill | one key for runs and debug sessions, written through from many tasks; orphans of a crash |
| symbol index | `crates/core/src/symbols`, `commands/symbols.rs`, `commands/files.rs`, `state.rs` | index, building flag with generation, `symbols.json` | cold and cached build, record, splice on save | builds and saves that outlive the tab, a cache written while files change, an old build ending after a new one |
| renames | `crates/core/src/lsp/rename.rs`, `edits.rs` | none; the files | plan, write, recover, roll back | a write that fails in the middle, and a roll-back that may fail too |
| terminals | `crates/core/src/pty`, `commands/terminal.rs` | map of sessions behind one mutex, two threads each | open, write, resize, close | a write that blocks while it holds the mutex; close against the shell's own exit |
| editor | `src/components/FileEditor.tsx`, `App.tsx` | open editors, debounced changes | open, change, close, switch tabs | timers and answers that outlive the tab they belong to |
| SQL and Redis clients, embedded browser, object inspector, tool servers | `sql`, `redis`, `browser`, `inspect`, `tasks`, `mcp`, `roslyn` | maps of sessions, stores in files | | mostly I/O |
| detection, analyses, stores of settings | `launcher`, `importers`, `adapters`, `git`, `intents`, `qgate`, `behavioral`, `erosion`, `architecture`, `testing`, `features`, `tool_gate`, `notes.rs`, `changelists.rs`, `config.rs` | files | | functions of a directory or of a diff, run to completion |

How they interact. A Tauri command resolves the active workspace's slot and, through
`ensure_session`, its session, which it talks to over the actor's mailbox (`LspHandle`). The actor
owns the documents and, per language, a `Client`; a client owns a `Transport`, and a `Transport` the
process. Downwards there are only calls and notifications in order; upwards there are only a death
slot, a readiness watch and the answers, each read by tasks that may be late. The start task and the
supervisor of a server report back to the actor through the same mailbox, tagged with an epoch.
Closing or restarting tears a session down by a message; dropping the last owner of a transport kills
the process. A run and a debug launch of one configuration each cancel the other through the two maps
of the slot, and share a record in the registry. Symbol builds and saves meet in the slot's index and
in the cache file; renames and everybody else meet in the files.

What correctness means for each part:

* transport: a request is resolved once, with an outcome that has a reason; no waiter is forgotten;
  all are told the same cause; no path leaves a process behind.
* readiness: a server is called ready only when it is, is called so in the end, and an answer carries
  the caveat under which it was computed.
* session and mirror: a live server holds exactly the buffers the session holds, in growing versions;
  a question is asked behind its caller's edits; one server at a time, rationed restarts; everybody
  is answered, and nothing survives the session.
* workspaces: a workspace is served by its own session; sessions that lose a race are torn down.
* launches: what runs can be stopped, is listed, and is reported for what became of it; nothing is
  left behind when all commands are through.
* debug console: everything the debuggee prints is shown, in order, and the adapter is never kept
  waiting.
* symbol index: a cache entry is what its fingerprint says, an index is of its own workspace and as
  good as a build from source, and "still indexing" ends with the newest build.
* renames: all or nothing, and the report says which.
* terminals: a shell that runs can be closed; a command returns unless a shell refuses its input.

## 2. Modules

| module | models | composed of |
|---|---|---|
| `RequestService` | what a transport promises its callers, with nothing about how | |
| `LspTransport` | `transport.rs`: callers, writer, reader, reaper, shutdown, drop; the server process as environment | implements `RequestService` |
| `LspReadiness` | `client.rs` `watch_readiness`, `TitledProgress`, `wait_ready`, `ask`; `transport.rs` `SignalSink` | |
| `LspSession` | `session.rs`, `documents.rs`, the document calls of `client.rs`, `RestartPolicy` | assumes of a transport what `LspTransport` shows |
| `LspWorkspace` | `state.rs`, `commands/lsp.rs`, `commands/workspace.rs`, as far as sessions go | a session is a root, whether it was told to end, and whether it holds the document |
| `Launches` | `process/mod.rs`, `process/kill.rs`, `running/store.rs`, `state.rs` `DebugSessions`, `commands/run.rs`, `commands/debug.rs`, `commands/running.rs`, the sweep of `lib.rs` | a program per command over three shared tables |
| `OutputStream` | what a debug console promises | |
| `DebugConsole` | `commands/debug.rs` `pump_protocol`, `run_protocol`, `receive`; `dap/coalesce.rs` | implements `OutputStream` |
| `Symbols` | `commands/symbols.rs`, `symbols/cache.rs`, the building flag of `state.rs`, the splices of `commands/files.rs` | |
| `Edits` | `lsp/edits.rs` as functions | used by `Renames` |
| `Renames` | `lsp/rename.rs` | |
| `Terminals` | `pty/mod.rs`, `commands/terminal.rs` | |
| `MCLspTransport`, `MCLspWorkspace`, `MCSymbols`, `MCRenames` | symmetry sets and the inputs for TLC | |
| `LspTransportProofs`, `LspReadinessProofs`, `LspSessionProofs`, `LspWorkspaceProofs`, `SymbolsProofs`, `RenamesProofs`, `LaunchesProofs`, `ConsolesProofs` | theorems; `ConsolesProofs` is about `Terminals` and `DebugConsole` | |

### LspTransport

Every await and every lock of `request_with_id` separates two actions: `CheckDeath` takes the pending
mutex and reads the death slot, `Register` inserts and releases, `SendRequest` queues the frame, and
`TakeAnswer`, `TakeTimeout` and `TakeDeath` are the arms of the `select!`. The mutex is a variable
because the argument of the code rests on it (`transport.rs:476-491`). `publish_death` is two actions,
`PublishDeath` (the slot, first death wins) and `Drain` (the waiters, under the mutex): the code holds
nothing between them. A task that has found a cause goes through `publish`, `drain` and, where the code
calls `kill_tree_async`, `kill`. `outOpen` is the one strong sender of the outgoing queue, which both
shutdown and drop give up; the reader's is weak and is only used while that one lives. The server is
the environment: it may answer any request it has read, several times, in any order and unreadably,
ask one question, write garbage, close a pipe, exit, and ignore every request to exit except a kill.
An answer that cannot be decoded either still names its request (`Malformed`, whose waiter
`DispatchAnswer` fails) or does not (`Nameless`: invalid JSON, or an id that is no `i64`,
`transport.rs:886-888`), and then it is dropped and wakes nobody: its caller is left to its deadline or
to the death. Toward `RequestService` such an answer counts as none (`Named`). A write to the server
is one step, but it may be put off for as long as the server runs, as a server that does not read would.
Garbage ends the chunk it is in, and the frames before it in the chunk are discarded as in the code,
which is why `ReadGarbage` picks any garbage in the stream and drops all before it.

### LspReadiness

One readiness kind, `ProgressTitle`, the only one with state: work begins under a title and a token,
and only the end of work whose begin was remembered is the signal. The reader records (`ReaderRecords`)
before it publishes on the broadcast (`ReaderPublishes`), whose capacity is a constant; the watcher
feeds the same matcher a second time (`WatchStream`). A caller either looks at the readiness first
(`Prepare`, the widgets) or waits for it (`AskUnprepared`, then `WaitEnds` or `WaitExpires`).

### LspSession

One language: the four share the mailbox and nothing else. Each message handler of the actor is an action;
the request messages differ only in whether they need the document open (`documentSymbol`, `rename`) and
whether they take a snapshot of the open buffers (`rename`), so three kinds stand for all. `OnAsk` spawns
the request's task and fixes the server; the task itself writes the frame (`TaskAsks`), at any later time,
behind whatever the server has been sent by then, and ends by itself (`TaskEnds`). Each start attempt has
an epoch, and the process, client and supervisor of that attempt are indexed by it, so that those of
earlier attempts can linger. Texts are stamps. `Holds` is the reference count of a client: the session, a
message in the mailbox, a request's task, a shutdown. Epoch comparisons of the handlers are guards:
`ReportsAreCurrent` is proved (`ReportsStayCurrent`), and can be checked with `SessionEpochs.cfg`: they
never fail, so the discarding branches are unreachable. `srv.recent` is "restarted within the window", and
`WindowPasses` lets the window end at any time.

### LspWorkspace

A command is a call with a program counter, and every visit to a lock of `AppState` is a step of its
own: `ensure_session` is `Look`, `Scope`, `Claim`, `Admit`, `Publish`, `Confirm`, with the retry in
`Refused`; `open`, `activate` and `close` are two or three steps each. A slot is named by the call that
opened it, because a workspace that was closed and opened again has a new one while older calls still
hold the `Arc` of the first.

### Launches

A command of any kind is a list of steps, `Program[kind]`, in the order of the code: a step ends where
the code awaits or gives up a lock. There is one action per step, and it advances every command whose
program has reached it. A process is known by the launch that started it and goes from alive through
`doomed` (signalled) to gone; `kill_tree` asks first and kills two seconds later, which `termed` is
for. `running`, `debug` and `live` are the three tables and `file` the registry on disk. `Crash` takes
the application away between any two steps, `Quit` sweeps first, `Restart` finds the file. Debug
launches build first; the build is a plain run in no table, so that a quit during it sweeps nothing of
it, although `lib.rs:441-443` calls the live set complete, and a `stop_debug` between the end of the
build and the registration finds nothing. A build that exits with 0 while it is being stopped goes on
to launch. `raced` remembers the configurations two launches of which were under way at once: they
are the exemption of the properties that do not hold of them, and the definition says so. `AtRest` lists
what must be so for nothing to be left that happens by itself; `LaunchesRest.cfg`, not one of the runs
of section 3, checks that it is `~ENABLED Progress` while the application is up.

### DebugConsole

The adapter has two pipes of bounded room and does what the comments of `debug.rs` warn about: it writes
from inside the debuggee and reads nothing while it waits for room. `Listen`, `Pump` and `Session` are the
adapter's reader, the pump task and `run_protocol`. `pending` is the coalescer's batch. A chunk in which
the framing is lost (`unframed`) is dropped whole, with the messages in it that were in order
(`LoseFraming`, `debug.rs:438-444`). `Socket` says whether the two directions are halves of one socket, as
those of the Node adapter are: dropping one half of it lets no write of the adapter fail, so `Hangup`
waits for the end of the session. Requests of the session are sent in the phases of `run_protocol`; a
request of the adapter is answered in each of them. The `Running` states that the session shows of its own
accord, after `launch` and `configurationDone`, are left out, for they report nothing of the adapter's.

### Symbols

A workspace holds one source file, known by how often it was changed and by the project list that its
symbols are attributed to. A build is a thread: it takes its guard at once, discards or loads the
cache, stats the file, parses it, writes the cache in two steps (`Truncate`, `Write`: a crash between
them leaves an unreadable file), records and clears the flag in two (`Compare`, `Clear`). A save
writes the file, looks up its slot, reads the file again and splices. A fingerprint is taken to be
honest: two changes that leave both the modification second and the length as they were are one
change to the program as well. `index_file` reads the file before it takes the mutex, although
`commands/files.rs:165` says that both are held under it; the model reads before.

### Edits and Renames

A text is a sequence of tokens. `Plan` is `plan_edits` of `edits.rs`: a stable sort, written as
insertion (`Sorted`, `Inserted`), and the comparison of neighbours (`Take`), a fold; `Apply` is the
application from front to back, a fold with a cursor. `Simultaneously` is what they should mean and
neither sorts nor scans. The tokens of texts are a constant, of which only equality matters, except that
two insertions at one place are ordered by their texts, for which their lengths stand. A position behind the
end of the text is refused; the code refuses only lines behind the end and moves a column behind the
end of its line back to it (`positions.rs:92-98`), so what such columns do is not covered. What texts there
are and what a server answers are constants with assumptions (`TextAssumption`, `AnswersAssumption`).
`Renames` runs both phases file by file: every read, write, read-back and restore may fail, a failed
write may leave the file torn, and somebody else may save a file between any two steps. Files that
somebody else saved between the read of phase 1 and the write are overwritten: the code takes no lock
and compares nothing, and the properties exempt them by name. With the real file system, whose writes
are atomic, a read-back differs only through such a save.

### Terminals

The map's mutex is a variable, because one of its holders can block. `open` is two steps: `Spawn` needs no
mutex, `Insert` waits for it (`pty/mod.rs:169-191`), and between them the shell runs, prints and exits, but
no call can name it. `write` hands the paste to the
pseudo-terminal piece by piece (`WriteSome`) with the mutex held. `Close` takes the session out under
the mutex and kills outside it; the reader thread pumps output through a bounded channel, and the
waiter thread reaps, removes and announces. A shell reads, prints and exits when it likes or never.

## 3. What is checked

Every property has a mutant: a plausible slip in the mapped code, kept beside the definition it
replaces and marked `Mutated:`, that TLC finds to break the property.

| run | instance | properties |
|---|---|---|
| `TransportRequests` | two callers, two frames from the server, readable, unreadable or nameless, one fault, no shutdown | `NoWaiterStranded`, `NoAnswerIsLost`, `TrueCauseReported`, `ServiceRefined` |
| `TransportLiveness` | one caller, perhaps cancelled, one frame, one fault, fair | `ExitWakesEveryWaiter`, `ServerQuestionAnswered` |
| `TransportShutdown` | shutdown and its own request, one frame, one fault, fair | `NoProcessLeftBehind`, `ShutdownEnds` |
| `Readiness` | two tokens, a matcher for one, a broadcast of one, fair | `PromotedOnlyWhenLoaded`, `PartialAnswersAreQualified`, `SignalIsNeverMissed`, `WaitersGoOn` |
| `SessionDocuments` | one document, three editor actions, one request, three epochs | `ServerHoldsTheBuffers`, `VersionsOnlyGrow`, `AskedAboutTheCallersText`, `OneServerAtATime` |
| `SessionLifecycle` | one request of either kind, no edits, two epochs, fair | `EveryAskIsAnswered`, `DeathIsNoticed`, `StatusCatchesUp`, `NoServerOutlivesTheSession` |
| `Workspace` | three commands of any kind, two workspaces, two attempts | `ServedByItsOwnWorkspace`, `RetiredSessionsAreTornDown` |
| `Launches` | two launches of either kind, one stop of any kind, one configuration, one crash or quit | `StopsAreReportedAsStops`, `EverythingRunningCanBeStopped`, `ListedWhileRunning`, `OneGenerationUnlessRaced`, `RestLeavesNothingBehind` |
| `DebugConsole` | four messages of the adapter, an output pipe of two, an input pipe of one, batches of two, fair | `ShowsTheSession`, `AdapterIsDrained`, `RequestsAreAnswered`, `NothingIsWithheld` |
| `Symbols` | two workspaces, two builds, one save, one event besides | `CacheIsHonest`, `ResultIsAsGoodAsCold`, `IndexDescribesItsWorkspace`, `FlagFollowsTheNewest` |
| `Renames` | three files, up to three documents and three edits, one save by somebody else | `SuccessIsWhole`, `FailureIsHonest`, `EditsMeanOneThing` |
| `Terminals` | two terminals, two calls of any kind, a paste larger than the pseudo-terminal, fair | `NoShellWithoutASession`, `ClosesUnlessStuck` |

What they show, in short. Transport: a caller is never forgotten and never told of a cause that was not
the first; an answer that names its request reaches it while the stream can be read; a process that exits
wakes everybody; shutdown ends, and without a process. Readiness: a server that was called ready had
loaded, an answer given before carries a caveat, and a signal the broadcast lost is still seen. Session: a
live server holds the session's buffers in growing versions, a question is about the text its caller saw
or, if that was edited since, a later one, everybody is answered. Workspace: no session serves another
root, and one that lost a race is told to end. Launches: a process that runs is in a table from which a
stop reaches it, and in the panel; a launch that was stopped does not say that it ended by itself; two
launches that do not race never run at once; when everything that can happen by itself has happened, what
was to be killed is dead. DebugConsole: it implements `OutputStream` (everything, once, in order), and an
adapter behind pipes that waits to write gets room however slow the console is (behind a socket it need
not: section 4). Symbols: the cache, the index and the flag as listed in section 1. Renames: success is
the rename of all files and the edits of all open ones, failure leaves every file but those it names as it
was, and the scan over sorted edits means what a simultaneous replacement means. Terminals: no shell is
out of reach once its `open` has the mutex, and a close returns or waits behind a write to a shell that
does not read.

Why these bounds. Races in the transport are between one caller and the four tasks, or between two callers
about one death; two callers give both, and two frames let the server repeat an answer or answer behind
garbage. One fault is one lost pipe, read error or framing error, beside an exit, a kill and a shutdown,
which are not counted. The matcher and the broadcast are checked at a capacity of one, where both overflow
at once. Three editor actions are open, change, close in any order around a start and a restart; with a
request that opens the document by itself, open-close-reopen is within reach, and three epochs are the
first server, its restart and the one after a window has passed. Three commands over two workspaces let
one start a session while the second switches tabs and the third closes or restarts. A launch meets one
other launch and one stop of its configuration, and configurations meet nowhere but in the file; one crash
is followed by a start with the orphans of the first. Four messages with a batch of two fill a batch,
overflow it, change the stream, and leave one behind; a pipe of two is full after two and holds a message
in order before one that is not. Two builds of one workspace, or one of each, meet one save and one
switch, edit, change of the project list, close or crash; the invariants proved hold for any numbers. A
rename over three files has one written, one failing and one not reached, and any two edits of one file,
with conflicts, insertions at one place and edits behind the end. Terminals share the mutex and nothing
else: with two of them and two calls a paste to a shell that does not read keeps the mutex from a close, a
resize or the insertion of the other, which runs meanwhile. The second terminal's shell prints nothing and
its panel stays (`Quiet`), for output and panels of the two do not meet; the safety is proved for any
number.

Three runs use symmetry; they check invariants, and one refinement that is a safety property without
fairness. Deadlock checking is off where the system really stops: a dead server whose callers have
returned, a session that was torn down, commands that have all ended.

Fairness. The runtime polls every task and the operating system runs every thread, so their steps are
weakly fair, per task. Deadlines fire when the property needs them: the one of shutdown's own request
(`SHUTDOWN_DEADLINE`), the grace period, the readiness ceiling. A killed process exits. Nothing is assumed
of a server that is not killed, of an ordinary request's deadline (the properties say that callers do not
depend on it), of a write to a server that is not reading (`ServerQuestionAnswered` has as its condition
that writes are not put off for ever), of the user, or of the arm a `select!` takes. `LspSession` assumes
of the layer below what `LspTransport` shows: an exit is published, and a process that is lost, shut down
or held by nobody ends. In `Terminals` the calls are strongly fair, because they queue for a mutex that
others take and give back; nothing is assumed of shells, of an open or of the threads of a terminal. In
`DebugConsole` the pump and the session are weakly fair, and the adapter finishes a write it has begun
when there is room and reads when it is not writing; whether it writes at all is its own affair.
`Launches` needs no fairness: `RestLeavesNothingBehind` speaks of the states in which nothing is left that
happens by itself, and every such step takes a command or a process further.

## 4. Statements of the docs that do not hold

Each is a definition that states the sentence and a configuration that refutes it; they are kept apart
from the passing runs and end in a counterexample on purpose (`tlc -config <name>.cfg <module>`).

* `TransportDeaf` (`LspTransport`, `DeafServerIsDead`): `lsp/mod.rs:117-119` promises that "a stdout
  we can no longer read publishes a death rather than going quiet". `read_loop` treats EOF as the end
  of the process (`transport.rs:761`); a server that closes its stdout and runs on is never declared
  dead, and every request from then on times out.
* `ReadinessAfterDeath` (`LspReadiness`, `DeathFreezesReadiness`): `client.rs:1197-1201` says that a
  death ends the watch "without publishing anything". The `select!` below it is not biased, so a
  ceiling that is due at the same time may win.
* `SessionRename` (`LspSession`, `RenameKnowsTheEditorsBuffers`): `session.rs:1679` describes the
  snapshot a rename decides by as the buffers "the editor has open". It also holds every file a
  question was ever asked about (`ensure_open`), and the edits to those are neither written nor shown
  by an editor.
* `WorkspaceGone` (`LspWorkspace`, `GoneMeansGone`): `commands/lsp.rs:84-85` says that `GONE` means
  that there is no session "and no workspace to start one for". Two callers suffice to refuse each
  other three times.
* `WorkspaceRestart` (`LspWorkspace`, `RestartReplaysTheBuffers`): `commands/lsp.rs:207-208` says that
  after a restart the next request "replays the open documents". The mirror is part of the session
  that was torn down.
* `LaunchesGenerations` (`Launches`, `OneActiveGeneration`): `commands/run.rs:54-55`, "One active
  generation per configuration". A run and a debug launch that start together each cancel before
  either is registered, and both run.
* `LaunchesListed` (`Launches`, `ReplacementStaysListed`): `process/mod.rs:285-288` says that the
  entry of a replacement is left alone "both in the map and in the registry". The check is for a
  replacement in the supervisor's map; a debug launch replaces the run in another map and under the
  same registry key, and the end of the run takes its record out.
* `SymbolsRescan` (`Symbols`, `RescanCorrects`): `commands/files.rs:187-188`, an index that missed
  something "is self-correcting on the next rescan or rebuild". A build that read the file before a
  change and records after the rescan's overwrites the newer index.
* `SymbolsFlag` (`Symbols`, `OnlyTheNewestClears`): `state.rs:309-310`, "Only the newest build of a
  workspace may say indexing has stopped". The guard compares and stores in two steps, between which
  a newer build may raise the flag; `FlagFollowsTheNewest` exempts just those.
* `TerminalsQuick` (`Terminals`, `SectionsAreQuick`): `pty/mod.rs:15-16`, "every critical section is a
  quick map operation with nothing awaited inside it". `write` (236-244) writes to the
  pseudo-terminal with the mutex held, and a shell that does not read keeps every terminal waiting.

* `DebugConsoleSocket` (`DebugConsole`, `AdapterIsDrained`): a client that stops draining its adapter
  deadlocks the debuggee, and that "is the bug this function exists to prevent" (`debug.rs:402-409`). The
  pump itself stops when the framing is lost. Over pipes the adapter's write then fails; over the halves
  of a socket (`into_split`, 376) it does not: if the session is itself waiting to write to the adapter,
  with that direction full, both wait until the session is stopped.

Smaller ones met on the way, with no definition of their own: `process/mod.rs:214-216` says that the
cancel before a run waits for the tree-kill to complete, but it returns once the signal is sent;
`lib.rs:441-443` and `commands/files.rs:165` are named in section 2.

## 5. What is proved

TLAPS checks these for every value of the constants that the named assumptions allow; TLC evaluates
each assumption in a run.

`LspTransportProofs`

* `TypeCorrect`: `Spec => [](TypeOK /\ PublishOrder)`. The types alone are not inductive: a drain
  writes the published death into the waiters' channels, and only `PublishOrder` (a task that
  publishes has a cause, one that drains comes after a death) says that there is one. The mutex
  belongs to the types: it is held exactly by the caller between reading the slot and inserting.
* `WaitersAreNeverStranded`: `Spec => []NoWaiterStranded`. An empty map after the drain is not
  inductive, because a caller inside the critical section is about to insert; the invariant
  `NobodyEnters` adds that the mutex is free. It is kept because a drain needs the mutex and
  `CheckDeath` refuses callers once a death is known. This is the argument in the comment of
  `request_with_id`, for any number of callers.
* `CausesAreTrue`: `Spec => []TrueCauseReported`, by the invariant that an outcome naming a death names
  the published one and that there is one (`CausesNamed`); the death slot is written once.
* `ProcessesAreKilled`: `Spec => []NoProcessLeftBehind`. Each of the four tasks that may publish a
  death has a reason of its own why the process will not survive it: the writer and the reader are
  about to kill it (`Doomed`), the reaper has seen it end, and shutdown has killed it or finds a death
  that is known already (`Reasons`).
* `AnswersArrive`: `Spec => []NoAnswerIsLost`, about every answer that names its request, readable or not.
  A request that waits is in the pending map until its answer
  is sent to it (`InTheMapOrSent`), its frame is queued and read by the server only after it was
  registered (`QueuedByWaiters`, `AskedByWaiters`), and what the server wrote for it is in the stream, or
  was dispatched, as long as the stream can be read (`InTheStream`).
* `TransportServesItsCallers`: `Spec => ServiceRefined`, the refinement of `RequestService`. `Pending`
  says that only its caller resolves a request, `SentIsJustified` that what is in a waiter's channel is an
  outcome the service allows, and `FramesSpoken` that an answer in the stream was spoken. Each action is
  then a step of the service or a stutter.
* `EveryWaiterCanBeWoken` and `QuestionsAreNotDropped`, the halves of `ExitWakesEveryWaiter` and
  `ServerQuestionAnswered`. A caller that waits with no outcome is in the map, and a task is
  at its drain, or no death is published and the reaper waits for the process or is about to publish
  its exit (`Reaping`). A question of the server's is in the stream or its reply in the queue (`QuestionKept`)
  unless one of the tasks and channels that carry it is broken, which is for good (`BrokenForGood`).

`LspReadinessProofs`

* `ReadinessTypeCorrect`, `ReadyMeansLoaded` and `PartialAnswersCarryTheCaveat` share one inductive
  invariant: what is remembered by the matcher, queued on the broadcast or recorded as the signal is
  true of the server (`TrueOnTheWay`), a signal that is believed was given by a server that had loaded
  (`BelievedWhenLoaded`), and who has a partial answer read the readiness before it was certain
  (`PartialAnswersWereUncertain`). The matcher's cap and the broadcast's capacity are any.
* `TheSignalIsNotLost` and `NobodyWaitsInVain`, the halves of `SignalIsNeverMissed` and `WaitersGoOn`. The
  work that was begun first always has a place in the matcher, and its begin is before its end in the
  pipe (`FirstKept`), so its end is still to be read or is recorded, and the sink that records it is
  not the broadcast that may drop it (`EndKept`); a watcher that stopped has promoted or been overtaken
  by the death (`WatcherKept`). A caller waits only while a watcher can still end its wait (`Attended`).

`LspSessionProofs`

* `SessionTypeCorrect`, `TheServerHoldsTheBuffers`, `VersionsGrow`, `OneServer`,
  `AsksAreAboutTheCallersText` and `ReportsStayCurrent`, for any documents, requests, editor actions and
  restart windows. `Servers` says that epochs are started in order and each after the death of the one
  before is known, that the windows ration them (`EpochsOK`), and that a start is reported once and before
  the server is taken to be up (`StartsOK`). `Documents` says that the texts of the mirror are the texts
  of the live server, or of the replay it will be given (`Synced`), and that every version sent or on its
  way is at most the high-water mark (`SentBelow`, `SentLate`). That a question is never about an older
  text than its caller's is a statement about the mailbox: `InOrder` says what the mirror will hold once
  the first n messages have been handled, so that a request put behind an edit finds it; from then until
  its task writes the frame the server's text only gets newer, or the document is closed. `Reported` gives
  the order of a death and of what follows it in the mailbox.
* `RequestsAreNotForgotten`, `ServersAreWatched` and `TheRowIsCurrentOrBehind`, the halves of
  `EveryAskIsAnswered`, `DeathIsNoticed` and `StatusCatchesUp`. A request whose caller waits is in the
  mailbox of an actor that runs (`Waiting`); the server in use is watched or its death is mailed
  (`Watched`); and the supervisor remembers no readiness whose report is neither in the mailbox nor
  handled, so that a row which is behind has something coming that refreshes it (`Behind`, `Shown`).

`LspWorkspaceProofs`

* `WorkspaceTypeCorrect`: `Spec => []TypeOK`.
* `SessionsServeTheirWorkspace`: `Spec => []ServedByItsOwnWorkspace`, for any number of workspaces,
  commands and attempts. A generation that fits proves nothing about the workspace (every slot counts
  from zero), and the check of the root is not under the lock under which the session is published.
  What carries it over is that the slot that was compared is the slot that is published to and that a
  slot never changes its root (`Carried`), that an open slot of the map belongs to the workspace it is
  filed under (`Filed`), that a slot made for a new workspace is one nothing refers to yet (`Unborn`),
  and that a session is made once, so the root of a published one stays what it was (`Minted`).
* `ReplacedSessionsEnd`: `Spec => []RetiredSessionsAreTornDown`. A running session that some command
  asks is `Rooted`, in the slot of an open workspace or of one that is being closed, and every way out
  of a slot (restart, close) tells it to end in the step that takes it out. The proof splits a step in
  two: what it does to the calls (`Advance`) and to slots and sessions (`Keeps`). That a command asks
  none that its starter will start yet (`SeenBy`) keeps a new session from being taken for an old one.

`SymbolsProofs`

* `SymbolsTypeCorrect`, `CacheStaysHonest`, `WarmIsAsGoodAsCold` and `IndexesStayApart` share one
  inductive invariant. That the cache is honest is not inductive, because what a build is about to
  write matters: `GoodBuild` says that its stamp is never younger than the symbols it goes with, and
  that these are not older than what the file was when the build began; `GoodSave` says that what a save
  will splice is of the workspace it will splice into. `GoodCache` carries this through the file, in
  which a truncated cache has no entry. `CacheIsHonest` then follows: a stamp that matches the file is
  the newest there is, so the symbols behind it are of the same text. The order stat, then parse, is
  what the proof turns on.
* `TheFlagFollowsTheNewest`: `Spec => []FlagFollowsTheNewest`. No guard is of a life or a
  generation that was not given yet, and none is held twice (`GoodGuard`, `OneGuardEach`); the flag is in
  the hands of the newest build while that is between two halves, and says otherwise whether it is still
  at work (`GoodFlag`). The exemption is the property's: lives in which a build began between the two
  halves of another one's begin or drop.

`RenamesProofs`

* `FailuresAreHonest`: `Spec => []FailureIsHonest`. The invariant says in which phase which variables
  may be filled (`Shape`), that a before-image is what the file held (`Images`), and that a file
  neither touched by a write nor reported lost nor saved by somebody else is as it was (`Untouched`).
* `PlanDecides` and `ApplyMeans` are about `Edits` alone, for any text and any list of edits: the sort and
  the comparison of neighbours refuse a list exactly when two of its edits could be applied in two ways
  and otherwise keep every edit once, and the pass with the cursor then has the effect of all edits at
  once. Both are inductions over the places of a list. An induction theorem that takes an operator
  cannot be instantiated here, so each is carried out on the set of the numbers for which the claim
  holds, whose complement in `Nat` would have a least element (`Nat` is well-founded).
* `TheEditsAreOne`: `Spec => []EditsMeanOneThing`, and `SuccessesAreWhole`: `Spec => []SuccessIsWhole`. The
  invariant `Whole` adds to the one above that files hold texts until phase 2 begins (`Sources`), that what
  is to be written was computed from what was read, by a plan that accepted (`Computed`), that phase 1
  accounts for every file it is through with, as planned or as open in the editor (`Accounts`), and that
  a file that was written holds its new text unless somebody else saved it (`Written`).

`LaunchesProofs`

* `LaunchesTypeCorrect` and `StoppedLaunchesSaySo` (`StopsAreReportedAsStops`) share one invariant. The
  property looks at a launch after it was killed, but whether it will report a stop is settled before:
  `Victims` says that whatever a command is about to kill is `Taken`, a run with its cancel flag set or
  an adapter that has been in its map and is no longer, and `Marked` says the same of what was killed.
  It stays so because a launch enters its table once, at a place of its own (`Entered`), and reports
  only after it has left (`Reported`); that a `kill` follows only a step that found its victim is a fact
  about `Program` (`Steps`). Each action is shown to be a step of one kind (`Onward`), which keeps the
  invariant once for all of them.
* `OneGeneration` (`OneGenerationUnlessRaced`) and `CurrentLaunchesAreFound`
  (`EverythingRunningCanBeStopped`) rest on `Generations`. A launch is young until its record is to be
  written; of launches that do not race only one is young (`Alone`), and once it has looked into a table
  it has picked whom it found there (`Cleared`), so that a debug launch finds no adapter the second time
  it looks (`Vacant`) and of two launches in the tables one was picked (`Succeeded`). A picked launch was
  in a table (`Picked`) and is killed by somebody who is about to, or has (`Hunted`, `Finished`); one
  that nobody picked is in the table of its kind (`Registered`).
* `RunningStaysListed`: `Spec => []ListedWhileRunning`, by `Books`: where a launch whose record was written
  can be in its program (`Settled`), and that the live table and the file have the record (`Booked`).
* `StopsTakeEffect`: `Spec => []RestLeavesNothingBehind`, by `Rests`. A launch that was spawned and is not
  reaped has a process, which is alive, dying or to be reaped (`Attended`), so a state of rest with such
  a launch is one in which its process runs on; a run that has entered its map is still in it when it is
  recorded (`Inside`); and a record in the live table is of a launch that will still take it out, or is
  about to be replaced by that of the run which has taken its place (`Held`). ENABLED is out of the
  prover's reach: `AtRest` spells it out, and TLC checks that it does (`LaunchesRest.cfg`).

`ConsolesProofs`

* `TerminalsTypeCorrect`, `EveryShellCanBeClosed` (`NoShellWithoutASession`) and `ExitsAreAnnouncedLast`.
  A shell whose `open` still waits for the mutex is exempt by name: it runs and no call can name it.
  The types include that the mutex is held between steps by exactly the call that is writing
  (`HeldByTheWriter`), a writer's terminal being in the map; a waiter beyond its reap has a shell that
  is gone (`ReapedAfterExit`), so its removal takes no shell out of reach; what the reader holds was
  printed (`ReadAfterPrinted`).
* `TheConsoleShowsTheSession`: `Console!Spec => Console!ShowsTheSession`, the refinement of
  `OutputStream`, for any sizes, pipes and cap of a batch, and without an assumption. What is shown, what
  is held back and what is on its way (`Flow`: the queue and the pipe in a row) are together what has
  happened, in order (`Streaming`). The messages on their way are of many kinds, so "in a row" is said
  with a function that counts, for each place of `Flow`, how much of what has happened is reached there
  (`Counts`, `Traced`); joining and leaving the queue extends and shortens it (`TracedAppend`,
  `TracedTail`), and a message put between that reports nothing, the one that says the stream is broken,
  changes nothing (`TracedInsert`). What counts as having happened begins with the answer to `initialize`,
  which is therefore part of the invariant: it is asked once and answered at most once (`Once`), and until
  the session takes the answer there is one place in `Flow` behind which everything is to be shown. That
  flattening the console goes along with appending a batch (`FlattenAppend`) is an induction like those
  above.
* `CaughtUpIsComplete` and `RequestsAreNeverDropped`, the halves of `NothingIsWithheld` and
  `RequestsAreAnswered`. The first is read off `Streaming`: with nothing on its way and nothing held
  back, what is shown is all there is. The second says where a request of the adapter's or the reply to
  it is (`Attending`), and that a session whose stream is no longer drained has been told so, or the
  request would wait in a pipe that nobody reads (`Drained`); it assumes that `None` is no message.

Only model-checked is what needs fairness, for liveness is out of the prover's reach. Of nine of these
properties, those named above as halves, the part that is a safety property is proved: what is owed is
at every moment somewhere from where it can still be delivered. That it is delivered stays with
TLC: `ExitWakesEveryWaiter` and `ServerQuestionAnswered` of the transport, `SignalIsNeverMissed` and
`WaitersGoOn` of readiness, `EveryAskIsAnswered`, `DeathIsNoticed` and `StatusCatchesUp` of the session,
`RequestsAreAnswered` and `NothingIsWithheld` of the debug console. Nothing is proved of
`ShutdownEnds`, `NoServerOutlivesTheSession`, `AdapterIsDrained` and `ClosesUnlessStuck`, which TLC alone
checks. Every safety property of section 3, and both refinements, are proved.

## 6. Not modelled

* In the modelled parts: the bytes of framing, payloads and their decoding, log files, the four
  languages side by side, the incremental ranges of a change. Of launches: compound configurations,
  the closing of a workspace, the reuse of a pid, writes of `running.json` that fail, the pumping of
  the output. Of the debug adapters: breakpoints and the correlator of `dap/sequence.rs`, which no
  command uses. Of symbols: renamed files, directories, the caps of the walk, panics, the declaration
  scanner and the search. Of symbols, too, that a
  fingerprint (a second and a length, `cache.rs:279`) may match a file that has changed. Of renames: columns
  inside a line, previews. Of terminals: the record in the
  running registry, the choice of program and arguments; a failure after the spawn is taken as
  closing the pseudo-terminal and with it the shell.
* The editor front end is the environment of `LspSession` and `LspWorkspace`; its debounce timers are
  not modelled, so nothing is said of an edit that is still in a timer when its tab is left.
* The clients of databases, the embedded browser, the inspector and the tool servers are I/O around a
  request that is answered before the next one is read; what they get wrong is better tested.
* Detection, importers, analyses and diffs are functions of a directory or a text, run to completion
  and large; a model of them would be the program again.
* The stores of settings, notes and changelists are read and written whole.
