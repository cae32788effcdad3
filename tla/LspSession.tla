----------------------------- MODULE LspSession -----------------------------
(***************************************************************************)
(* The language-server session of one workspace: the actor, its mailbox    *)
(* and its tasks (crates/core/src/lsp/session.rs), the mirror of the open  *)
(* documents (documents.rs), the document calls of the client (client.rs)  *)
(* and the restart policy (transport.rs).                                  *)
(*                                                                         *)
(* One language stands for the four: they share the mailbox and nothing    *)
(* else.  Every start attempt has an epoch of its own, and so have its     *)
(* process, its client and its supervisor.  Of the transport the module    *)
(* assumes what LspTransport shows: a death is published once, a client    *)
(* that is dropped or shut down has its process end.  Texts are stamps     *)
(* that grow with every text the editor gives or the session reads from    *)
(* disk, so that a later text has a higher one; 0 stands for "not open".   *)
(***************************************************************************)
EXTENDS Naturals, Sequences, FiniteSets

CONSTANTS
    Docs,        \* the files of the language
    Unreadable,  \* those ensure_open cannot read: missing, or over AUTO_OPEN_MAX_BYTES
    Asks,        \* the requests of the handles' owners
    Kinds,       \* what they ask: a subset of RequestKinds
    Immediate,   \* Readiness::Immediate: the servers need no time to load
    MaxActs,     \* bound on the editor's opens, changes and closes
    MaxWindows   \* bound on the restart windows that pass

RequestKinds == {"references", "documentSymbol", "rename"}
ASSUME DocsAssumption == Unreadable \subseteq Docs
ASSUME KindsAssumption == Kinds \subseteq RequestKinds /\ Immediate \in BOOLEAN
ASSUME SessionBounds == MaxActs \in Nat /\ MaxWindows \in Nat

Epochs == 1..(MaxWindows + 2)
Stamps == 0 .. (2 * MaxActs + 1)

Loading == "Loading"
Caveat == "ReadyWithCaveat"
Ready == "Ready"

VARIABLES
    held,      \* some LspHandle exists
    mail,      \* the actor's mailbox
    actor,     \* it runs, or has torn the session down
    srv,       \* Server: its state, epoch and whether it was restarted within the window
    windows,   \* how many restart windows have passed since a restart
    attempt,   \* per epoch, Client::start: none, starting, failed or started
    proc,      \* per epoch, the process: none, running or exited
    known,     \* the epochs whose transport has published a death
    ready,     \* per epoch, the client's readiness
    sup,       \* per epoch, the supervisor and the readiness it saw last
    closing,   \* the epochs whose client is being shut down
    row, pids, \* the shared snapshots: status row and live pids
    mirror,    \* Documents::open, per document: text, version, told the server or not
    high,      \* Documents::high_water
    view,      \* per epoch and document, what the server was told last
    sent,      \* per epoch and document, the highest version it was told
    editor,    \* the editor's own buffers
    touched,   \* the documents the editor has ever opened
    acts,      \* how many things the editor has done
    ask        \* the requests

serverVars == <<srv, windows, attempt, proc, known, ready, sup, closing>>
docVars == <<mirror, high, view, sent>>
editorVars == <<editor, touched, acts>>
vars == <<held, mail, actor, serverVars, row, pids, docVars, editorVars, ask>>

\* What the editor gives in this step, and what the session reads from disk: later than any
\* text the editor has given, earlier than any it will give.
NewText == 2 * acts'
OnDisk == 2 * acts + 1

Closed == [text |-> 0, version |-> 0]
NotOpen == [text |-> 0, version |-> 0, told |-> FALSE]
Idle == [state |-> "idle", kind |-> "none", doc |-> "none", text |-> 0, epoch |-> 0,
         served |-> 0, open |-> {}, outcome |-> "none"]

\* What refresh_status would publish for a server.
RowOf(s) ==
    CASE s.state = "Idle" -> "none"
      [] s.state = "Up" -> ready[s.epoch]
      [] OTHER -> s.state
PidsOf(s) == IF s.state = "Up" THEN {s.epoch} ELSE {}

\* Mutated: a server that is coming up is started again.
\* ensure_started: a server that is up, coming up or unusable is left alone.
EnsureStartedAgain(s) ==
    IF s.state \in {"Idle", "Starting"} /\ s.epoch + 1 \in Epochs
    THEN [s EXCEPT !.state = "Starting", !.epoch = @ + 1] ELSE s
EnsureStarted(s) ==
    IF s.state = "Idle" THEN [s EXCEPT !.state = "Starting", !.epoch = @ + 1] ELSE s

\* The start task and the status that go with a server that has just been started.
Started(before, s) ==
    /\ srv' = s
    /\ IF s.epoch # before.epoch
       THEN /\ attempt' = [attempt EXCEPT ![s.epoch] = "starting"]
            /\ proc' = [proc EXCEPT ![s.epoch] = "running"]
            /\ row' = RowOf(s) /\ pids' = PidsOf(s)
       ELSE UNCHANGED <<attempt, proc, row, pids>>

Init ==
    /\ held = TRUE
    /\ mail = <<>>
    /\ actor = "run"
    /\ srv \in {[state |-> "Idle", epoch |-> 0, recent |-> FALSE],
                [state |-> "Starting", epoch |-> 1, recent |-> FALSE],
                [state |-> "Unavailable", epoch |-> 0, recent |-> FALSE]}
    /\ windows = 0
    /\ attempt = [e \in Epochs |-> IF e = srv.epoch THEN "starting" ELSE "none"]
    /\ proc = [e \in Epochs |-> IF e = srv.epoch THEN "running" ELSE "none"]
    /\ known = {}
    /\ ready = [e \in Epochs |-> IF Immediate THEN Ready ELSE Loading]
    /\ sup = [e \in Epochs |-> [state |-> "none", last |-> Loading]]
    /\ closing = {}
    /\ row = RowOf(srv) /\ pids = {}
    /\ mirror = [d \in Docs |-> NotOpen]
    /\ high = [d \in Docs |-> 0]
    /\ view = [e \in Epochs |-> [d \in Docs |-> Closed]]
    /\ sent = [e \in Epochs |-> [d \in Docs |-> 0]]
    /\ editor = [d \in Docs |-> 0]
    /\ touched = {}
    /\ acts = 0
    /\ ask = [r \in Asks |-> Idle]

-----------------------------------------------------------------------------
(* The handles: the editor, the requests, teardown                         *)

Message(k, d, t) == [kind |-> k, doc |-> d, text |-> t]
About(k, e) == [kind |-> k, epoch |-> e]
Request(r) == [kind |-> "Ask", ask |-> r]

Tell(m) == mail' = IF actor = "run" THEN Append(mail, m) ELSE mail
EditorActs == held /\ acts < MaxActs /\ acts' = acts + 1

EditorOpens(d) ==
    /\ EditorActs /\ editor[d] = 0
    /\ editor' = [editor EXCEPT ![d] = NewText]
    /\ touched' = touched \cup {d}
    /\ Tell(Message("Open", d, NewText))
    /\ UNCHANGED <<held, actor, serverVars, row, pids, docVars, ask>>

EditorTypes(d) ==
    /\ EditorActs /\ editor[d] # 0
    /\ editor' = [editor EXCEPT ![d] = NewText]
    /\ Tell(Message("Change", d, NewText))
    /\ UNCHANGED <<held, actor, serverVars, row, pids, docVars, touched, ask>>

EditorCloses(d) ==
    /\ EditorActs /\ editor[d] # 0
    /\ editor' = [editor EXCEPT ![d] = 0]
    /\ Tell(Message("Close", d, 0))
    /\ UNCHANGED <<held, actor, serverVars, row, pids, docVars, touched, ask>>

\* Mutated: the failed send is not looked at.
AskingNobody(r, k, d) ==
    /\ held /\ ask[r].state = "idle"
    /\ ask' = [ask EXCEPT ![r] =
                 [Idle EXCEPT !.kind = k, !.doc = d, !.text = editor[d], !.state = "mailed"]]
    /\ Tell(Request(r))
    /\ UNCHANGED <<held, actor, serverVars, row, pids, docVars, editorVars>>

\* LspHandle::ask, with the text its caller sees; a session that is gone answers at once.
Asking(r, k, d) ==
    /\ held /\ ask[r].state = "idle"
    /\ ask' = [ask EXCEPT ![r] =
                 [Idle EXCEPT !.kind = k, !.doc = d, !.text = editor[d],
                              !.state = IF actor = "run" THEN "mailed" ELSE "done",
                              !.outcome = IF actor = "run" THEN "none" ELSE "TornDown"]]
    /\ Tell(Request(r))
    /\ UNCHANGED <<held, actor, serverVars, row, pids, docVars, editorVars>>

RequestTeardown ==
    /\ held /\ actor = "run" /\ \A i \in DOMAIN mail : mail[i].kind # "Teardown"
    /\ Tell(About("Teardown", 0))
    /\ UNCHANGED <<held, actor, serverVars, row, pids, docVars, editorVars, ask>>

\* The last handle goes; a caller that waits for an answer still holds one.
DropHandles ==
    /\ held /\ \A r \in Asks : ask[r].state \in {"idle", "done"}
    /\ held' = FALSE
    /\ UNCHANGED <<mail, actor, serverVars, row, pids, docVars, editorVars, ask>>

-----------------------------------------------------------------------------
(* The mirror (documents.rs) and what the client forwards (client.rs)      *)

\* Documents::open, change and close: the entry, the high-water mark and what is owed.
OpenIn(d, t, listening) ==
    LET m == mirror[d] v == high[d] + 1 IN
    [entry |-> [text |-> t, version |-> v, told |-> m.told \/ listening],
     high |-> v,
     action |-> IF m.told THEN "didChange" ELSE IF listening THEN "didOpen" ELSE "none"]

ChangeIn(d, t) ==
    LET m == mirror[d] v == high[d] + 1 IN
    IF m.text = 0 THEN [entry |-> m, high |-> high[d], action |-> "none"]
    ELSE [entry |-> [m EXCEPT !.text = t, !.version = v], high |-> v,
          action |-> IF m.told THEN "didChange" ELSE "none"]

\* Mutated: the version is forgotten with the document.
CloseForgetting(d) ==
    [entry |-> NotOpen, high |-> 0, action |-> IF mirror[d].told THEN "didClose" ELSE "none"]

CloseIn(d) ==
    [entry |-> NotOpen, high |-> high[d],
     action |-> IF mirror[d].told THEN "didClose" ELSE "none"]

\* Client::did_open, did_change, did_close: what its server has afterwards.
Forward(was, u) ==
    CASE u.action = "didOpen" -> [text |-> u.entry.text, version |-> u.entry.version]
      [] u.action = "didChange" /\ was.text # 0
            -> [text |-> u.entry.text, version |-> u.entry.version]
      [] u.action = "didClose" -> Closed
      [] OTHER -> was

\* live_client: the server that notifications go to.
LiveClient == srv.state = "Up" /\ srv.epoch \notin known

\* The mirror takes an update of one document, and the live server hears of it.
Update(d, u) ==
    /\ mirror' = [mirror EXCEPT ![d] = u.entry]
    /\ high' = [high EXCEPT ![d] = u.high]
    /\ IF LiveClient
       THEN LET now == Forward(view[srv.epoch][d], u) IN
            /\ view' = [view EXCEPT ![srv.epoch][d] = now]
            /\ sent' = [sent EXCEPT ![srv.epoch][d] = IF now.version > @ THEN now.version ELSE @]
       ELSE UNCHANGED <<view, sent>>

-----------------------------------------------------------------------------
(* The actor's handlers                                                    *)

Handles(k) == actor = "run" /\ mail # <<>> /\ Head(mail).kind = k /\ mail' = Tail(mail)

OnOpen ==
    /\ Handles("Open")
    /\ Started(srv, EnsureStarted(srv))
    /\ Update(Head(mail).doc, OpenIn(Head(mail).doc, Head(mail).text, LiveClient))
    /\ UNCHANGED <<held, actor, windows, known, ready, sup, closing, editorVars, ask>>

\* Mutated: edits are not mirrored while no server listens.
OnChangeWhenLive ==
    /\ Handles("Change")
    /\ IF LiveClient THEN Update(Head(mail).doc, ChangeIn(Head(mail).doc, Head(mail).text))
       ELSE UNCHANGED docVars
    /\ UNCHANGED <<held, actor, serverVars, row, pids, editorVars, ask>>

OnChange ==
    /\ Handles("Change")
    /\ Update(Head(mail).doc, ChangeIn(Head(mail).doc, Head(mail).text))
    /\ UNCHANGED <<held, actor, serverVars, row, pids, editorVars, ask>>

OnClose ==
    /\ Handles("Close")
    /\ Update(Head(mail).doc, CloseIn(Head(mail).doc))
    /\ UNCHANGED <<held, actor, serverVars, row, pids, editorVars, ask>>

\* prepare: what stands between a request and a usable server, told to its caller at once.
Unready(s) ==
    IF s.state # "Up" THEN s.state
    ELSE IF s.epoch \in known THEN "Failed"
    ELSE IF ready[s.epoch] = Loading THEN "Loading" ELSE "none"
Resolved(r, outcome) ==
    [ask EXCEPT ![r].state = "done", ![r].served = 0, ![r].outcome = outcome]

OnAskUnready ==
    /\ Handles("Ask")
    /\ LET s == EnsureStarted(srv) IN
       /\ Unready(s) # "none"
       /\ Started(srv, s)
       /\ ask' = Resolved(Head(mail).ask, Unready(s))
    /\ UNCHANGED <<held, actor, windows, known, ready, sup, closing, docVars, editorVars>>

\* ensure_open cannot read the file: references may be asked all the same, and a question about
\* the buffer itself is refused (Needs::OpenDocument).
CannotOpen(d) == ~mirror[d].told /\ mirror[d].text = 0 /\ d \in Unreadable
OnAskUnreadable ==
    /\ Handles("Ask") /\ Unready(srv) = "none"
    /\ LET r == Head(mail).ask IN
       /\ CannotOpen(ask[r].doc)
       /\ ask' = IF ask[r].kind = "references"
                 THEN [ask EXCEPT ![r].state = "spawned", ![r].epoch = srv.epoch]
                 ELSE Resolved(r, "Failed")
    /\ UNCHANGED <<held, actor, serverVars, row, pids, docVars, editorVars>>

\* ensure_open has the server know the document, and the request is spawned as a task of its
\* own, a rename with a snapshot of the open documents.
OnAsk ==
    /\ Handles("Ask") /\ Unready(srv) = "none"
    /\ LET r == Head(mail).ask
           d == ask[r].doc
       IN /\ ~CannotOpen(d)
          /\ IF mirror[d].told THEN UNCHANGED docVars
             ELSE Update(d, OpenIn(d, IF mirror[d].text # 0 THEN mirror[d].text ELSE OnDisk, TRUE))
          /\ ask' = [ask EXCEPT
                       ![r].state = "spawned", ![r].epoch = srv.epoch,
                       ![r].open = IF ask[r].kind = "rename"
                                   THEN {x \in Docs : mirror'[x].text # 0} ELSE {}]
    /\ UNCHANGED <<held, actor, serverVars, row, pids, editorVars>>

\* Mutated: the replay is not recorded in the mirror.
OnStartedUnrecorded ==
    /\ Handles("Started")
    /\ LET e == Head(mail).epoch IN
       /\ e = srv.epoch
       /\ srv' = [srv EXCEPT !.state = "Up"]
       /\ sup' = [sup EXCEPT ![e] = [state |-> "watch", last |-> ready[e]]]
       /\ view' = [view EXCEPT ![e] = [d \in Docs |->
                     [text |-> mirror[d].text, version |-> mirror[d].version]]]
       /\ sent' = [sent EXCEPT ![e] = [d \in Docs |-> mirror[d].version]]
       /\ row' = RowOf(srv') /\ pids' = PidsOf(srv')
    /\ UNCHANGED <<held, actor, windows, attempt, proc, known, ready, closing, mirror, high,
                   editorVars, ask>>

\* The handlers of what the tasks report.  Each compares the epoch and returns when it is not
\* the server's own; ReportsAreCurrent shows that it always is, so the comparison is a guard.
\* A server that has come up is supervised and told of every open document.
OnStarted ==
    /\ Handles("Started")
    /\ LET e == Head(mail).epoch IN
       /\ e = srv.epoch
       /\ srv' = [srv EXCEPT !.state = "Up"]
       /\ sup' = [sup EXCEPT ![e] = [state |-> "watch", last |-> ready[e]]]
       /\ mirror' = [d \in Docs |-> [mirror[d] EXCEPT !.told = (mirror[d].text # 0)]]
       /\ view' = [view EXCEPT ![e] = [d \in Docs |->
                     [text |-> mirror[d].text, version |-> mirror[d].version]]]
       /\ sent' = [sent EXCEPT ![e] = [d \in Docs |-> mirror[d].version]]
       /\ row' = RowOf(srv') /\ pids' = PidsOf(srv')
    /\ UNCHANGED <<held, actor, windows, attempt, proc, known, ready, closing, high,
                   editorVars, ask>>

OnStartFailed ==
    /\ Handles("StartFailed")
    /\ Head(mail).epoch = srv.epoch
    /\ srv' = [srv EXCEPT !.state = "Failed"]
    /\ row' = "Failed" /\ pids' = {}
    /\ UNCHANGED <<held, actor, windows, attempt, proc, known, ready, sup, closing, docVars,
                   editorVars, ask>>

\* RestartPolicy::on_death: one restart within the window, then the server has failed for good.
OnDied ==
    /\ Handles("Died")
    /\ Head(mail).epoch = srv.epoch
    /\ \/ /\ ~srv.recent
          /\ Started(srv, EnsureStarted([srv EXCEPT !.state = "Idle", !.recent = TRUE]))
       \/ /\ srv.recent
          /\ srv' = [srv EXCEPT !.state = "Failed"]
          /\ row' = "Failed" /\ pids' = {}
          /\ UNCHANGED <<attempt, proc>>
    /\ UNCHANGED <<held, actor, windows, known, ready, sup, closing, docVars, editorVars, ask>>

OnReadiness ==
    /\ Handles("Readiness")
    /\ Head(mail).epoch = srv.epoch
    /\ row' = RowOf(srv) /\ pids' = PidsOf(srv)
    /\ UNCHANGED <<held, actor, serverVars, docVars, editorVars, ask>>

\* The mailbox is dropped with the replies in it; the clients in it are dropped, too.
TearDown ==
    /\ actor = "run"
    /\ \/ mail # <<>> /\ Head(mail).kind = "Teardown"
       \/ mail = <<>> /\ ~held
    /\ actor' = "gone"
    /\ mail' = <<>>
    /\ closing' = IF srv.state = "Up" THEN closing \cup {srv.epoch} ELSE closing
    /\ srv' = [srv EXCEPT !.state = IF @ = "Up" THEN "Idle" ELSE @]
    /\ mirror' = [d \in Docs |-> NotOpen] /\ high' = [d \in Docs |-> 0]
    /\ row' = "none" /\ pids' = {}
    /\ ask' = [r \in Asks |->
                 IF \E i \in DOMAIN mail : mail[i] = Request(r)
                 THEN [ask[r] EXCEPT !.state = "done", !.outcome = "TornDown"] ELSE ask[r]]
    /\ UNCHANGED <<held, windows, attempt, proc, known, ready, sup, view, sent, editorVars>>

-----------------------------------------------------------------------------
(* The tasks: starting, supervising, asking; the processes                 *)

\* Mutated: the start task keeps a clone of the client it hands over.
HoldsForever(e) ==
    \/ actor = "run" /\ srv.state = "Up" /\ srv.epoch = e
    \/ \E r \in Asks : ask[r].state \in {"spawned", "asked"} /\ ask[r].epoch = e
    \/ e \in closing
    \/ attempt[e] = "started"

\* The clients somebody holds: the session, a message, a request's task, the shutdown.
Holds(e) ==
    \/ actor = "run" /\ srv.state = "Up" /\ srv.epoch = e
    \/ \E i \in DOMAIN mail : mail[i] = About("Started", e)
    \/ \E r \in Asks : ask[r].state \in {"spawned", "asked"} /\ ask[r].epoch = e
    \/ e \in closing

\* Client::start returns, and its result goes to the session if there still is one.
StartEnds(e, how, message) ==
    /\ attempt[e] = "starting"
    /\ attempt' = [attempt EXCEPT ![e] = how]
    /\ mail' = IF held /\ actor = "run" THEN Append(mail, About(message, e)) ELSE mail
    /\ UNCHANGED <<held, actor, srv, windows, proc, known, ready, sup, closing, row, pids,
                   docVars, editorVars, ask>>
StartSucceeds(e) == StartEnds(e, "started", "Started")
StartFails(e) == StartEnds(e, "failed", "StartFailed")

\* Mutated: only a change of is_ready is reported.
SupervisorReportsTheBit(e) ==
    /\ sup[e].state = "watch" /\ held /\ Holds(e) /\ e \notin known
    /\ sup[e].last = Loading /\ ready[e] # Loading
    /\ sup' = [sup EXCEPT ![e].last = ready[e]]
    /\ Tell(About("Readiness", e))
    /\ UNCHANGED <<held, actor, srv, windows, attempt, proc, known, ready, closing, row, pids,
                   docVars, editorVars, ask>>

\* spawn_supervisor: it ends with the client or the handles, or reports a death, or a change.
SupervisorReports(e) ==
    /\ sup[e].state = "watch" /\ held /\ Holds(e) /\ e \notin known
    /\ ready[e] # sup[e].last
    /\ sup' = [sup EXCEPT ![e].last = ready[e]]
    /\ Tell(About("Readiness", e))
    /\ UNCHANGED <<held, actor, srv, windows, attempt, proc, known, ready, closing, row, pids,
                   docVars, editorVars, ask>>

\* Mutated: it ends as if the client had been dropped.
SupervisorEndsSilently(e) ==
    /\ sup[e].state = "watch"
    /\ ~held \/ ~Holds(e) \/ e \in known
    /\ sup' = [sup EXCEPT ![e].state = "end"]
    /\ UNCHANGED <<held, mail, actor, srv, windows, attempt, proc, known, ready, closing, row,
                   pids, docVars, editorVars, ask>>

SupervisorEnds(e) ==
    /\ sup[e].state = "watch"
    /\ ~held \/ ~Holds(e) \/ e \in known
    /\ sup' = [sup EXCEPT ![e].state = "end"]
    /\ IF held /\ Holds(e) THEN Tell(About("Died", e)) ELSE UNCHANGED mail
    /\ UNCHANGED <<held, actor, srv, windows, attempt, proc, known, ready, closing, row, pids,
                   docVars, editorVars, ask>>

\* A request's task writes its frame behind whatever the server has been told by then.
TaskAsks(r) ==
    /\ ask[r].state = "spawned" /\ ask[r].epoch \notin known
    /\ ask' = [ask EXCEPT ![r].state = "asked", ![r].served = view[ask[r].epoch][ask[r].doc].text]
    /\ UNCHANGED <<held, mail, actor, serverVars, row, pids, docVars, editorVars>>

\* Its end: an answer of a running server, or a missing capability, a death or a deadline.
TaskEnds(r) ==
    /\ \/ /\ ask[r].state = "asked" /\ proc[ask[r].epoch] = "running"
          /\ ask' = Resolved(r, "Ready")
       \/ /\ ask[r].state \in {"spawned", "asked"}
          /\ ask' = Resolved(r, "Failed")
    /\ UNCHANGED <<held, mail, actor, serverVars, row, pids, docVars, editorVars>>

ServerPrimes(e) ==
    /\ attempt[e] = "started" /\ proc[e] = "running"
    /\ \/ ready[e] = Loading /\ \E to \in {Caveat, Ready} : ready' = [ready EXCEPT ![e] = to]
       \/ ready[e] = Caveat /\ ready' = [ready EXCEPT ![e] = Ready]
    /\ UNCHANGED <<held, mail, actor, srv, windows, attempt, proc, known, sup, closing, row,
                   pids, docVars, editorVars, ask>>

ProcessExits(e) ==
    /\ proc[e] = "running"
    /\ proc' = [proc EXCEPT ![e] = "exited"]
    /\ UNCHANGED <<held, mail, actor, srv, windows, attempt, known, ready, sup, closing, row,
                   pids, docVars, editorVars, ask>>

\* publish_death: the exit, or a stream that can no longer be used.
DeathPublished(e) ==
    /\ proc[e] # "none" /\ e \notin known
    /\ known' = known \cup {e}
    /\ UNCHANGED <<held, mail, actor, srv, windows, attempt, proc, ready, sup, closing, row,
                   pids, docVars, editorVars, ask>>

WindowPasses ==
    /\ srv.recent /\ windows < MaxWindows
    /\ srv' = [srv EXCEPT !.recent = FALSE]
    /\ windows' = windows + 1
    /\ UNCHANGED <<held, mail, actor, attempt, proc, known, ready, sup, closing, row, pids,
                   docVars, editorVars, ask>>

-----------------------------------------------------------------------------
Editor == \E d \in Docs : EditorOpens(d) \/ EditorTypes(d) \/ EditorCloses(d)
Actor ==
    \/ OnOpen \/ OnChange \/ OnClose
    \/ OnAskUnready \/ OnAskUnreadable \/ OnAsk
    \/ OnStarted \/ OnStartFailed \/ OnDied \/ OnReadiness
    \/ TearDown
Supervisor(e) == SupervisorReports(e) \/ SupervisorEnds(e)
Start(e) == StartSucceeds(e) \/ StartFails(e)
Task(r) == TaskAsks(r) \/ TaskEnds(r)
Environment(e) == ServerPrimes(e) \/ ProcessExits(e) \/ DeathPublished(e)

Next ==
    \/ Editor
    \/ \E r \in Asks, k \in Kinds, d \in Docs : Asking(r, k, d)
    \/ RequestTeardown \/ DropHandles
    \/ Actor
    \/ \E e \in Epochs : Start(e) \/ Supervisor(e) \/ Environment(e)
    \/ \E r \in Asks : Task(r)
    \/ WindowPasses

Spec == Init /\ [][Next]_vars

\* The runtime polls the actor and every task; Client::start and a request have deadlines.  What
\* LspTransport shows of a process: its exit is published, and one that is lost, shut down or
\* held by nobody ends.
Doomed(e) ==
    \/ e \in known \cup closing
    \/ attempt[e] = "failed"
    \/ attempt[e] = "started" /\ ~Holds(e)

Fairness ==
    /\ WF_vars(Actor)
    /\ \A e \in Epochs :
          /\ WF_vars(Start(e))
          /\ WF_vars(Supervisor(e))
          /\ WF_vars(Doomed(e) /\ ProcessExits(e))
          /\ WF_vars(proc[e] = "exited" /\ DeathPublished(e))
    /\ \A r \in Asks : WF_vars(Task(r))

FairSpec == Spec /\ Fairness

-----------------------------------------------------------------------------
(* Properties                                                              *)

\* The types of the variables; the mirror's versions are below their high-water marks.
TypeOK ==
    /\ held \in BOOLEAN /\ actor \in {"run", "gone"}
    /\ srv.state \in {"Idle", "Starting", "Up", "Failed", "Unavailable"}
    /\ srv.epoch \in {0} \cup Epochs /\ srv.recent \in BOOLEAN
    /\ windows \in 0..MaxWindows
    /\ attempt \in [Epochs -> {"none", "starting", "failed", "started"}]
    /\ proc \in [Epochs -> {"none", "running", "exited"}]
    /\ known \subseteq Epochs /\ closing \subseteq Epochs /\ pids \subseteq Epochs
    /\ ready \in [Epochs -> {Loading, Caveat, Ready}]
    /\ row \in {"none", "Starting", "Failed", "Unavailable", Loading, Caveat, Ready}
    /\ \A d \in Docs : /\ mirror[d].text \in Stamps /\ editor[d] \in Stamps
                      /\ high[d] \in Nat /\ mirror[d].version \in 0..high[d]
    /\ \A i \in DOMAIN mail : mail[i].kind \in
          {"Open", "Change", "Close", "Ask", "Teardown", "Started", "StartFailed", "Died",
           "Readiness"}

\* A server that is up and not known to be dead has been told exactly what the mirror holds:
\* the same documents, in the same text and version, through every start, restart and close.
ServerHoldsTheBuffers ==
    actor = "run" /\ LiveClient =>
        \A d \in Docs : /\ view[srv.epoch][d].text = mirror[d].text
                        /\ view[srv.epoch][d].version = mirror[d].version
                        /\ mirror[d].told = (mirror[d].text # 0)

\* No process is ever sent a version of a document that is not above all it was sent before,
\* also after the document was closed and opened again: it would drop the edit without a word.
VersionsOnlyGrow ==
    [][\A e \in Epochs, d \in Docs :
          view'[e][d] # view[e][d] /\ view'[e][d] # Closed
              => view'[e][d].version > sent[e][d]]_vars

\* A request about a buffer its caller had open is never asked about an older text: it is
\* asked about the text its caller saw, or the editor has changed or closed that since, and then
\* about a later one (session.rs 75-86: "stale by at most the keystrokes typed after asking").
AskedAboutTheCallersText ==
    \A r \in Asks : ask[r].state = "asked" /\ ask[r].text # 0 =>
        \/ ask[r].served = ask[r].text
        \/ /\ editor[ask[r].doc] # ask[r].text
           /\ ask[r].served = 0 \/ ask[r].served > ask[r].text

\* One session never has two servers of a language at work, and a language that keeps dying is
\* given at most one more in each restart window.
OneServerAtATime ==
    /\ Cardinality({e \in Epochs : proc[e] = "running" /\ e \notin known
                                   /\ attempt[e] \in {"starting", "started"}}) <= 1
    /\ srv.epoch <= 2 + windows

\* What a server's tasks report is about the server the session has: the epoch comparison of the
\* handlers, which discards anything else, never has to.
ReportsAreCurrent ==
    \A i \in DOMAIN mail :
        mail[i].kind \in {"Started", "StartFailed", "Died", "Readiness"}
            => mail[i].epoch = srv.epoch

\* Every request is answered, whatever dies or is torn down meanwhile.
EveryAskIsAnswered == \A r \in Asks : ask[r].state = "mailed" ~> ask[r].state = "done"

\* A server that died does not stay "up": it is replaced, or reported failed.
DeathIsNoticed ==
    \A e \in Epochs : (srv.state = "Up" /\ srv.epoch = e /\ e \in known)
                          ~> (srv.state # "Up" \/ srv.epoch # e \/ actor = "gone")

\* The status row follows the readiness of a live server to its last change.
StatusCatchesUp ==
    \A e \in Epochs : (srv.state = "Up" /\ srv.epoch = e /\ ready[e] = Ready)
                          ~> (row = Ready \/ e \in known \/ srv.epoch # e \/ actor = "gone"
                              \/ ~held)

\* When the session is gone, so are its servers in the end, those still starting too.
NoServerOutlivesTheSession ==
    actor = "gone" ~> \A e \in Epochs : proc[e] # "running"

\* The snapshot a rename decides by holds no file but those the editor has opened.
RenameKnowsTheEditorsBuffers == \A r \in Asks : ask[r].open \subseteq touched

=============================================================================
