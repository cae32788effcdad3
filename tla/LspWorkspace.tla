----------------------------- MODULE LspWorkspace -----------------------------
(***************************************************************************)
(* The open workspaces, the one that is active, and the language-server    *)
(* session of each: AppState and WorkspaceSlot (src-tauri/src/state.rs),   *)
(* ensure_session, the restart and the document commands                   *)
(* (commands/lsp.rs), and the workspace commands (commands/workspace.rs).  *)
(*                                                                         *)
(* Commands run concurrently; each is a call with a program counter, whose *)
(* steps are its visits to the locks of AppState.  What a visit reads of   *)
(* the active slot it reads in one step: active_slot clones the slot out   *)
(* of the map, and a slot that is closed before it is read next has either *)
(* the handle it had or none.  A slot is named by the workspace, or by the *)
(* call, that opened it; a session by the call and the attempt that        *)
(* started it.                                                             *)
(***************************************************************************)
EXTENDS Naturals, FiniteSets

CONSTANTS
    Roots,       \* the workspaces there are; the root is a workspace's identity
    Calls,       \* the commands
    Kinds,       \* what they are: a subset of CallKinds
    Attempts,    \* START_ATTEMPTS
    None         \* no workspace, slot or session

CallKinds == {"openDocument", "restart", "open", "close", "activate"}
ASSUME KindsAssumption == Kinds \subseteq CallKinds
ASSUME AttemptsAssumption == Attempts \in Nat \ {0}
ASSUME NoneAssumption == None \notin Roots \cup Calls /\ Roots \cap Calls = {}

Slots == Roots \cup Calls
Sessions == Calls \X (1..Attempts)

VARIABLES
    map,       \* AppState::workspaces: the slot of every open workspace
    active,    \* AppState::active
    slots,     \* WorkspaceSlot: its root, lsp_generation and published session
    sess,      \* per session, its root, whether it has been told to end, its mirror
    buffers,   \* the workspaces with the document open in an editor
    calls      \* the commands and what each holds

vars == <<map, active, slots, sess, buffers, calls>>

Unused == [root |-> None, gen |-> 0, lsp |-> None]
Fresh(w) == [Unused EXCEPT !.root = w]
NotStarted == [root |-> None, state |-> "none", mirror |-> FALSE]
HoldsNothing(pc, answer) == [pc |-> pc, kind |-> "none", root |-> None, slot |-> None, gen |-> 0,
                             tries |-> 1, session |-> None, answer |-> answer]

\* One workspace is open and in front, its session not yet asked for; the others are not open.
Init ==
    /\ active \in Roots
    /\ map = [w \in Roots |-> IF w = active THEN w ELSE None]
    /\ slots = [i \in Slots |-> IF i = active THEN Fresh(i) ELSE Unused]
    /\ sess = [s \in Sessions |-> NotStarted]
    /\ buffers = {}
    /\ calls = [c \in Calls |-> HoldsNothing("idle", "none")]

At(c, pc) == calls[c].pc = pc
Goes(c, pc) == calls' = [calls EXCEPT ![c].pc = pc]
Ends(c, answer) == calls' = [calls EXCEPT ![c] = HoldsNothing("done", answer)]

\* active_slot: the pointer may name a workspace that has just been closed.
ActiveSlot == IF active = None THEN None ELSE map[active]
\* AppState::lsp
ActiveSession == IF ActiveSlot = None THEN None ELSE slots[ActiveSlot].lsp

\* LspHandle::request_teardown, of a session that may not be there.
Told(s) == IF s = None THEN sess ELSE [sess EXCEPT ![s].state = "told"]

-----------------------------------------------------------------------------
(* ensure_session                                                          *)

Serves(c, s) == calls' = [calls EXCEPT ![c].pc = "serve", ![c].session = s, ![c].root = None]

\* The session there is, or the workspace to start one for.
Look(c) ==
    /\ At(c, "look")
    /\ IF ActiveSession # None THEN Serves(c, ActiveSession)
       ELSE calls' = [calls EXCEPT ![c].pc = "scope", ![c].root = None]
    /\ UNCHANGED <<map, active, slots, sess, buffers>>

Scope(c) ==
    /\ At(c, "scope")
    /\ IF ActiveSlot = None THEN Ends(c, "NoWorkspace")
       ELSE calls' = [calls EXCEPT ![c].pc = "claim", ![c].root = slots[ActiveSlot].root]
    /\ UNCHANGED <<map, active, slots, sess, buffers>>

\* begin_lsp_session takes a generation of whatever slot is active by now, and session::start
\* makes a session that nobody else has yet.
Claim(c) ==
    /\ At(c, "claim")
    /\ LET i == ActiveSlot
           g == IF i = None THEN 0 ELSE slots[i].gen + 1
           s == <<c, calls[c].tries>>
       IN /\ slots' = IF i = None THEN slots ELSE [slots EXCEPT ![i].gen = g]
          /\ sess' = [sess EXCEPT ![s] = [NotStarted EXCEPT !.root = calls[c].root,
                                                             !.state = "running"]]
          /\ calls' = [calls EXCEPT ![c].pc = "admit", ![c].gen = g, ![c].session = s]
    /\ UNCHANGED <<map, active, buffers>>

\* A refused session is torn down, and its starter looks again, or for the last time.
Refused(c) ==
    LET again == calls[c].tries < Attempts IN
    /\ sess' = Told(calls[c].session)
    /\ calls' = [calls EXCEPT ![c].pc = IF again THEN "look" ELSE "confirm",
                              ![c].tries = IF again THEN @ + 1 ELSE @, ![c].gen = 0,
                              ![c].session = None, ![c].slot = None]

\* Mutated: a generation is taken for a proof of the workspace.
AdmitByGeneration(c) ==
    /\ At(c, "admit")
    /\ IF ActiveSlot # None /\ slots[ActiveSlot].gen = calls[c].gen
       THEN calls' = [calls EXCEPT ![c].pc = "publish", ![c].slot = ActiveSlot] /\ UNCHANGED sess
       ELSE Refused(c)
    /\ UNCHANGED <<map, active, slots, buffers>>

\* record_lsp_session: the active workspace is the session's own and its claim the newest ...
Admit(c) ==
    /\ At(c, "admit")
    /\ IF /\ ActiveSlot # None
          /\ slots[ActiveSlot].root = calls[c].root
          /\ slots[ActiveSlot].gen = calls[c].gen
       THEN calls' = [calls EXCEPT ![c].pc = "publish", ![c].slot = ActiveSlot] /\ UNCHANGED sess
       ELSE Refused(c)
    /\ UNCHANGED <<map, active, slots, buffers>>

\* ... and, under the lock of the slot that was read above, nobody was faster.
Publish(c) ==
    /\ At(c, "publish")
    /\ IF slots[calls[c].slot].lsp = None
       THEN /\ slots' = [slots EXCEPT ![calls[c].slot].lsp = calls[c].session]
            /\ calls' = [calls EXCEPT ![c].pc = "confirm", ![c].gen = 0,
                                      ![c].session = None, ![c].slot = None]
            /\ UNCHANGED sess
       ELSE Refused(c) /\ UNCHANGED slots
    /\ UNCHANGED <<map, active, buffers>>

\* The handle is read back, or after the last refusal whatever there is.
Confirm(c) ==
    /\ At(c, "confirm")
    /\ IF ActiveSession # None THEN Serves(c, ActiveSession) ELSE Ends(c, "Gone")
    /\ UNCHANGED <<map, active, slots, sess, buffers>>

\* The command's own work; a session that has been told to end ignores it.
Serve(c) ==
    /\ At(c, "serve")
    /\ LET s == calls[c].session IN
       sess' = IF calls[c].kind = "openDocument" /\ sess[s].state = "running"
               THEN [sess EXCEPT ![s].mirror = TRUE] ELSE sess
    /\ Ends(c, "Served")
    /\ UNCHANGED <<map, active, slots, buffers>>

-----------------------------------------------------------------------------
(* The commands of the language server and of the workspaces               *)

\* lsp_open_document, of the editor of the active workspace; the other commands that ask a
\* session for something come by it in the same way.
OpenDocument(c) ==
    /\ At(c, "idle") /\ "openDocument" \in Kinds /\ ActiveSlot # None
    /\ calls' = [calls EXCEPT ![c].pc = "look", ![c].kind = "openDocument"]
    /\ buffers' = buffers \cup {active}
    /\ UNCHANGED <<map, active, slots, sess>>

\* Mutated: the handle is dropped and the session left to end when nobody holds it.
RestartQuietly(c) ==
    /\ At(c, "idle") /\ "restart" \in Kinds
    /\ slots' = IF ActiveSlot = None THEN slots ELSE [slots EXCEPT ![ActiveSlot].lsp = None]
    /\ calls' = [calls EXCEPT ![c].pc = "look", ![c].kind = "restart"]
    /\ UNCHANGED <<map, active, sess, buffers>>

\* lsp_restart: the session of the active slot is taken and torn down, then ensured.
Restart(c) ==
    /\ At(c, "idle") /\ "restart" \in Kinds
    /\ sess' = Told(ActiveSession)
    /\ slots' = IF ActiveSlot = None THEN slots ELSE [slots EXCEPT ![ActiveSlot].lsp = None]
    /\ calls' = [calls EXCEPT ![c].pc = "look", ![c].kind = "restart"]
    /\ UNCHANGED <<map, active, buffers>>

\* open_workspace: set_workspace inserts a slot, or refreshes the one there is ...
Open(c, w) ==
    /\ At(c, "idle") /\ "open" \in Kinds
    /\ IF map[w] = None
       THEN map' = [map EXCEPT ![w] = c] /\ slots' = [slots EXCEPT ![c] = Fresh(w)]
       ELSE UNCHANGED <<map, slots>>
    /\ calls' = [calls EXCEPT ![c].pc = "point", ![c].kind = "open", ![c].root = w]
    /\ UNCHANGED <<active, sess, buffers>>

\* set_active looks the workspace up ...
Activate(c, w) ==
    /\ At(c, "idle") /\ "activate" \in Kinds
    /\ IF map[w] = None THEN Ends(c, "NotOpen")
       ELSE calls' = [calls EXCEPT ![c].pc = "point", ![c].kind = "activate", ![c].root = w]
    /\ UNCHANGED <<map, active, slots, sess, buffers>>

\* ... and both set the pointer under the other lock; an open then starts the session.
Point(c) ==
    /\ At(c, "point")
    /\ active' = calls[c].root
    /\ IF calls[c].kind = "open" THEN Goes(c, "look") ELSE Ends(c, "Active")
    /\ UNCHANGED <<map, slots, sess, buffers>>

\* close_workspace: the slot leaves the map, the pointer moves on, the session is torn down.
Close(c, w) ==
    /\ At(c, "idle") /\ "close" \in Kinds
    /\ map' = [map EXCEPT ![w] = None]
    /\ calls' = [calls EXCEPT ![c].pc = "repoint", ![c].kind = "close", ![c].root = w,
                              ![c].slot = map[w]]
    /\ UNCHANGED <<active, slots, sess, buffers>>

Repoint(c) ==
    /\ At(c, "repoint")
    /\ LET rest == {w \in Roots : map[w] # None} IN
       active' \in IF active # calls[c].root THEN {active}
                   ELSE IF rest = {} THEN {None} ELSE rest
    /\ Goes(c, "takeDown")
    /\ UNCHANGED <<map, slots, sess, buffers>>

TakeDown(c) ==
    /\ At(c, "takeDown")
    /\ LET i == calls[c].slot IN
       IF i = None THEN UNCHANGED <<slots, sess>>
       ELSE /\ sess' = Told(slots[i].lsp)
            /\ slots' = [slots EXCEPT ![i].lsp = None]
    /\ buffers' = buffers \ {calls[c].root}
    /\ Ends(c, "Closed")
    /\ UNCHANGED <<map, active>>

-----------------------------------------------------------------------------
Next ==
    \/ \E c \in Calls :
          \/ Look(c) \/ Scope(c) \/ Claim(c) \/ Admit(c) \/ Publish(c) \/ Confirm(c) \/ Serve(c)
          \/ OpenDocument(c) \/ Restart(c) \/ Point(c) \/ Repoint(c) \/ TakeDown(c)
    \/ \E c \in Calls, w \in Roots : Open(c, w) \/ Activate(c, w) \/ Close(c, w)

Spec == Init /\ [][Next]_vars

-----------------------------------------------------------------------------
(* Properties                                                              *)

Slot == [root : Roots \cup {None}, gen : Nat, lsp : Sessions \cup {None}]
Session == [root : Roots \cup {None}, state : {"none", "running", "told"}, mirror : BOOLEAN]
Call == [
    pc : {"idle", "look", "scope", "claim", "admit", "publish", "confirm", "serve",
          "point", "repoint", "takeDown", "done"},
    kind : CallKinds \cup {"none"}, root : Roots \cup {None}, slot : Slots \cup {None},
    gen : Nat, tries : 1..Attempts, session : Sessions \cup {None},
    answer : {"none", "Served", "Gone", "NoWorkspace", "NotOpen", "Active", "Closed"}]

\* The types of the variables; a call never makes more attempts than there are.
TypeOK ==
    /\ map \in [Roots -> Slots \cup {None}]
    /\ active \in Roots \cup {None}
    /\ slots \in [Slots -> Slot]
    /\ sess \in [Sessions -> Session]
    /\ buffers \subseteq Roots
    /\ calls \in [Calls -> Call]

\* A workspace is never served by a session of another, however the tabs are switched while it
\* starts: record_lsp_session compares the roots for a session whose generation may well fit.
ServedByItsOwnWorkspace ==
    \A i \in Slots : slots[i].lsp # None => sess[slots[i].lsp].root = slots[i].root

\* The sessions somebody can still ask: published for an open workspace, or for one that is
\* being closed, or not yet handed in by the call that starts it.
Current(s) ==
    \/ \E w \in Roots : map[w] # None /\ slots[map[w]].lsp = s
    \/ \E c \in Calls : /\ calls[c].pc \in {"repoint", "takeDown"} /\ calls[c].slot # None
                        /\ slots[calls[c].slot].lsp = s
    \/ \E c \in Calls : calls[c].pc \in {"admit", "publish"} /\ calls[c].session = s

\* A session that no workspace has any more, while some command still holds its handle, has been
\* told to end: its server does not run on behind the one that replaced it.
RetiredSessionsAreTornDown ==
    \A c \in Calls : LET s == calls[c].session IN
        s # None /\ sess[s].state = "running" => Current(s)

\* "Gone" is only reported when there is no session and no workspace to start one for.
GoneMeansGone ==
    [][\A c \in Calls : calls'[c].answer = "Gone" /\ calls[c].answer # "Gone"
                            => ActiveSlot = None]_vars

\* The session of a workspace whose commands have all returned holds the document its editor
\* has open, also after a restart.
RestartReplaysTheBuffers ==
    (\A c \in Calls : calls[c].pc \in {"idle", "done"})
        => \A w \in buffers :
              map[w] # None /\ slots[map[w]].lsp # None => sess[slots[map[w]].lsp].mirror

===============================================================================
