------------------------- MODULE LspWorkspaceProofs -------------------------
(***************************************************************************)
(* Theorems about LspWorkspace, for any workspaces, commands and number of *)
(* attempts: the types of its variables, that a workspace is served by a   *)
(* session of its own, and that a session which was replaced is told to    *)
(* end.                                                                    *)
(***************************************************************************)
EXTENDS LspWorkspace, TLAPS

-----------------------------------------------------------------------------
(* Types                                                                   *)

LEMMA InitTypeOK == Init => TypeOK
<1> SUFFICES ASSUME Init PROVE TypeOK
  OBVIOUS
<1>1. 1 \in 1..Attempts
  BY AttemptsAssumption
<1>2. HoldsNothing("idle", "none") \in Call
  BY <1>1 DEF HoldsNothing, Call
<1>3. calls \in [Calls -> Call]
  BY <1>2 DEF Init
<1>4. \A w \in Roots : Fresh(w) \in Slot /\ Unused \in Slot
  BY DEF Fresh, Unused, Slot
<1>5. slots \in [Slots -> Slot]
  BY <1>4 DEF Init
<1>6. NotStarted \in Session
  BY DEF NotStarted, Session
<1>7. sess \in [Sessions -> Session]
  BY <1>6 DEF Init
<1>8. map \in [Roots -> Slots \cup {None}] /\ active \in Roots \cup {None} /\ buffers \subseteq Roots
  BY DEF Init, Slots
<1> QED
  BY <1>3, <1>5, <1>7, <1>8 DEF TypeOK

\* The active slot is one there is, or none, and so is its session.
LEMMA ActiveTypes ==
    ASSUME TypeOK
    PROVE  ActiveSlot \in Slots \cup {None} /\ ActiveSession \in Sessions \cup {None}
<1>1. ActiveSlot \in Slots \cup {None}
  BY DEF TypeOK, ActiveSlot
<1> QED
  BY <1>1 DEF TypeOK, ActiveSession, Slot

\* A session that is told to end keeps its root.
SameRoots == \A s \in Sessions : sess'[s].root = sess[s].root

LEMMA ToldType ==
    ASSUME TypeOK, NEW s, sess' = Told(s)
    PROVE  sess' \in [Sessions -> Session] /\ SameRoots
<1>1. CASE s = None
  BY <1>1 DEF TypeOK, Told, SameRoots
<1>2. CASE s # None
  <2>1. \A x \in Sessions : [sess[x] EXCEPT !.state = "told"] \in Session
    BY DEF TypeOK, Session
  <2>2. \A x \in Sessions : [sess[x] EXCEPT !.state = "told"].root = sess[x].root
    BY DEF TypeOK, Session
  <2> QED
    BY <1>2, <2>1, <2>2 DEF TypeOK, Told, SameRoots
<1> QED
  BY <1>1, <1>2

\* A slot that gives up its session, or counts a claim, keeps its root.
SlotsKept ==
    \A i \in Slots : /\ slots'[i].root = slots[i].root
                     /\ slots'[i].lsp \in {slots[i].lsp, None}

LEMMA SlotGivesUp ==
    ASSUME TypeOK, NEW i, slots' = [slots EXCEPT ![i].lsp = None]
    PROVE  slots' \in [Slots -> Slot] /\ SlotsKept
<1>1. \A x \in Slots : [slots[x] EXCEPT !.lsp = None] \in Slot
  BY DEF TypeOK, Slot
<1>2. \A x \in Slots : /\ [slots[x] EXCEPT !.lsp = None].root = slots[x].root
                       /\ [slots[x] EXCEPT !.lsp = None].lsp = None
  BY DEF TypeOK, Slot
<1> QED
  BY <1>1, <1>2 DEF TypeOK, SlotsKept

-----------------------------------------------------------------------------
(* Steps that neither start a session nor hand one in                      *)

\* The places from which a call may still start a session.
Early == {"idle", "look", "scope", "claim", "point"}

\* Call c becomes v.
Becomes(c, v) == v \in Call /\ calls' = [calls EXCEPT ![c] = v]

\* It starts its next session, if it does, under a number it has not used.
Renews(c, v) ==
    v.pc \in Early => \/ calls[c].pc \in Early /\ v.tries >= calls[c].tries
                      \/ calls[c].pc \in {"admit", "publish"} /\ v.tries > calls[c].tries

Passes(c) == \E v : Becomes(c, v) /\ v.pc \notin {"idle", "admit", "publish"} /\ Renews(c, v)

LEMMA PassesType == ASSUME TypeOK, NEW c \in Calls, Passes(c) PROVE calls' \in [Calls -> Call]
BY DEF TypeOK, Passes, Becomes

LEMMA EndsPasses ==
    ASSUME TypeOK, NEW c \in Calls,
           NEW a \in {"none", "Served", "Gone", "NoWorkspace", "NotOpen", "Active", "Closed"},
           Ends(c, a)
    PROVE  Passes(c)
<1>1. 1 \in 1..Attempts
  BY AttemptsAssumption
<1>2. HoldsNothing("done", a) \in Call /\ HoldsNothing("done", a).pc = "done"
  BY <1>1 DEF HoldsNothing, Call
<1> QED
  BY <1>2 DEF Ends, Passes, Becomes, Renews, Early

LEMMA EarlyPasses ==
    ASSUME TypeOK, NEW c \in Calls, NEW v \in Call, calls' = [calls EXCEPT ![c] = v],
           calls[c].pc \in Early, v.pc \notin {"idle", "admit", "publish"},
           v.tries = calls[c].tries
    PROVE  Passes(c)
<1>1. calls[c].tries \in Nat
  BY AttemptsAssumption DEF TypeOK, Call
<1>2. v.tries >= calls[c].tries
  BY <1>1
<1>3. Becomes(c, v) /\ Renews(c, v)
  BY <1>2 DEF Becomes, Renews
<1> QED
  BY <1>3 DEF Passes

LEMMA GoesPasses ==
    ASSUME TypeOK, NEW c \in Calls, NEW pc \in {"look", "takeDown"}, Goes(c, pc),
           pc = "look" => calls[c].pc \in Early
    PROVE  Passes(c)
<1> DEFINE v == [calls[c] EXCEPT !.pc = pc]
<1>1. v \in Call /\ v.pc = pc /\ v.tries = calls[c].tries /\ calls[c].tries \in Nat
  BY DEF TypeOK, Call
<1>2. calls' = [calls EXCEPT ![c] = v]
  BY DEF Goes
<1>3. Becomes(c, v) /\ Renews(c, v)
  BY <1>1, <1>2 DEF Becomes, Renews, Early
<1> QED
  BY <1>1, <1>3 DEF Passes

LEMMA ServesPasses ==
    ASSUME TypeOK, NEW c \in Calls, ActiveSession # None, Serves(c, ActiveSession)
    PROVE  Passes(c)
<1> DEFINE v == [calls[c] EXCEPT !.pc = "serve", !.session = ActiveSession, !.root = None]
<1>0. calls[c] \in Call
  BY DEF TypeOK
<1>1. v \in Call
  BY <1>0, ActiveTypes DEF Call
<1>2. v.pc = "serve"
  BY <1>0 DEF Call
<1>3. calls' = [calls EXCEPT ![c] = v]
  BY DEF Serves, TypeOK
<1> QED
  BY <1>1, <1>2, <1>3 DEF Passes, Becomes, Renews, Early

LEMMA RefusedPasses ==
    ASSUME TypeOK, NEW c \in Calls, calls[c].pc \in {"admit", "publish"}, Refused(c)
    PROVE  Passes(c)
<1> DEFINE again == calls[c].tries < Attempts
           pc == IF again THEN "look" ELSE "confirm"
           n == IF again THEN calls[c].tries + 1 ELSE calls[c].tries
           v == [calls[c] EXCEPT !.pc = pc, !.tries = n, !.gen = 0, !.session = None,
                                 !.slot = None]
<1>0. calls[c] \in Call /\ calls[c].tries \in 1..Attempts /\ Attempts \in Nat
  BY AttemptsAssumption DEF TypeOK, Call
<1>1. n \in 1..Attempts /\ (again => n > calls[c].tries)
  BY <1>0
<1>2. pc \in {"look", "confirm"} /\ (pc = "look" => again)
  OBVIOUS
<1> HIDE DEF pc, n
<1>3. v \in Call
  BY <1>0, <1>1, <1>2, Zenon DEF Call
<1>4. v.pc = pc /\ v.tries = n
  BY <1>0 DEF Call
<1>5. calls' = [calls EXCEPT ![c] = v]
  BY DEF Refused, TypeOK, pc, n
<1>6. Becomes(c, v)
  BY <1>3, <1>5 DEF Becomes
<1>7. Renews(c, v) /\ v.pc \notin {"idle", "admit", "publish"}
  BY <1>1, <1>2, <1>4 DEF Renews, Early
<1> QED
  BY <1>6, <1>7 DEF Passes

\* Such a step starts no session, publishes none and opens no workspace.
Quietly(c) ==
    /\ Passes(c)
    /\ sess' \in [Sessions -> Session] /\ SameRoots
    /\ slots' \in [Slots -> Slot] /\ SlotsKept
    /\ map' \in [Roots -> Slots \cup {None}] /\ \A w \in Roots : map'[w] \in {map[w], None}
    /\ active' \in Roots \cup {None} /\ buffers' \subseteq Roots

LEMMA QuietlyTyped == ASSUME TypeOK, NEW c \in Calls, Quietly(c) PROVE TypeOK'
BY PassesType DEF TypeOK, Quietly

\* What an action leaves alone.
LEMMA SameSessions == ASSUME TypeOK, UNCHANGED sess PROVE sess' \in [Sessions -> Session] /\ SameRoots
BY DEF TypeOK, SameRoots
LEMMA SameSlots == ASSUME TypeOK, UNCHANGED slots PROVE slots' \in [Slots -> Slot] /\ SlotsKept
BY DEF TypeOK, SlotsKept
LEMMA SameMap ==
    ASSUME TypeOK, UNCHANGED map
    PROVE  /\ map' \in [Roots -> Slots \cup {None}]
           /\ \A w \in Roots : map'[w] \in {map[w], None}
BY DEF TypeOK
LEMMA SameTabs ==
    ASSUME TypeOK, UNCHANGED <<active, buffers>>
    PROVE  active' \in Roots \cup {None} /\ buffers' \subseteq Roots
BY DEF TypeOK

LEMMA LookQuietly == ASSUME TypeOK, NEW c \in Calls, Look(c) PROVE Quietly(c)
<1>1. Passes(c)
  <2>1. CASE ActiveSession # None
    BY <2>1, ServesPasses DEF Look
  <2>2. CASE ActiveSession = None
    <3> DEFINE v == [calls[c] EXCEPT !.pc = "scope", !.root = None]
    <3>0. calls[c] \in Call
      BY DEF TypeOK
    <3>1. v \in Call
      BY <3>0 DEF Call
    <3>t. v.pc = "scope" /\ v.tries = calls[c].tries
      BY <3>0 DEF Call
    <3>2. calls' = [calls EXCEPT ![c] = v]
      BY <2>2 DEF Look, TypeOK
    <3>3. calls[c].pc = "look"
      BY DEF Look, At
    <3> QED
      BY <3>1, <3>2, <3>3, <3>t, EarlyPasses DEF Early
  <2> QED
    BY <2>1, <2>2
<1> QED
  BY <1>1, SameSessions, SameSlots, SameMap, SameTabs DEF Look, Quietly

LEMMA ScopeQuietly == ASSUME TypeOK, NEW c \in Calls, Scope(c) PROVE Quietly(c)
<1>1. Passes(c)
  <2>1. CASE ActiveSlot = None
    BY <2>1, EndsPasses DEF Scope
  <2>2. CASE ActiveSlot # None
    <3> DEFINE w == slots[ActiveSlot].root
               v == [calls[c] EXCEPT !.pc = "claim", !.root = w]
    <3>1. w \in Roots \cup {None}
      BY <2>2, ActiveTypes DEF TypeOK, Slot
    <3> HIDE DEF w
    <3>0. calls[c] \in Call
      BY DEF TypeOK
    <3>2. v \in Call
      BY <3>0, <3>1 DEF Call
    <3>t. v.pc = "claim" /\ v.tries = calls[c].tries
      BY <3>0 DEF Call
    <3>3. calls' = [calls EXCEPT ![c] = v]
      BY <2>2 DEF Scope, TypeOK, w
    <3>4. calls[c].pc = "scope"
      BY DEF Scope, At
    <3> QED
      BY <3>2, <3>3, <3>4, <3>t, EarlyPasses DEF Early
  <2> QED
    BY <2>1, <2>2
<1> QED
  BY <1>1, SameSessions, SameSlots, SameMap, SameTabs DEF Scope, Quietly

LEMMA ConfirmQuietly == ASSUME TypeOK, NEW c \in Calls, Confirm(c) PROVE Quietly(c)
<1>1. Passes(c)
  BY ServesPasses, EndsPasses DEF Confirm
<1> QED
  BY <1>1, SameSessions, SameSlots, SameMap, SameTabs DEF Confirm, Quietly

LEMMA ServeQuietly == ASSUME TypeOK, NEW c \in Calls, Serve(c) PROVE Quietly(c)
<1>1. Passes(c)
  BY EndsPasses DEF Serve
<1>2. sess' \in [Sessions -> Session] /\ SameRoots
  <2>1. \A x \in Sessions : /\ [sess[x] EXCEPT !.mirror = TRUE] \in Session
                            /\ [sess[x] EXCEPT !.mirror = TRUE].root = sess[x].root
    BY DEF TypeOK, Session
  <2> QED
    BY <2>1 DEF Serve, TypeOK, SameRoots
<1> QED
  BY <1>1, <1>2, SameSlots, SameMap, SameTabs DEF Serve, Quietly

LEMMA OpenDocumentQuietly == ASSUME TypeOK, NEW c \in Calls, OpenDocument(c) PROVE Quietly(c)
<1>1. Passes(c)
  <2> DEFINE v == [calls[c] EXCEPT !.pc = "look", !.kind = "openDocument"]
  <2>0. calls[c] \in Call
    BY DEF TypeOK
  <2>1. v \in Call
    BY <2>0 DEF Call, CallKinds
  <2>t. v.pc = "look" /\ v.tries = calls[c].tries
    BY <2>0 DEF Call
  <2>2. calls' = [calls EXCEPT ![c] = v] /\ calls[c].pc = "idle"
    BY DEF OpenDocument, At, TypeOK
  <2> QED
    BY <2>1, <2>2, <2>t, EarlyPasses DEF Early
<1>2. active' \in Roots \cup {None} /\ buffers' \subseteq Roots
  BY DEF OpenDocument, ActiveSlot, TypeOK
<1> QED
  BY <1>1, <1>2, SameSessions, SameSlots, SameMap DEF OpenDocument, Quietly

LEMMA RestartQuietlySteps == ASSUME TypeOK, NEW c \in Calls, Restart(c) PROVE Quietly(c)
<1>1. Passes(c)
  <2> DEFINE v == [calls[c] EXCEPT !.pc = "look", !.kind = "restart"]
  <2>0. calls[c] \in Call
    BY DEF TypeOK
  <2>1. v \in Call
    BY <2>0 DEF Call, CallKinds
  <2>t. v.pc = "look" /\ v.tries = calls[c].tries
    BY <2>0 DEF Call
  <2>2. calls' = [calls EXCEPT ![c] = v] /\ calls[c].pc = "idle"
    BY DEF Restart, At, TypeOK
  <2> QED
    BY <2>1, <2>2, <2>t, EarlyPasses DEF Early
<1>2. slots' \in [Slots -> Slot] /\ SlotsKept
  BY SlotGivesUp, SameSlots DEF Restart
<1> QED
  BY <1>1, <1>2, ToldType, SameMap, SameTabs DEF Restart, Quietly

\* A place where the pointer is set, by an activation or by an open.
LEMMA PointQuietly == ASSUME TypeOK, NEW c \in Calls, Point(c) PROVE Quietly(c)
<1>1. calls[c].pc = "point" /\ calls[c].root \in Roots \cup {None}
  BY DEF Point, At, TypeOK, Call
<1>2. Passes(c)
  BY <1>1, GoesPasses, EndsPasses DEF Point, Early
<1>3. active' \in Roots \cup {None} /\ buffers' \subseteq Roots
  BY <1>1 DEF Point, TypeOK
<1> QED
  BY <1>2, <1>3, SameSessions, SameSlots, SameMap DEF Point, Quietly

\* A command that names a workspace before it points at it.
LEMMA NamesPasses ==
    ASSUME TypeOK, NEW c \in Calls, NEW w \in Roots, NEW kind \in CallKinds,
           At(c, "idle"),
           calls' = [calls EXCEPT ![c].pc = "point", ![c].kind = kind, ![c].root = w]
    PROVE  Passes(c)
<1> DEFINE v == [calls[c] EXCEPT !.pc = "point", !.kind = kind, !.root = w]
<1>0. calls[c] \in Call
  BY DEF TypeOK
<1>1. v \in Call
  BY <1>0 DEF Call
<1>2. v.pc = "point" /\ v.tries = calls[c].tries
  BY <1>0 DEF Call
<1>3. calls' = [calls EXCEPT ![c] = v] /\ calls[c].pc = "idle"
  BY DEF At, TypeOK
<1> QED
  BY <1>1, <1>2, <1>3, EarlyPasses DEF Early

LEMMA ActivateQuietly ==
    ASSUME TypeOK, NEW c \in Calls, NEW w \in Roots, Activate(c, w)
    PROVE  Quietly(c)
<1>1. Passes(c)
  BY NamesPasses, EndsPasses DEF Activate, CallKinds
<1> QED
  BY <1>1, SameSessions, SameSlots, SameMap, SameTabs DEF Activate, Quietly

LEMMA OpenAgainQuietly ==
    ASSUME TypeOK, NEW c \in Calls, NEW w \in Roots, Open(c, w), map[w] # None
    PROVE  Quietly(c)
<1>1. Passes(c)
  BY NamesPasses DEF Open, CallKinds
<1> QED
  BY <1>1, SameSessions, SameSlots, SameMap, SameTabs DEF Open, Quietly

LEMMA CloseQuietly ==
    ASSUME TypeOK, NEW c \in Calls, NEW w \in Roots, Close(c, w)
    PROVE  Quietly(c)
<1>1. Passes(c)
  <2> DEFINE i == map[w]
             v == [calls[c] EXCEPT !.pc = "repoint", !.kind = "close", !.root = w, !.slot = i]
  <2>0. calls[c] \in Call /\ i \in Slots \cup {None}
    BY DEF TypeOK
  <2> HIDE DEF i
  <2>1. v \in Call
    BY <2>0 DEF Call, CallKinds
  <2>2. v.pc = "repoint"
    BY <2>0 DEF Call
  <2>3. calls' = [calls EXCEPT ![c] = v]
    BY DEF Close, TypeOK, i
  <2> QED
    BY <2>1, <2>2, <2>3 DEF Passes, Becomes, Renews, Early
<1>2. /\ map' \in [Roots -> Slots \cup {None}]
      /\ \A x \in Roots : map'[x] \in {map[x], None}
  BY DEF Close, TypeOK
<1> QED
  BY <1>1, <1>2, SameSessions, SameSlots, SameTabs DEF Close, Quietly

LEMMA RepointQuietly == ASSUME TypeOK, NEW c \in Calls, Repoint(c) PROVE Quietly(c)
<1>1. Passes(c)
  BY GoesPasses DEF Repoint
<1>2. active' \in Roots \cup {None} /\ buffers' \subseteq Roots
  BY DEF Repoint, TypeOK
<1> QED
  BY <1>1, <1>2, SameSessions, SameSlots, SameMap DEF Repoint, Quietly

LEMMA TakeDownQuietly == ASSUME TypeOK, NEW c \in Calls, TakeDown(c) PROVE Quietly(c)
<1>1. Passes(c)
  BY EndsPasses DEF TakeDown
<1>2. /\ sess' \in [Sessions -> Session] /\ SameRoots
      /\ slots' \in [Slots -> Slot] /\ SlotsKept
  <2>1. CASE calls[c].slot = None
    BY <2>1, SameSessions, SameSlots DEF TakeDown
  <2>2. CASE calls[c].slot # None
    BY <2>2, ToldType, SlotGivesUp DEF TakeDown
  <2> QED
    BY <2>1, <2>2
<1>3. active' \in Roots \cup {None} /\ buffers' \subseteq Roots
  BY DEF TakeDown, TypeOK
<1> QED
  BY <1>1, <1>2, <1>3, SameMap DEF TakeDown, Quietly

\* A session that is refused, on the way in or at the slot.
LEMMA RefusedQuietly ==
    ASSUME TypeOK, NEW c \in Calls, calls[c].pc \in {"admit", "publish"}, Refused(c),
           UNCHANGED <<map, active, slots, buffers>>
    PROVE  Quietly(c)
<1>1. sess' = Told(calls[c].session)
  BY DEF Refused
<1> QED
  BY <1>1, RefusedPasses, ToldType, SameSlots, SameMap, SameTabs DEF Quietly

-----------------------------------------------------------------------------
(* The inductive invariant                                                 *)

\* A workspace is filed under its root.
Filed == \A w \in Roots : map[w] # None => slots[map[w]].root = w

\* The slot a command may yet open is not in use.
Unborn == \A c \in Calls : calls[c].pc = "idle" => slots[c].root = None

\* A session that is being handed in is of the workspace its call found, and the slot it has
\* been admitted to is that workspace's.
CarriedBy(c) ==
    /\ calls[c].pc \in {"admit", "publish"} =>
          /\ calls[c].session = <<c, calls[c].tries>>
          /\ sess[calls[c].session].root = calls[c].root
    /\ calls[c].pc = "publish" =>
          /\ calls[c].slot \in Slots /\ calls[c].root \in Roots
          /\ slots[calls[c].slot].root = calls[c].root
Carried == \A c \in Calls : CarriedBy(c)

\* A published session is of its slot's workspace, and is none that its call will start yet.
MintedAt(i, c, n) ==
    slots[i].lsp # None /\ slots[i].lsp = <<c, n>> =>
        /\ sess[<<c, n>>].root = slots[i].root
        /\ calls[c].pc \in Early => n < calls[c].tries
        /\ calls[c].pc \in {"admit", "publish"} => n <= calls[c].tries
Minted == \A i \in Slots, c \in Calls, n \in 1..Attempts : MintedAt(i, c, n)

IInv == TypeOK /\ Filed /\ Unborn /\ Carried /\ Minted

LEMMA InitInvariant == Init => IInv
<1> SUFFICES ASSUME Init PROVE IInv
  OBVIOUS
<1>1. /\ map = [w \in Roots |-> IF w = active THEN w ELSE None] /\ active \in Roots
      /\ \A i \in Slots : slots[i] = IF i = active THEN Fresh(i) ELSE Unused
      /\ \A c \in Calls : calls[c].pc = "idle"
  BY DEF Init, HoldsNothing
<1>0. \A w : Fresh(w).lsp = None /\ Fresh(w).root = w /\ Unused.lsp = None /\ Unused.root = None
  BY DEF Fresh, Unused
<1>2. \A i \in Slots : slots[i].lsp = None /\ slots[i].root = IF i = active THEN i ELSE None
  BY <1>0, <1>1
<1>3. Filed
  BY <1>1, <1>2 DEF Filed, Slots
<1>4. Unborn
  BY <1>1, <1>2, NoneAssumption DEF Unborn, Slots
<1>5. Carried
  BY <1>1 DEF Carried, CarriedBy
<1>6. Minted
  BY <1>2 DEF Minted, MintedAt
<1> QED
  BY <1>3, <1>4, <1>5, <1>6, InitTypeOK DEF IInv

\* The conjuncts about sessions survive a quiet step.
LEMMA QuietStep == ASSUME IInv, NEW c \in Calls, Quietly(c) PROVE IInv'
<1>0. TypeOK /\ Filed /\ Unborn /\ Carried /\ Minted
  BY DEF IInv
<1>1. PICK v : Becomes(c, v) /\ v.pc \notin {"idle", "admit", "publish"} /\ Renews(c, v)
  BY DEF Quietly, Passes
<1>2. /\ calls'[c] = v /\ \A d \in Calls : d # c => calls'[d] = calls[d]
      /\ v \in Call /\ calls[c] \in Call
  BY <1>0, <1>1 DEF Becomes, TypeOK
<1>3. /\ \A i \in Slots : slots'[i].root = slots[i].root /\ slots'[i].lsp \in {slots[i].lsp, None}
      /\ \A x \in Sessions : sess'[x].root = sess[x].root
      /\ \A w \in Roots : map'[w] \in {map[w], None}
  BY DEF Quietly, SlotsKept, SameRoots
<1>4. TypeOK'
  BY <1>0, QuietlyTyped
<1>5. Filed'
  BY <1>0, <1>3 DEF Filed, TypeOK
<1>6. Unborn'
  BY <1>0, <1>1, <1>2, <1>3 DEF Unborn, Slots
<1>7. Carried'
  <2> SUFFICES ASSUME NEW d \in Calls PROVE CarriedBy(d)'
    BY DEF Carried
  <2>1. CASE d = c
    BY <2>1, <1>1, <1>2 DEF CarriedBy
  <2>2. CASE d # c
    <3>1. calls'[d] = calls[d] /\ CarriedBy(d) /\ calls[d].tries \in 1..Attempts
      BY <2>2, <1>0, <1>2 DEF Carried, TypeOK, Call
    <3>2. <<d, calls[d].tries>> \in Sessions
      BY <3>1 DEF Sessions
    <3> QED
      BY <3>1, <3>2, <1>3 DEF CarriedBy
  <2> QED
    BY <2>1, <2>2
<1>8. Minted'
  <2> SUFFICES ASSUME NEW i \in Slots, NEW d \in Calls, NEW n \in 1..Attempts,
                      slots'[i].lsp # None, slots'[i].lsp = <<d, n>>
               PROVE  /\ sess'[<<d, n>>].root = slots'[i].root
                      /\ calls'[d].pc \in Early => n < calls'[d].tries
                      /\ calls'[d].pc \in {"admit", "publish"} => n <= calls'[d].tries
    BY DEF Minted, MintedAt
  <2>1. slots[i].lsp # None /\ slots[i].lsp = <<d, n>>
    BY <1>3
  <2>2. /\ sess[<<d, n>>].root = slots[i].root
        /\ calls[d].pc \in Early => n < calls[d].tries
        /\ calls[d].pc \in {"admit", "publish"} => n <= calls[d].tries
    BY <2>1, <1>0 DEF Minted, MintedAt
  <2>3. sess'[<<d, n>>].root = slots'[i].root
    BY <2>2, <1>3 DEF Sessions
  <2>4. CASE d # c
    BY <2>2, <2>3, <2>4, <1>2
  <2>5. CASE d = c
    <3>1. calls[c].tries \in Nat /\ v.tries \in Nat /\ n \in Nat
      BY <1>2, AttemptsAssumption DEF Call
    <3>2. v.pc \in Early => n < v.tries
      BY <2>2, <2>5, <3>1, <1>1 DEF Renews
    <3> QED
      BY <2>3, <2>5, <3>2, <1>1, <1>2
  <2> QED
    BY <2>4, <2>5
<1> QED
  BY <1>4, <1>5, <1>6, <1>7, <1>8 DEF IInv

-----------------------------------------------------------------------------
(* The steps that start a session, hand it in, and open a workspace        *)

\* A claim counts in the active slot and starts a session under a number no slot holds.
LEMMA ClaimStep == ASSUME IInv, NEW c \in Calls, Claim(c) PROVE IInv'
<1> DEFINE i == ActiveSlot
           t == calls[c].tries
           w == calls[c].root
           s == <<c, t>>
           g == IF i = None THEN 0 ELSE slots[i].gen + 1
           r == [NotStarted EXCEPT !.root = w, !.state = "running"]
           v == [calls[c] EXCEPT !.pc = "admit", !.gen = g, !.session = s]
<1>0. TypeOK /\ Filed /\ Unborn /\ Carried /\ Minted /\ i \in Slots \cup {None}
  BY ActiveTypes DEF IInv
<1>1. /\ calls[c].pc = "claim" /\ calls[c] \in Call /\ t \in 1..Attempts
      /\ w \in Roots \cup {None} /\ s \in Sessions
  BY <1>0 DEF Claim, At, TypeOK, Call, Sessions
<1>2. g \in Nat
  BY <1>0 DEF TypeOK, Slot
<1>3. r \in Session /\ r.root = w
  BY <1>1 DEF NotStarted, Session
<1>4. /\ slots' = IF i = None THEN slots ELSE [slots EXCEPT ![i].gen = g]
      /\ sess' = [sess EXCEPT ![s] = r]
      /\ calls' = [calls EXCEPT ![c] = v]
      /\ UNCHANGED <<map, active, buffers>>
  BY <1>0 DEF Claim, TypeOK
<1> HIDE DEF i, g, r
<1>5. v \in Call
  BY <1>1, <1>2 DEF Call
<1>6. v.pc = "admit" /\ v.session = s /\ v.tries = t /\ v.root = w
  BY <1>1 DEF Call
<1> HIDE DEF s, t, w, v
<1>7. calls'[c] = v /\ \A d \in Calls : d # c => calls'[d] = calls[d]
  BY <1>0, <1>4 DEF TypeOK
<1>8. sess'[s].root = w /\ \A x \in Sessions : x # s => sess'[x] = sess[x]
  BY <1>0, <1>1, <1>3, <1>4 DEF TypeOK
<1>9. /\ slots' \in [Slots -> Slot]
      /\ \A j \in Slots : slots'[j].root = slots[j].root /\ slots'[j].lsp = slots[j].lsp
  <2>1. \A j \in Slots : /\ [slots[j] EXCEPT !.gen = g] \in Slot
                         /\ [slots[j] EXCEPT !.gen = g].root = slots[j].root
                         /\ [slots[j] EXCEPT !.gen = g].lsp = slots[j].lsp
    BY <1>0, <1>2 DEF TypeOK, Slot
  <2> QED
    BY <2>1, <1>0, <1>4 DEF TypeOK
<1>10. TypeOK'
  BY <1>0, <1>3, <1>4, <1>5, <1>9 DEF TypeOK
<1>11. Filed'
  BY <1>0, <1>4, <1>9 DEF Filed, TypeOK
<1>12. Unborn'
  BY <1>0, <1>6, <1>7, <1>9 DEF Unborn, Slots
<1>13. Carried'
  <2> SUFFICES ASSUME NEW d \in Calls PROVE CarriedBy(d)'
    BY DEF Carried
  <2>1. CASE d = c
    <3>1. calls'[d].session = <<d, calls'[d].tries>> /\ calls'[d].pc = "admit"
      BY <2>1, <1>6, <1>7 DEF s
    <3>2. sess'[calls'[d].session].root = calls'[d].root
      BY <2>1, <1>6, <1>7, <1>8
    <3> QED
      BY <3>1, <3>2 DEF CarriedBy
  <2>2. CASE d # c
    <3>1. calls'[d] = calls[d] /\ CarriedBy(d) /\ calls[d].tries \in 1..Attempts
      BY <2>2, <1>0, <1>7 DEF Carried, TypeOK, Call
    <3>2. <<d, calls[d].tries>> \in Sessions /\ <<d, calls[d].tries>> # s
      BY <2>2, <3>1 DEF Sessions, s
    <3> QED
      BY <3>1, <3>2, <1>8, <1>9 DEF CarriedBy
  <2> QED
    BY <2>1, <2>2
<1>14. Minted'
  <2> SUFFICES ASSUME NEW j \in Slots, NEW d \in Calls, NEW n \in 1..Attempts,
                      slots'[j].lsp # None, slots'[j].lsp = <<d, n>>
               PROVE  /\ sess'[<<d, n>>].root = slots'[j].root
                      /\ calls'[d].pc \in Early => n < calls'[d].tries
                      /\ calls'[d].pc \in {"admit", "publish"} => n <= calls'[d].tries
    BY DEF Minted, MintedAt
  <2>1. slots[j].lsp # None /\ slots[j].lsp = <<d, n>>
    BY <1>9
  <2>2. /\ sess[<<d, n>>].root = slots[j].root
        /\ calls[d].pc \in Early => n < calls[d].tries
        /\ calls[d].pc \in {"admit", "publish"} => n <= calls[d].tries
    BY <2>1, <1>0 DEF Minted, MintedAt
  <2>3. CASE d = c
    <3>1. n < t /\ n \in Nat /\ t \in Nat
      BY <2>2, <2>3, <1>1, AttemptsAssumption DEF Early, t
    <3>2. <<d, n>> # s /\ <<d, n>> \in Sessions
      BY <3>1, <2>3 DEF s, Sessions
    <3>3. sess'[<<d, n>>].root = slots'[j].root
      BY <3>2, <2>2, <1>8, <1>9
    <3>4. calls'[d].pc = "admit" /\ n <= calls'[d].tries
      BY <3>1, <2>3, <1>6, <1>7
    <3> QED
      BY <3>3, <3>4 DEF Early
  <2>4. CASE d # c
    <3>1. <<d, n>> # s /\ <<d, n>> \in Sessions
      BY <2>4 DEF s, Sessions
    <3> QED
      BY <3>1, <2>2, <2>4, <1>7, <1>8, <1>9
  <2> QED
    BY <2>3, <2>4
<1> QED
  BY <1>10, <1>11, <1>12, <1>13, <1>14 DEF IInv

\* The slot a session is admitted to is filed under the workspace the session is for.
LEMMA AdmitStep ==
    ASSUME IInv, NEW c \in Calls, Admit(c), ~ Refused(c)
    PROVE  IInv'
<1> DEFINE i == ActiveSlot
           v == [calls[c] EXCEPT !.pc = "publish", !.slot = i]
<1>0. TypeOK /\ Filed /\ Unborn /\ Carried /\ Minted /\ i \in Slots \cup {None}
  BY ActiveTypes DEF IInv
<1>1. /\ i # None /\ slots[i].root = calls[c].root /\ calls[c].pc = "admit"
      /\ calls[c] \in Call
      /\ UNCHANGED <<map, active, slots, sess, buffers>>
  BY <1>0 DEF Admit, At, TypeOK
<1>2. calls' = [calls EXCEPT ![c] = v]
  BY <1>0 DEF Admit, TypeOK
<1>3. i = map[active] /\ active \in Roots
  BY <1>0, <1>1 DEF ActiveSlot, TypeOK
<1> HIDE DEF i
<1>4. slots[i].root \in Roots
  BY <1>0, <1>1, <1>3 DEF Filed
<1>5. v \in Call
  BY <1>0, <1>1 DEF Call
<1>6. /\ v.pc = "publish" /\ v.slot = i /\ v.root = calls[c].root
      /\ v.session = calls[c].session /\ v.tries = calls[c].tries
  BY <1>1 DEF Call
<1> HIDE DEF v
<1>7. calls'[c] = v /\ \A d \in Calls : d # c => calls'[d] = calls[d]
  BY <1>0, <1>2 DEF TypeOK
<1>8. TypeOK'
  BY <1>0, <1>1, <1>2, <1>5 DEF TypeOK
<1>9. Filed' /\ Unborn'
  BY <1>0, <1>1, <1>6, <1>7 DEF Filed, Unborn
<1>10. Carried'
  <2> SUFFICES ASSUME NEW d \in Calls PROVE CarriedBy(d)'
    BY DEF Carried
  <2>0. CarriedBy(d)
    BY <1>0 DEF Carried
  <2>1. CASE d = c
    BY <2>0, <2>1, <1>0, <1>1, <1>4, <1>6, <1>7 DEF CarriedBy
  <2>2. CASE d # c
    BY <2>0, <2>2, <1>1, <1>7 DEF CarriedBy
  <2> QED
    BY <2>1, <2>2
<1>11. Minted'
  <2> SUFFICES ASSUME NEW j \in Slots, NEW d \in Calls, NEW n \in 1..Attempts
               PROVE  MintedAt(j, d, n)'
    BY DEF Minted
  <2>0. MintedAt(j, d, n)
    BY <1>0 DEF Minted
  <2> QED
    BY <2>0, <1>1, <1>6, <1>7 DEF MintedAt, Early
<1> QED
  BY <1>8, <1>9, <1>10, <1>11 DEF IInv

\* What is published for a slot is of the slot's workspace, because it was admitted to it.
LEMMA PublishStep ==
    ASSUME IInv, NEW c \in Calls, Publish(c), slots[calls[c].slot].lsp = None
    PROVE  IInv'
<1> DEFINE i == calls[c].slot
           s == calls[c].session
           v == [calls[c] EXCEPT !.pc = "confirm", !.gen = 0, !.session = None, !.slot = None]
<1>0. TypeOK /\ Filed /\ Unborn /\ Carried /\ Minted
  BY DEF IInv
<1>1. /\ calls[c].pc = "publish" /\ calls[c] \in Call /\ calls[c].tries \in 1..Attempts
      /\ UNCHANGED <<map, active, sess, buffers>>
      /\ slots' = [slots EXCEPT ![i].lsp = s]
  BY <1>0 DEF Publish, At, TypeOK, Call
<1>2. calls' = [calls EXCEPT ![c] = v]
  BY <1>0 DEF Publish, TypeOK
<1>3. /\ i \in Slots /\ s = <<c, calls[c].tries>> /\ s \in Sessions
      /\ sess[s].root = slots[i].root
  <2>1. CarriedBy(c)
    BY <1>0 DEF Carried
  <2>2. i \in Slots /\ s = <<c, calls[c].tries>> /\ sess[s].root = slots[i].root
    BY <2>1, <1>1 DEF CarriedBy
  <2> QED
    BY <2>2, <1>1 DEF Sessions
<1>4. v \in Call
  BY <1>1 DEF Call
<1>5. v.pc = "confirm"
  BY <1>1 DEF Call
<1> HIDE DEF i, s, v
<1>6. calls'[c] = v /\ \A d \in Calls : d # c => calls'[d] = calls[d]
  BY <1>0, <1>2 DEF TypeOK
<1>7. /\ slots' \in [Slots -> Slot]
      /\ \A j \in Slots : /\ slots'[j].root = slots[j].root
                          /\ slots'[j].lsp = IF j = i THEN s ELSE slots[j].lsp
  <2>1. \A j \in Slots : /\ [slots[j] EXCEPT !.lsp = s] \in Slot
                         /\ [slots[j] EXCEPT !.lsp = s].root = slots[j].root
                         /\ [slots[j] EXCEPT !.lsp = s].lsp = s
    BY <1>0, <1>3 DEF TypeOK, Slot
  <2> QED
    BY <2>1, <1>0, <1>1 DEF TypeOK
<1>8. TypeOK'
  BY <1>0, <1>1, <1>2, <1>4, <1>7 DEF TypeOK
<1>9. Filed'
  BY <1>0, <1>1, <1>7 DEF Filed, TypeOK
<1>10. Unborn'
  BY <1>0, <1>5, <1>6, <1>7 DEF Unborn, Slots
<1>11. Carried'
  <2> SUFFICES ASSUME NEW d \in Calls PROVE CarriedBy(d)'
    BY DEF Carried
  <2>0. CarriedBy(d)
    BY <1>0 DEF Carried
  <2>1. CASE d = c
    BY <2>1, <1>5, <1>6 DEF CarriedBy
  <2>2. CASE d # c
    BY <2>0, <2>2, <1>1, <1>6, <1>7 DEF CarriedBy
  <2> QED
    BY <2>1, <2>2
<1>12. Minted'
  <2> SUFFICES ASSUME NEW j \in Slots, NEW d \in Calls, NEW n \in 1..Attempts
               PROVE  MintedAt(j, d, n)'
    BY DEF Minted
  <2>0. MintedAt(j, d, n)
    BY <1>0 DEF Minted
  <2>1. CASE j # i
    BY <2>0, <2>1, <1>1, <1>5, <1>6, <1>7 DEF MintedAt, Early
  <2>2. CASE j = i
    <3>1. slots'[j].lsp = <<d, n>> => d = c /\ n = calls[c].tries
      BY <2>2, <1>3, <1>7
    <3> QED
      BY <3>1, <2>2, <1>1, <1>3, <1>5, <1>6, <1>7 DEF MintedAt, Early
  <2> QED
    BY <2>1, <2>2
<1> QED
  BY <1>8, <1>9, <1>10, <1>11, <1>12 DEF IInv

\* A new slot is one that nothing refers to yet.
LEMMA OpenStep ==
    ASSUME IInv, NEW c \in Calls, NEW w \in Roots, Open(c, w), map[w] = None
    PROVE  IInv'
<1>0. TypeOK /\ Filed /\ Unborn /\ Carried /\ Minted
  BY DEF IInv
<1>1. /\ calls[c].pc = "idle" /\ calls[c] \in Call /\ c \in Slots /\ c # None
      /\ UNCHANGED <<active, sess, buffers>>
      /\ map' = [map EXCEPT ![w] = c] /\ slots' = [slots EXCEPT ![c] = Fresh(w)]
  BY <1>0, NoneAssumption DEF Open, At, TypeOK, Slots
<1> DEFINE v == [calls[c] EXCEPT !.pc = "point", !.kind = "open", !.root = w]
<1>2. calls' = [calls EXCEPT ![c] = v]
  BY <1>0 DEF Open, TypeOK
<1>3. v \in Call
  BY <1>1 DEF Call, CallKinds
<1>4. v.pc = "point"
  BY <1>1 DEF Call
<1> HIDE DEF v
<1>5. calls'[c] = v /\ \A d \in Calls : d # c => calls'[d] = calls[d]
  BY <1>0, <1>2 DEF TypeOK
<1>6. Fresh(w) \in Slot /\ Fresh(w).root = w /\ Fresh(w).lsp = None
  BY DEF Fresh, Unused, Slot
<1>7. /\ slots'[c].root = w /\ slots'[c].lsp = None
      /\ \A j \in Slots : j # c => slots'[j] = slots[j]
  BY <1>0, <1>1, <1>6 DEF TypeOK
<1>8. slots[c].root = None
  BY <1>0, <1>1 DEF Unborn
<1>9. TypeOK'
  BY <1>0, <1>1, <1>2, <1>3, <1>6 DEF TypeOK
<1>10. Filed'
  <2> SUFFICES ASSUME NEW x \in Roots, map'[x] # None PROVE slots'[map'[x]].root = x
    BY DEF Filed
  <2>1. CASE x = w
    BY <2>1, <1>0, <1>1, <1>7 DEF TypeOK
  <2>2. CASE x # w
    <3>1. map'[x] = map[x] /\ map[x] \in Slots /\ slots[map[x]].root = x
      BY <2>2, <1>0, <1>1 DEF TypeOK, Filed
    <3>2. map[x] # c
      BY <3>1, <1>8, NoneAssumption
    <3> QED
      BY <3>1, <3>2, <1>7
  <2> QED
    BY <2>1, <2>2
<1>11. Unborn'
  BY <1>0, <1>4, <1>5, <1>7 DEF Unborn, Slots
<1>12. Carried'
  <2> SUFFICES ASSUME NEW d \in Calls PROVE CarriedBy(d)'
    BY DEF Carried
  <2>0. CarriedBy(d)
    BY <1>0 DEF Carried
  <2>1. CASE d = c
    BY <2>1, <1>4, <1>5 DEF CarriedBy
  <2>2. CASE d # c
    <3>1. calls'[d] = calls[d]
      BY <2>2, <1>5
    <3>2. calls[d].pc = "publish" => calls[d].slot # c
      BY <2>0, <1>8, NoneAssumption DEF CarriedBy
    <3> QED
      BY <2>0, <3>1, <3>2, <1>1, <1>7 DEF CarriedBy
  <2> QED
    BY <2>1, <2>2
<1>13. Minted'
  <2> SUFFICES ASSUME NEW j \in Slots, NEW d \in Calls, NEW n \in 1..Attempts
               PROVE  MintedAt(j, d, n)'
    BY DEF Minted
  <2>0. MintedAt(j, d, n)
    BY <1>0 DEF Minted
  <2>1. CASE j = c
    BY <2>1, <1>7 DEF MintedAt
  <2>2. CASE j # c /\ d # c
    BY <2>0, <2>2, <1>1, <1>5, <1>7 DEF MintedAt
  <2>3. CASE j # c /\ d = c
    <3>1. calls'[c].tries = calls[c].tries
      BY <1>1, <1>5 DEF v, Call
    <3> QED
      BY <2>0, <2>3, <3>1, <1>1, <1>4, <1>5, <1>7 DEF MintedAt, Early
  <2> QED
    BY <2>1, <2>2, <2>3
<1> QED
  BY <1>9, <1>10, <1>11, <1>12, <1>13 DEF IInv

-----------------------------------------------------------------------------
(* The theorems                                                            *)

LEMMA StepInvariant == IInv /\ [Next]_vars => IInv'
<1> SUFFICES ASSUME IInv, [Next]_vars PROVE IInv'
  OBVIOUS
<1>0. TypeOK
  BY DEF IInv
<1>1. ASSUME NEW c \in Calls, Look(c) \/ Scope(c) \/ Confirm(c) \/ Serve(c) PROVE IInv'
  BY <1>0, <1>1, QuietStep, LookQuietly, ScopeQuietly, ConfirmQuietly, ServeQuietly
<1>2. ASSUME NEW c \in Calls, OpenDocument(c) \/ Restart(c) \/ Point(c) PROVE IInv'
  BY <1>0, <1>2, QuietStep, OpenDocumentQuietly, RestartQuietlySteps, PointQuietly
<1>3. ASSUME NEW c \in Calls, Repoint(c) \/ TakeDown(c) PROVE IInv'
  BY <1>0, <1>3, QuietStep, RepointQuietly, TakeDownQuietly
<1>4. ASSUME NEW c \in Calls, NEW w \in Roots, Activate(c, w) \/ Close(c, w) PROVE IInv'
  BY <1>0, <1>4, QuietStep, ActivateQuietly, CloseQuietly
<1>5. ASSUME NEW c \in Calls, NEW w \in Roots, Open(c, w) PROVE IInv'
  BY <1>0, <1>5, QuietStep, OpenAgainQuietly, OpenStep
<1>6. ASSUME NEW c \in Calls, Claim(c) PROVE IInv'
  BY <1>6, ClaimStep
<1>7. ASSUME NEW c \in Calls, Admit(c) PROVE IInv'
  <2>1. CASE Refused(c)
    BY <1>0, <1>7, <2>1, QuietStep, RefusedQuietly DEF Admit, At
  <2> QED
    BY <1>7, <2>1, AdmitStep
<1>8. ASSUME NEW c \in Calls, Publish(c) PROVE IInv'
  <2>1. CASE slots[calls[c].slot].lsp = None
    BY <1>8, <2>1, PublishStep
  <2>2. CASE slots[calls[c].slot].lsp # None
    BY <1>0, <1>8, <2>2, QuietStep, RefusedQuietly DEF Publish, At
  <2> QED
    BY <2>1, <2>2
<1>9. CASE UNCHANGED vars
  BY <1>9 DEF vars, IInv, TypeOK, Filed, Unborn, Carried, CarriedBy, Minted, MintedAt
<1> QED
  BY <1>1, <1>2, <1>3, <1>4, <1>5, <1>6, <1>7, <1>8, <1>9 DEF Next

\* The variables of LspWorkspace keep their types, and no call ever counts an attempt beyond
\* START_ATTEMPTS (ensure_session).
THEOREM WorkspaceTypeCorrect == Spec => []TypeOK
<1>1. IInv => TypeOK
  BY DEF IInv
<1> QED
  BY <1>1, InitInvariant, StepInvariant, PTL DEF Spec

\* Whatever commands run at once, and however often the tabs are switched, opened or closed
\* while a session starts, what record_lsp_session publishes for a workspace is a session that
\* was started for it.
THEOREM SessionsServeTheirWorkspace == Spec => []ServedByItsOwnWorkspace
<1>1. IInv => ServedByItsOwnWorkspace
  <2> SUFFICES ASSUME IInv, NEW i \in Slots, slots[i].lsp # None
               PROVE  sess[slots[i].lsp].root = slots[i].root
    BY DEF ServedByItsOwnWorkspace
  <2>1. slots[i].lsp \in Sessions
    BY DEF IInv, TypeOK, Slot
  <2>2. PICK c \in Calls, n \in 1..Attempts : slots[i].lsp = <<c, n>>
    BY <2>1 DEF Sessions
  <2> QED
    BY <2>2 DEF IInv, Minted, MintedAt
<1> QED
  BY <1>1, InitInvariant, StepInvariant, PTL DEF Spec

-----------------------------------------------------------------------------
(* Sessions that have been replaced                                        *)

Closers == {"repoint", "takeDown"}
Carriers == {"admit", "publish"}

\* The session of an open workspace, or of one that is being closed.
Rooted(s) ==
    \/ \E w \in Roots : map[w] # None /\ slots[map[w]].lsp = s
    \/ \E c \in Calls : /\ calls[c].pc \in Closers /\ calls[c].slot # None
                        /\ slots[calls[c].slot].lsp = s

\* A command holds a session that it hands in or asks; the one it asks is rooted or told to end,
\* and is none that its starter will start yet.
Holders == \A c \in Calls : calls[c].session # None => calls[c].pc \in Carriers \cup {"serve"}
Asked(c) ==
    calls[c].pc = "serve" =>
        /\ calls[c].session \in Sessions
        /\ \A s \in Sessions : calls[c].session = s /\ s # None /\ sess[s].state = "running" => Rooted(s)
SeenBy(c) ==
    \A d \in Calls, n \in 1..Attempts :
        calls[c].pc = "serve" /\ calls[c].session = <<d, n>> =>
            /\ calls[d].pc \in Early => n < calls[d].tries
            /\ calls[d].pc \in Carriers => n <= calls[d].tries

\* A slot that is being closed was opened, and one that was not has no session.
Closing ==
    \A c \in Calls : calls[c].pc \in Closers /\ calls[c].slot # None => slots[calls[c].slot].root # None
Vacant == \A c \in Calls : calls[c].pc = "idle" => slots[c].lsp = None

Held == Holders /\ (\A c \in Calls : Asked(c) /\ SeenBy(c)) /\ Closing /\ Vacant

\* What a step may do: c becomes v.
Advance(c, v) ==
    /\ Becomes(c, v) /\ v.pc # "idle"
    /\ v.pc \in Early => \/ calls[c].pc \in Early /\ v.tries >= calls[c].tries
                         \/ calls[c].pc \in Carriers /\ v.tries > calls[c].tries
    /\ v.pc \in Carriers => /\ v.tries = calls[c].tries
                            /\ calls[c].pc \in Early \cup Carriers
    /\ v.session # None => v.pc \in Carriers \cup {"serve"}
    /\ v.pc = "serve" => ActiveSession # None /\ v.session = ActiveSession
    /\ v.pc \in Closers /\ v.slot # None => slots'[v.slot].root # None

\* What it may do to the slots and the sessions in them.
Keeps(c, v) ==
    /\ \A s \in Sessions : s # None /\ sess'[s].state = "running" =>
          /\ sess[s].state = "running" \/ (calls[c].pc = "claim" /\ s = <<c, calls[c].tries>>)
          /\ \A i \in Slots : slots[i].lsp = s => slots'[i].lsp = s
          /\ calls[c].pc \in Closers =>
                \/ v.pc \in Closers /\ v.slot = calls[c].slot
                \/ calls[c].slot = None
                \/ slots[calls[c].slot].lsp # s
    /\ \A w \in Roots : map[w] # None => map'[w] = map[w] \/ (v.pc \in Closers /\ v.slot = map[w])
    /\ \A i \in Slots : slots[i].root # None => slots'[i].root # None
    /\ \A d \in Calls : d # c /\ calls[d].pc = "idle" => slots'[d].lsp = None

LEMMA RootedStays ==
    ASSUME TypeOK, NEW c \in Calls, NEW v, Advance(c, v), Keeps(c, v), NEW s \in Sessions, Rooted(s),
           s # None, sess'[s].state = "running"
    PROVE  Rooted(s)'
<1>1. calls'[c] = v /\ \A d \in Calls : d # c => calls'[d] = calls[d]
  BY DEF Advance, Becomes, TypeOK
<1>2. \A i \in Slots : slots[i].lsp = s => slots'[i].lsp = s
  BY DEF Keeps
<1>3. ASSUME NEW w \in Roots, map[w] # None, slots[map[w]].lsp = s
      PROVE  Rooted(s)'
  <2>1. map[w] \in Slots /\ slots'[map[w]].lsp = s
    BY <1>2, <1>3 DEF TypeOK
  <2>2. map'[w] = map[w] \/ (v.pc \in Closers /\ v.slot = map[w])
    BY <1>3 DEF Keeps
  <2> QED
    BY <1>1, <1>3, <2>1, <2>2 DEF Rooted
<1>4. ASSUME NEW d \in Calls, calls[d].pc \in Closers, calls[d].slot # None,
             slots[calls[d].slot].lsp = s
      PROVE  Rooted(s)'
  <2>1. calls[d].slot \in Slots
    BY <1>4 DEF TypeOK, Call
  <2>2. slots'[calls[d].slot].lsp = s
    BY <1>2, <1>4, <2>1
  <2>3. calls'[d].pc \in Closers /\ calls'[d].slot = calls[d].slot
    BY <1>1, <1>4 DEF Keeps
  <2> QED
    BY <1>4, <2>2, <2>3 DEF Rooted
<1> QED
  BY <1>3, <1>4 DEF Rooted

LEMMA HeldStep ==
    ASSUME IInv, Held, NEW c \in Calls, NEW v, Advance(c, v), Keeps(c, v)
    PROVE  Held'
<1>0. TypeOK /\ Minted
  BY DEF IInv
<1>1. /\ calls'[c] = v /\ \A d \in Calls : d # c => calls'[d] = calls[d]
      /\ v \in Call
  BY <1>0 DEF Advance, Becomes, TypeOK
<1>2. Holders'
  BY <1>1 DEF Held, Holders, Advance
<1>3. Closing'
  <2> SUFFICES ASSUME NEW d \in Calls, calls'[d].pc \in Closers, calls'[d].slot # None
               PROVE  slots'[calls'[d].slot].root # None
    BY DEF Closing
  <2>1. CASE d = c
    BY <1>1, <2>1 DEF Advance
  <2>2. CASE d # c
    <3>1. calls'[d] = calls[d] /\ calls[d].slot \in Slots
      BY <1>0, <1>1, <2>2 DEF TypeOK, Call
    <3> QED
      BY <3>1 DEF Held, Closing, Keeps
  <2> QED
    BY <2>1, <2>2
<1>4. Vacant'
  BY <1>1 DEF Vacant, Advance, Keeps
\* Where the session of a call that asks comes from.
<1>5. ASSUME NEW d \in Calls, calls'[d].pc = "serve"
      PROVE  \/ d # c /\ calls[d].pc = "serve" /\ calls'[d].session = calls[d].session
             \/ \E i \in Slots, w \in Roots : /\ map[w] = i /\ i # None /\ slots[i].lsp # None
                                              /\ calls'[d].session = slots[i].lsp
  <2>1. CASE d # c
    BY <1>1, <1>5, <2>1
  <2>2. CASE d = c
    <3>1. ActiveSession # None /\ calls'[d].session = ActiveSession
      BY <1>1, <1>5, <2>2 DEF Advance
    <3>2. ActiveSlot # None /\ ActiveSession = slots[ActiveSlot].lsp
      BY <3>1 DEF ActiveSession
    <3>3. active \in Roots /\ map[active] = ActiveSlot
      BY <1>0, <3>2 DEF ActiveSlot, TypeOK
    <3>4. ActiveSlot \in Slots
      BY <1>0, <3>2, ActiveTypes
    <3> QED
      BY <3>1, <3>2, <3>3, <3>4
  <2> QED
    BY <2>1, <2>2
<1>6. ASSUME NEW d \in Calls PROVE SeenBy(d)'
  <2> SUFFICES ASSUME NEW e \in Calls, NEW n \in 1..Attempts, calls'[d].pc = "serve",
                      calls'[d].session = <<e, n>>
               PROVE  /\ calls'[e].pc \in Early => n < calls'[e].tries
                      /\ calls'[e].pc \in Carriers => n <= calls'[e].tries
    BY DEF SeenBy
  <2>1. /\ calls[e].pc \in Early => n < calls[e].tries
        /\ calls[e].pc \in Carriers => n <= calls[e].tries
    <3>1. CASE d # c /\ calls[d].pc = "serve" /\ calls'[d].session = calls[d].session
      BY <3>1 DEF Held, SeenBy
    <3>2. ASSUME NEW i \in Slots, slots[i].lsp # None, calls'[d].session = slots[i].lsp
          PROVE  /\ calls[e].pc \in Early => n < calls[e].tries
                 /\ calls[e].pc \in Carriers => n <= calls[e].tries
      BY <1>0, <3>2 DEF Minted, MintedAt, Carriers
    <3> QED
      BY <1>5, <3>1, <3>2
  <2>2. CASE e # c
    BY <1>1, <2>1, <2>2
  <2>3. CASE e = c
    <3>1. n \in Nat /\ v.tries \in Nat /\ calls[c].tries \in Nat
      BY <1>0, <1>1, AttemptsAssumption DEF TypeOK, Call
    <3>2. v.pc \in Early => n < v.tries
      BY <2>1, <2>3, <3>1 DEF Advance
    <3>3. v.pc \in Carriers => n <= v.tries
      BY <2>1, <2>3, <3>1 DEF Advance
    <3> QED
      BY <1>1, <2>3, <3>2, <3>3
  <2> QED
    BY <2>2, <2>3
<1>7. ASSUME NEW d \in Calls PROVE Asked(d)'
  <2> SUFFICES ASSUME calls'[d].pc = "serve"
               PROVE  /\ calls'[d].session \in Sessions
                      /\ \A s \in Sessions : calls'[d].session = s /\ s # None /\ sess'[s].state = "running"
                                                 => Rooted(s)'
    BY DEF Asked
  <2>0. PICK s : s = calls'[d].session
    OBVIOUS
  <2>1. /\ s \in Sessions /\ (s # None /\ sess[s].state = "running" => Rooted(s))
        /\ ~(calls[c].pc = "claim" /\ s = <<c, calls[c].tries>>)
    <3>1. CASE d # c /\ calls[d].pc = "serve" /\ s = calls[d].session
      <4>1. s \in Sessions /\ (s # None /\ sess[s].state = "running" => Rooted(s))
        BY <3>1 DEF Held, Asked
      <4>2. calls[c].tries \in 1..Attempts /\ calls[c].tries \in Nat
        BY <1>0, AttemptsAssumption DEF TypeOK, Call
      <4>3. ~(calls[c].pc = "claim" /\ s = <<c, calls[c].tries>>)
        BY <3>1, <4>2 DEF Held, SeenBy, Early
      <4> QED
        BY <4>1, <4>3
    <3>2. ASSUME NEW i \in Slots, NEW w \in Roots, map[w] = i, i # None, slots[i].lsp # None,
                 s = slots[i].lsp
          PROVE  /\ s \in Sessions /\ (sess[s].state = "running" => Rooted(s))
                 /\ ~(calls[c].pc = "claim" /\ s = <<c, calls[c].tries>>)
      <4>1. s \in Sessions
        BY <1>0, <3>2 DEF TypeOK, Slot
      <4>2. Rooted(s)
        BY <3>2 DEF Rooted
      <4>3. calls[c].tries \in 1..Attempts /\ calls[c].tries \in Nat
        BY <1>0, AttemptsAssumption DEF TypeOK, Call
      <4>4. ~(calls[c].pc = "claim" /\ s = <<c, calls[c].tries>>)
        <5> SUFFICES ASSUME calls[c].pc = "claim", s = <<c, calls[c].tries>> PROVE FALSE
          OBVIOUS
        <5>1. MintedAt(i, c, calls[c].tries)
          BY <1>0, <4>3 DEF Minted
        <5>2. calls[c].tries < calls[c].tries
          BY <3>2, <5>1 DEF MintedAt, Early
        <5> QED
          BY <4>3, <5>2
      <4> QED
        BY <4>1, <4>2, <4>4
    <3> QED
      BY <1>5, <2>0, <3>1, <3>2
  <2>2. s # None /\ sess'[s].state = "running" => sess[s].state = "running"
    BY <2>1 DEF Keeps
  <2>3. s # None /\ sess'[s].state = "running" => Rooted(s)'
    BY <1>0, <2>1, <2>2, RootedStays
  <2> QED
    BY <2>0, <2>1, <2>3
<1> QED
  BY <1>2, <1>3, <1>4, <1>6, <1>7 DEF Held

-----------------------------------------------------------------------------
(* What each action does to the sessions there are                         *)

Steps(c) == \E v : Advance(c, v) /\ Keeps(c, v)

\* No session starts; the one that is told to end no longer runs.
Calms(s) == \A x \in Sessions : sess'[x].state = "running" =>
                sess[x].state = "running" /\ (s # None => x # s)

LEMMA ToldCalms == ASSUME TypeOK, NEW s, sess' = Told(s) PROVE Calms(s)
<1>1. CASE s = None
  BY <1>1 DEF Told, Calms
<1>2. CASE s # None
  <2>1. \A x \in Sessions : [sess[x] EXCEPT !.state = "told"].state = "told"
    BY DEF TypeOK, Session
  <2> QED
    BY <1>2, <2>1 DEF TypeOK, Told, Calms
<1> QED
  BY <1>1, <1>2

\* A step that leaves map and slots alone, or only counts in a slot.
LEMMA KeepsSlots ==
    ASSUME TypeOK, Held, UNCHANGED map, NEW c \in Calls, NEW v,
           slots' \in [Slots -> Slot],
           \A i \in Slots : slots'[i].lsp = slots[i].lsp /\ slots'[i].root = slots[i].root,
           \A x \in Sessions : sess'[x].state = "running" =>
               sess[x].state = "running" \/ (calls[c].pc = "claim" /\ x = <<c, calls[c].tries>>),
           calls[c].pc \in Closers => v.pc \in Closers /\ v.slot = calls[c].slot
    PROVE  Keeps(c, v)
BY DEF Keeps, Held, Vacant, Slots

LEMMA KeepsAll ==
    ASSUME TypeOK, Held, UNCHANGED <<map, slots>>, NEW c \in Calls, NEW v,
           \A x \in Sessions : sess'[x].state = "running" => sess[x].state = "running",
           calls[c].pc \in Closers => v.pc \in Closers /\ v.slot = calls[c].slot
    PROVE  Keeps(c, v)
<1>1. slots' \in [Slots -> Slot]
  BY DEF TypeOK
<1> QED
  BY <1>1, KeepsSlots

\* A call that holds no session moves to where it holds none.
LEMMA EmptyHanded ==
    ASSUME TypeOK, Held, NEW c \in Calls, NEW v \in Call, calls' = [calls EXCEPT ![c] = v],
           v.pc \notin Carriers \cup Closers \cup {"idle", "serve"}, v.session = None,
           v.pc \in Early => calls[c].pc \in Early /\ v.tries = calls[c].tries
    PROVE  Advance(c, v)
<1>1. calls[c].tries \in Nat
  BY AttemptsAssumption DEF TypeOK, Call
<1> QED
  BY <1>1 DEF Advance, Becomes

LEMMA EndsAdvance ==
    ASSUME TypeOK, Held, NEW c \in Calls,
           NEW a \in {"none", "Served", "Gone", "NoWorkspace", "NotOpen", "Active", "Closed"},
           Ends(c, a)
    PROVE  Advance(c, HoldsNothing("done", a)) /\ HoldsNothing("done", a).pc = "done"
<1>1. 1 \in 1..Attempts
  BY AttemptsAssumption
<1>2. /\ HoldsNothing("done", a) \in Call /\ HoldsNothing("done", a).pc = "done"
      /\ HoldsNothing("done", a).session = None
  BY <1>1 DEF HoldsNothing, Call
<1> QED
  BY <1>2, EmptyHanded DEF Ends, Early, Carriers, Closers

LEMMA ServesAdvance ==
    ASSUME TypeOK, NEW c \in Calls, ActiveSession # None, Serves(c, ActiveSession)
    PROVE  \E v : Advance(c, v) /\ v.pc = "serve"
<1> DEFINE v == [calls[c] EXCEPT !.pc = "serve", !.session = ActiveSession, !.root = None]
<1>0. calls[c] \in Call
  BY DEF TypeOK
<1>1. v \in Call
  BY <1>0, ActiveTypes DEF Call
<1>2. v.pc = "serve" /\ v.session = ActiveSession
  BY <1>0 DEF Call
<1>3. calls' = [calls EXCEPT ![c] = v]
  BY DEF Serves, TypeOK
<1> HIDE DEF v
<1> QED
  BY <1>1, <1>2, <1>3 DEF Advance, Becomes, Early, Carriers, Closers

LEMMA LookSteps == ASSUME TypeOK, Held, NEW c \in Calls, Look(c) PROVE Steps(c)
<1>0. calls[c] \in Call /\ calls[c].pc = "look" /\ calls[c].session = None
      /\ UNCHANGED <<map, slots, sess>>
  BY DEF TypeOK, Look, At, Held, Holders, Carriers
<1>1. CASE ActiveSession # None
  BY <1>0, <1>1, ServesAdvance, KeepsAll DEF Look, Steps, Closers
<1>2. CASE ActiveSession = None
  <2> DEFINE v == [calls[c] EXCEPT !.pc = "scope", !.root = None]
  <2>1. v \in Call
    BY <1>0 DEF Call
  <2>2. v.pc = "scope" /\ v.tries = calls[c].tries /\ v.session = None
    BY <1>0 DEF Call
  <2>3. calls' = [calls EXCEPT ![c] = v]
    BY <1>2 DEF Look, TypeOK
  <2> HIDE DEF v
  <2>4. Advance(c, v)
    BY <1>0, <2>1, <2>2, <2>3, EmptyHanded DEF Early, Carriers, Closers
  <2> QED
    BY <1>0, <2>4, KeepsAll DEF Steps, Closers
<1> QED
  BY <1>1, <1>2

LEMMA ScopeSteps == ASSUME TypeOK, Held, NEW c \in Calls, Scope(c) PROVE Steps(c)
<1>0. calls[c] \in Call /\ calls[c].pc = "scope" /\ calls[c].session = None
      /\ UNCHANGED <<map, slots, sess>>
  BY DEF TypeOK, Scope, At, Held, Holders, Carriers
<1>1. CASE ActiveSlot = None
  BY <1>0, <1>1, EndsAdvance, KeepsAll DEF Scope, Steps, Closers
<1>2. CASE ActiveSlot # None
  <2> DEFINE w == slots[ActiveSlot].root
             v == [calls[c] EXCEPT !.pc = "claim", !.root = w]
  <2>1. w \in Roots \cup {None}
    BY <1>2, ActiveTypes DEF TypeOK, Slot
  <2> HIDE DEF w
  <2>2. v \in Call
    BY <1>0, <2>1 DEF Call
  <2>3. v.pc = "claim" /\ v.tries = calls[c].tries /\ v.session = None
    BY <1>0 DEF Call
  <2>4. calls' = [calls EXCEPT ![c] = v]
    BY <1>2 DEF Scope, TypeOK, w
  <2> HIDE DEF v
  <2>5. Advance(c, v)
    BY <1>0, <2>2, <2>3, <2>4, EmptyHanded DEF Early, Carriers, Closers
  <2> QED
    BY <1>0, <2>5, KeepsAll DEF Steps, Closers
<1> QED
  BY <1>1, <1>2

LEMMA ConfirmSteps == ASSUME TypeOK, Held, NEW c \in Calls, Confirm(c) PROVE Steps(c)
<1>0. calls[c].pc = "confirm" /\ UNCHANGED <<map, slots, sess>>
  BY DEF Confirm, At
<1>1. \E v : Advance(c, v)
  BY ServesAdvance, EndsAdvance DEF Confirm
<1> QED
  BY <1>0, <1>1, KeepsAll DEF Steps, Closers

LEMMA ServeSteps == ASSUME TypeOK, Held, NEW c \in Calls, Serve(c) PROVE Steps(c)
<1>0. calls[c].pc = "serve" /\ UNCHANGED <<map, slots>>
  BY DEF Serve, At
<1>1. \E v : Advance(c, v)
  BY EndsAdvance DEF Serve
<1>2. \A x \in Sessions : sess'[x].state = "running" => sess[x].state = "running"
  <2>1. \A x \in Sessions : [sess[x] EXCEPT !.mirror = TRUE].state = sess[x].state
    BY DEF TypeOK, Session
  <2> QED
    BY <2>1 DEF Serve, TypeOK
<1> QED
  BY <1>0, <1>1, <1>2, KeepsAll DEF Steps, Closers

\* A command starts, or sets the pointer.
LEMMA StartSteps ==
    ASSUME TypeOK, Held, NEW c \in Calls, calls[c].pc \in {"idle", "point"},
           UNCHANGED <<map, slots, sess>>,
           NEW pc \in {"look", "point"}, NEW k \in CallKinds, NEW w \in Roots \cup {None},
           calls' = [calls EXCEPT ![c].pc = pc, ![c].kind = k, ![c].root = w]
    PROVE  Steps(c)
<1> DEFINE v == [calls[c] EXCEPT !.pc = pc, !.kind = k, !.root = w]
<1>1. calls[c] \in Call /\ calls[c].session = None
  BY DEF TypeOK, Held, Holders, Carriers
<1>2. v \in Call
  BY <1>1 DEF Call
<1>3. v.pc = pc /\ v.tries = calls[c].tries /\ v.session = None
  BY <1>1 DEF Call
<1>4. calls' = [calls EXCEPT ![c] = v]
  BY DEF TypeOK
<1> HIDE DEF v
<1>5. Advance(c, v)
  BY <1>2, <1>3, <1>4, EmptyHanded DEF Early, Carriers, Closers
<1> QED
  BY <1>5, KeepsAll DEF Steps, Closers

LEMMA OpenDocumentSteps == ASSUME TypeOK, Held, NEW c \in Calls, OpenDocument(c) PROVE Steps(c)
<1> DEFINE v == [calls[c] EXCEPT !.pc = "look", !.kind = "openDocument"]
<1>0. calls[c] \in Call /\ calls[c].pc = "idle" /\ calls[c].session = None
      /\ UNCHANGED <<map, slots, sess>>
  BY DEF TypeOK, OpenDocument, At, Held, Holders, Carriers
<1>1. v \in Call
  BY <1>0 DEF Call, CallKinds
<1>2. v.pc = "look" /\ v.tries = calls[c].tries /\ v.session = None
  BY <1>0 DEF Call
<1>3. calls' = [calls EXCEPT ![c] = v]
  BY DEF OpenDocument, TypeOK
<1> HIDE DEF v
<1>4. Advance(c, v)
  BY <1>0, <1>1, <1>2, <1>3, EmptyHanded DEF Early, Carriers, Closers
<1> QED
  BY <1>0, <1>4, KeepsAll DEF Steps, Closers

LEMMA PointSteps == ASSUME TypeOK, Held, NEW c \in Calls, Point(c) PROVE Steps(c)
<1>0. calls[c] \in Call /\ calls[c].pc = "point" /\ calls[c].session = None
      /\ UNCHANGED <<map, slots, sess>>
  BY DEF TypeOK, Point, At, Held, Holders, Carriers
<1>1. CASE Ends(c, "Active")
  BY <1>0, <1>1, EndsAdvance, KeepsAll DEF Steps, Closers
<1>2. CASE Goes(c, "look")
  <2> DEFINE v == [calls[c] EXCEPT !.pc = "look"]
  <2>1. v \in Call
    BY <1>0 DEF Call
  <2>2. v.pc = "look" /\ v.tries = calls[c].tries /\ v.session = None
    BY <1>0 DEF Call
  <2>3. calls' = [calls EXCEPT ![c] = v]
    BY <1>2 DEF Goes, TypeOK
  <2> HIDE DEF v
  <2>4. Advance(c, v)
    BY <1>0, <2>1, <2>2, <2>3, EmptyHanded DEF Early, Carriers, Closers
  <2> QED
    BY <1>0, <2>4, KeepsAll DEF Steps, Closers
<1> QED
  BY <1>1, <1>2 DEF Point

LEMMA ActivateSteps ==
    ASSUME TypeOK, Held, NEW c \in Calls, NEW w \in Roots, Activate(c, w)
    PROVE  Steps(c)
<1>0. calls[c].pc = "idle" /\ UNCHANGED <<map, slots, sess>>
  BY DEF Activate, At
<1>1. CASE map[w] = None
  BY <1>0, <1>1, EndsAdvance, KeepsAll DEF Activate, Steps, Closers
<1>2. CASE map[w] # None
  BY <1>0, <1>2, StartSteps DEF Activate, CallKinds
<1> QED
  BY <1>1, <1>2

\* A restart takes the session out of its slot and tells it to end.
LEMMA RestartSteps == ASSUME TypeOK, Held, NEW c \in Calls, Restart(c) PROVE Steps(c)
<1> DEFINE v == [calls[c] EXCEPT !.pc = "look", !.kind = "restart"]
<1>0. calls[c] \in Call /\ calls[c].pc = "idle" /\ calls[c].session = None
      /\ map' = map /\ sess' = Told(ActiveSession)
  BY DEF TypeOK, Restart, At, Held, Holders, Carriers
<1>1. v \in Call
  BY <1>0 DEF Call, CallKinds
<1>2. v.pc = "look" /\ v.tries = calls[c].tries /\ v.session = None
  BY <1>0 DEF Call
<1>3. calls' = [calls EXCEPT ![c] = v]
  BY DEF Restart, TypeOK
<1> HIDE DEF v
<1>4. Advance(c, v)
  BY <1>0, <1>1, <1>2, <1>3, EmptyHanded DEF Early, Carriers, Closers
<1>5. Calms(ActiveSession)
  BY <1>0, ToldCalms
<1>6. CASE ActiveSlot = None
  BY <1>0, <1>4, <1>5, <1>6, KeepsAll DEF Restart, Calms, Steps, Closers
<1>7. CASE ActiveSlot # None
  <2>1. /\ ActiveSlot \in Slots /\ ActiveSession = slots[ActiveSlot].lsp
        /\ slots' = [slots EXCEPT ![ActiveSlot].lsp = None]
    BY <1>7, ActiveTypes DEF ActiveSession, Restart
  <2>2. /\ \A i \in Slots : slots'[i].root = slots[i].root
        /\ \A i \in Slots : i # ActiveSlot => slots'[i] = slots[i]
        /\ slots'[ActiveSlot].lsp = None
    <3>1. /\ [slots[ActiveSlot] EXCEPT !.lsp = None].root = slots[ActiveSlot].root
          /\ [slots[ActiveSlot] EXCEPT !.lsp = None].lsp = None
      BY <2>1 DEF TypeOK, Slot
    <3> QED
      BY <2>1, <3>1 DEF TypeOK
  <2>3. Keeps(c, v)
    <3>1. ASSUME NEW s \in Sessions, s # None, sess'[s].state = "running"
          PROVE  sess[s].state = "running" /\ \A i \in Slots : slots[i].lsp = s => slots'[i].lsp = s
      BY <1>5, <2>1, <2>2, <3>1 DEF Calms
    <3>2. \A d \in Calls : calls[d].pc = "idle" => slots'[d].lsp = None
      BY <2>2 DEF Held, Vacant, Slots
    <3>3. calls[c].pc \notin Closers
      BY <1>0 DEF Closers
    <3> QED
      BY <1>0, <2>2, <3>1, <3>2, <3>3 DEF Keeps
  <2> QED
    BY <1>4, <2>3 DEF Steps
<1> QED
  BY <1>6, <1>7

\* The slot that an open inserts has been used by nobody.
LEMMA OpenSteps ==
    ASSUME IInv, Held, NEW c \in Calls, NEW w \in Roots, Open(c, w)
    PROVE  Steps(c)
<1>0. TypeOK /\ calls[c].pc = "idle" /\ UNCHANGED sess
      /\ calls' = [calls EXCEPT ![c].pc = "point", ![c].kind = "open", ![c].root = w]
  BY DEF IInv, Open, At
<1>1. CASE map[w] # None
  BY <1>0, <1>1, StartSteps DEF Open, CallKinds
<1>2. CASE map[w] = None
  <2>1. map' = [map EXCEPT ![w] = c] /\ slots' = [slots EXCEPT ![c] = Fresh(w)]
    BY <1>2 DEF Open
  <2> DEFINE v == [calls[c] EXCEPT !.pc = "point", !.kind = "open", !.root = w]
  <2>2. calls[c] \in Call /\ calls[c].session = None
    BY <1>0 DEF TypeOK, Held, Holders, Carriers
  <2>3. v \in Call
    BY <2>2 DEF Call, CallKinds
  <2>4. v.pc = "point" /\ v.tries = calls[c].tries /\ v.session = None
    BY <2>2 DEF Call
  <2>5. calls' = [calls EXCEPT ![c] = v]
    BY <1>0 DEF TypeOK
  <2> HIDE DEF v
  <2>6. Advance(c, v)
    BY <1>0, <2>3, <2>4, <2>5, EmptyHanded DEF Early, Carriers, Closers
  <2>7. /\ slots[c].lsp = None /\ c \in Slots
        /\ slots'[c].lsp = None /\ slots'[c].root = w /\ w # None
        /\ \A i \in Slots : i # c => slots'[i] = slots[i]
    <3>1. Fresh(w).lsp = None /\ Fresh(w).root = w
      BY DEF Fresh, Unused
    <3> QED
      BY <1>0, <2>1, <3>1, NoneAssumption DEF Held, Vacant, TypeOK, Slots
  <2>8. Keeps(c, v)
    <3>1. \A s \in Sessions : s # None => \A i \in Slots : slots[i].lsp = s => slots'[i].lsp = s
      BY <2>7
    <3>2. \A x \in Roots : map[x] # None => map'[x] = map[x]
      BY <1>0, <1>2, <2>1 DEF TypeOK
    <3>3. \A d \in Calls : d # c /\ calls[d].pc = "idle" => slots'[d].lsp = None
      BY <2>7 DEF Held, Vacant, Slots
    <3>4. \A i \in Slots : slots[i].root # None => slots'[i].root # None
      BY <2>7
    <3>5. calls[c].pc \notin Closers
      BY <1>0 DEF Closers
    <3> QED
      BY <1>0, <3>1, <3>2, <3>3, <3>4, <3>5 DEF Keeps
  <2> QED
    BY <2>6, <2>8 DEF Steps
<1> QED
  BY <1>1, <1>2

\* A close takes the slot out of the map and holds it until its session has been told to end.
LEMMA CloseSteps ==
    ASSUME IInv, Held, NEW c \in Calls, NEW w \in Roots, Close(c, w)
    PROVE  Steps(c)
<1> DEFINE i == map[w]
           v == [calls[c] EXCEPT !.pc = "repoint", !.kind = "close", !.root = w, !.slot = i]
<1>0. TypeOK /\ calls[c].pc = "idle" /\ UNCHANGED <<slots, sess>> /\ map' = [map EXCEPT ![w] = None]
      /\ calls' = [calls EXCEPT ![c].pc = "repoint", ![c].kind = "close", ![c].root = w,
                                ![c].slot = i]
  BY DEF IInv, Close, At
<1>1. i \in Slots \cup {None} /\ (i # None => slots[i].root # None)
  BY <1>0, NoneAssumption DEF IInv, Filed, TypeOK
<1>2. \A x \in Roots : x # w => map'[x] = map[x]
  BY <1>0 DEF TypeOK
<1>3. map[w] = i
  OBVIOUS
<1> HIDE DEF i
<1>4. calls[c] \in Call /\ calls[c].session = None
  BY <1>0 DEF TypeOK, Held, Holders, Carriers
<1>5. v \in Call
  BY <1>1, <1>4 DEF Call, CallKinds
<1>6. v.pc = "repoint" /\ v.slot = i /\ v.session = None
  BY <1>4 DEF Call
<1>7. calls' = [calls EXCEPT ![c] = v]
  BY <1>0 DEF TypeOK
<1> HIDE DEF v
<1>8. Advance(c, v)
  BY <1>0, <1>1, <1>5, <1>6, <1>7 DEF Advance, Becomes, Early, Carriers, Closers
<1>9. Keeps(c, v)
  <2>1. calls[c].pc \notin Closers /\ v.pc \in Closers
    BY <1>0, <1>6 DEF Closers
  <2> QED
    BY <1>0, <1>2, <1>3, <1>6, <2>1 DEF Keeps, Held, Vacant
<1> QED
  BY <1>8, <1>9 DEF Steps

LEMMA RepointSteps == ASSUME TypeOK, Held, NEW c \in Calls, Repoint(c) PROVE Steps(c)
<1> DEFINE v == [calls[c] EXCEPT !.pc = "takeDown"]
<1>0. calls[c] \in Call /\ calls[c].pc = "repoint" /\ calls[c].session = None
      /\ UNCHANGED <<map, slots, sess>>
  BY DEF TypeOK, Repoint, At, Held, Holders, Carriers
<1>1. v \in Call
  BY <1>0 DEF Call
<1>2. v.pc = "takeDown" /\ v.slot = calls[c].slot /\ v.session = None
  BY <1>0 DEF Call
<1>3. calls' = [calls EXCEPT ![c] = v]
  BY DEF Repoint, Goes, TypeOK
<1> HIDE DEF v
<1>4. Advance(c, v)
  BY <1>0, <1>1, <1>2, <1>3 DEF Advance, Becomes, Early, Carriers, Closers, Held, Closing
<1> QED
  BY <1>0, <1>2, <1>4, KeepsAll DEF Steps, Closers

LEMMA TakeDownSteps == ASSUME TypeOK, Held, NEW c \in Calls, TakeDown(c) PROVE Steps(c)
<1> DEFINE i == calls[c].slot
           v == HoldsNothing("done", "Closed")
<1>0. calls[c].pc = "takeDown" /\ UNCHANGED map /\ i \in Slots \cup {None}
  BY DEF TypeOK, TakeDown, At, Call
<1>1. Advance(c, v)
  BY EndsAdvance DEF TakeDown
<1> HIDE DEF v
<1>2. CASE i = None
  <2>1. UNCHANGED <<slots, sess>>
    BY <1>2 DEF TakeDown
  <2> QED
    BY <1>0, <1>1, <1>2, <2>1 DEF Steps, Keeps, Held, Vacant
<1>3. CASE i # None
  <2>1. /\ sess' = Told(slots[i].lsp) /\ slots' = [slots EXCEPT ![i].lsp = None] /\ i \in Slots
    BY <1>0, <1>3 DEF TakeDown
  <2>2. Calms(slots[i].lsp)
    BY <2>1, ToldCalms
  <2>3. /\ \A x \in Slots : slots'[x].root = slots[x].root
        /\ \A x \in Slots : x # i => slots'[x] = slots[x]
        /\ slots'[i].lsp = None
    <3>1. /\ [slots[i] EXCEPT !.lsp = None].root = slots[i].root
          /\ [slots[i] EXCEPT !.lsp = None].lsp = None
      BY <2>1 DEF TypeOK, Slot
    <3> HIDE DEF i
    <3> QED
      BY <2>1, <3>1 DEF TypeOK
  <2>4. ASSUME NEW s \in Sessions, s # None, sess'[s].state = "running"
        PROVE  /\ sess[s].state = "running"
               /\ \A x \in Slots : slots[x].lsp = s => slots'[x].lsp = s
               /\ slots[i].lsp # s
    BY <2>2, <2>3, <2>4 DEF Calms
  <2>5. \A d \in Calls : calls[d].pc = "idle" => slots'[d].lsp = None
    BY <2>3 DEF Held, Vacant, Slots
  <2>6. Keeps(c, v)
    BY <1>0, <2>3, <2>4, <2>5 DEF Keeps
  <2> QED
    BY <1>1, <2>6 DEF Steps
<1> QED
  BY <1>2, <1>3

\* A claim starts a session, which its call holds from then on.
LEMMA ClaimSteps == ASSUME IInv, Held, NEW c \in Calls, Claim(c) PROVE Steps(c)
<1> DEFINE i == ActiveSlot
           s == <<c, calls[c].tries>>
           g == IF i = None THEN 0 ELSE slots[i].gen + 1
           w == calls[c].root
           r == [NotStarted EXCEPT !.root = w, !.state = "running"]
           v == [calls[c] EXCEPT !.pc = "admit", !.gen = g, !.session = s]
<1>0. TypeOK /\ i \in Slots \cup {None}
  BY ActiveTypes DEF IInv
<1>1. /\ calls[c].pc = "claim" /\ calls[c] \in Call /\ calls[c].tries \in 1..Attempts
      /\ s \in Sessions /\ UNCHANGED map
  BY <1>0 DEF Claim, At, TypeOK, Call, Sessions
<1>2. g \in Nat
  BY <1>0 DEF TypeOK, Slot
<1>3. /\ slots' = IF i = None THEN slots ELSE [slots EXCEPT ![i].gen = g]
      /\ sess' = [sess EXCEPT ![s] = r]
      /\ calls' = [calls EXCEPT ![c] = v]
  BY <1>0 DEF Claim, TypeOK
<1> HIDE DEF i, g, r
<1>4. v \in Call
  BY <1>1, <1>2 DEF Call
<1>5. v.pc = "admit" /\ v.tries = calls[c].tries
  BY <1>1 DEF Call
<1> HIDE DEF v
<1>6. Advance(c, v)
  BY <1>1, <1>3, <1>4, <1>5 DEF Advance, Becomes, Early, Carriers, Closers
<1>7. /\ slots' \in [Slots -> Slot]
      /\ \A j \in Slots : slots'[j].lsp = slots[j].lsp /\ slots'[j].root = slots[j].root
  <2>1. \A j \in Slots : /\ [slots[j] EXCEPT !.gen = g] \in Slot
                         /\ [slots[j] EXCEPT !.gen = g].root = slots[j].root
                         /\ [slots[j] EXCEPT !.gen = g].lsp = slots[j].lsp
    BY <1>0, <1>2 DEF TypeOK, Slot
  <2> QED
    BY <2>1, <1>0, <1>3 DEF TypeOK
<1>8. \A x \in Sessions : sess'[x].state = "running" => sess[x].state = "running" \/ x = s
  BY <1>0, <1>1, <1>3 DEF TypeOK
<1>9. calls[c].pc \notin Closers
  BY <1>1 DEF Closers
<1>10. Keeps(c, v)
  BY <1>0, <1>1, <1>7, <1>8, <1>9, KeepsSlots
<1> QED
  BY <1>6, <1>10 DEF Steps

LEMMA RefusedSteps ==
    ASSUME TypeOK, Held, NEW c \in Calls, calls[c].pc \in Carriers, Refused(c),
           UNCHANGED <<map, slots>>
    PROVE  Steps(c)
<1> DEFINE again == calls[c].tries < Attempts
           pc == IF again THEN "look" ELSE "confirm"
           n == IF again THEN calls[c].tries + 1 ELSE calls[c].tries
           v == [calls[c] EXCEPT !.pc = pc, !.tries = n, !.gen = 0, !.session = None,
                                 !.slot = None]
<1>0. calls[c] \in Call /\ calls[c].tries \in 1..Attempts /\ Attempts \in Nat
  BY AttemptsAssumption DEF TypeOK, Call
<1>1. n \in 1..Attempts /\ (again => n > calls[c].tries)
  BY <1>0
<1>2. pc \in {"look", "confirm"} /\ (pc = "look" => again)
  OBVIOUS
<1> HIDE DEF pc, n
<1>3. v \in Call
  BY <1>0, <1>1, <1>2, Zenon DEF Call
<1>4. v.pc = pc /\ v.tries = n /\ v.session = None
  BY <1>0 DEF Call
<1>5. calls' = [calls EXCEPT ![c] = v]
  BY DEF Refused, TypeOK, pc, n
<1> HIDE DEF v
<1>6. Advance(c, v)
  BY <1>1, <1>2, <1>3, <1>4, <1>5 DEF Advance, Becomes, Early, Carriers, Closers
<1>7. Calms(calls[c].session)
  BY ToldCalms DEF Refused
<1>8. Keeps(c, v)
  BY <1>7, KeepsAll DEF Calms, Carriers, Closers
<1> QED
  BY <1>6, <1>8 DEF Steps

LEMMA AdmitSteps == ASSUME TypeOK, Held, NEW c \in Calls, Admit(c) PROVE Steps(c)
<1> DEFINE i == ActiveSlot
           v == [calls[c] EXCEPT !.pc = "publish", !.slot = i]
<1>0. calls[c].pc = "admit" /\ calls[c] \in Call /\ UNCHANGED <<map, slots>>
  BY DEF Admit, At, TypeOK
<1>1. CASE Refused(c)
  BY <1>0, <1>1, RefusedSteps DEF Carriers
<1>2. CASE ~ Refused(c)
  <2>1. calls' = [calls EXCEPT ![c] = v] /\ UNCHANGED sess
    BY <1>2 DEF Admit, TypeOK
  <2>2. i \in Slots \cup {None}
    BY ActiveTypes
  <2> HIDE DEF i
  <2>3. v \in Call
    BY <1>0, <2>2 DEF Call
  <2>4. v.pc = "publish" /\ v.tries = calls[c].tries
    BY <1>0 DEF Call
  <2> HIDE DEF v
  <2>5. Advance(c, v)
    BY <1>0, <2>1, <2>3, <2>4 DEF Advance, Becomes, Early, Carriers, Closers
  <2> QED
    BY <1>0, <2>1, <2>5, KeepsAll DEF Steps, Closers
<1> QED
  BY <1>1, <1>2

\* What is published goes into a slot that was opened and had no session.
LEMMA PublishSteps == ASSUME IInv, Held, NEW c \in Calls, Publish(c) PROVE Steps(c)
<1> DEFINE i == calls[c].slot
           s == calls[c].session
           v == [calls[c] EXCEPT !.pc = "confirm", !.gen = 0, !.session = None, !.slot = None]
<1>0. TypeOK /\ calls[c].pc = "publish" /\ calls[c] \in Call /\ UNCHANGED map
  BY DEF IInv, Publish, At, TypeOK
<1>1. CASE slots[i].lsp # None
  BY <1>0, <1>1, RefusedSteps DEF Publish, Carriers
<1>2. CASE slots[i].lsp = None
  <2>1. /\ calls' = [calls EXCEPT ![c] = v] /\ UNCHANGED sess
        /\ slots' = [slots EXCEPT ![i].lsp = s]
    BY <1>0, <1>2 DEF Publish, TypeOK
  <2>2. i \in Slots /\ slots[i].root # None
    BY <1>0, NoneAssumption DEF IInv, Carried, CarriedBy
  <2>3. v \in Call
    BY <1>0 DEF Call
  <2>4. v.pc = "confirm" /\ v.tries = calls[c].tries /\ v.session = None
    BY <1>0 DEF Call
  <2> HIDE DEF i, s, v
  <2>5. Advance(c, v)
    BY <1>0, <2>1, <2>3, <2>4 DEF Advance, Becomes, Early, Carriers, Closers
  <2>6. \A j \in Slots : /\ slots'[j].root = slots[j].root
                         /\ slots'[j].lsp = IF j = i THEN s ELSE slots[j].lsp
    <3>1. /\ [slots[i] EXCEPT !.lsp = s].root = slots[i].root
          /\ [slots[i] EXCEPT !.lsp = s].lsp = s
      BY <1>0, <2>2 DEF TypeOK, Slot
    <3> QED
      BY <1>0, <2>1, <2>2, <3>1 DEF TypeOK
  <2>7. Keeps(c, v)
    <3>1. \A x \in Sessions : x # None => \A j \in Slots : slots[j].lsp = x => slots'[j].lsp = x
      BY <1>2, <2>6
    <3>2. \A d \in Calls : calls[d].pc = "idle" => slots'[d].lsp = None
      BY <2>2, <2>6 DEF Held, Vacant, IInv, Unborn, Slots
    <3>3. calls[c].pc \notin Closers
      BY <1>0 DEF Closers
    <3> QED
      BY <1>0, <2>1, <2>6, <3>1, <3>2, <3>3 DEF Keeps
  <2> QED
    BY <2>5, <2>7 DEF Steps
<1> QED
  BY <1>1, <1>2

-----------------------------------------------------------------------------
LEMMA InitHeld == Init => Held
<1> SUFFICES ASSUME Init PROVE Held
  OBVIOUS
<1>1. \A c \in Calls : calls[c].pc = "idle" /\ calls[c].session = None
  BY DEF Init, HoldsNothing
<1>2. Vacant
  BY NoneAssumption DEF Vacant, Init, Slots, Unused
<1> QED
  BY <1>1, <1>2 DEF Held, Holders, Asked, SeenBy, Closing, Closers

LEMMA HeldInvariant == IInv /\ Held /\ [Next]_vars => Held'
<1> SUFFICES ASSUME IInv, Held, [Next]_vars PROVE Held'
  OBVIOUS
<1>0. TypeOK
  BY DEF IInv
<1>1. ASSUME NEW c \in Calls, Steps(c) PROVE Held'
  BY <1>1, HeldStep DEF Steps
<1>2. ASSUME NEW c \in Calls, Look(c) \/ Scope(c) \/ Claim(c) \/ Admit(c) PROVE Held'
  BY <1>0, <1>1, <1>2, LookSteps, ScopeSteps, ClaimSteps, AdmitSteps
<1>3. ASSUME NEW c \in Calls, Publish(c) \/ Confirm(c) \/ Serve(c) PROVE Held'
  BY <1>0, <1>1, <1>3, PublishSteps, ConfirmSteps, ServeSteps
<1>4. ASSUME NEW c \in Calls, OpenDocument(c) \/ Restart(c) \/ Point(c) PROVE Held'
  BY <1>0, <1>1, <1>4, OpenDocumentSteps, RestartSteps, PointSteps
<1>5. ASSUME NEW c \in Calls, Repoint(c) \/ TakeDown(c) PROVE Held'
  BY <1>0, <1>1, <1>5, RepointSteps, TakeDownSteps
<1>6. ASSUME NEW c \in Calls, NEW w \in Roots, Open(c, w) \/ Activate(c, w) \/ Close(c, w)
      PROVE  Held'
  BY <1>0, <1>1, <1>6, OpenSteps, ActivateSteps, CloseSteps
<1>7. CASE UNCHANGED vars
  BY <1>7 DEF vars, Held, Holders, Asked, SeenBy, Closing, Vacant, Rooted
<1> QED
  BY <1>2, <1>3, <1>4, <1>5, <1>6, <1>7 DEF Next

\* However restarts, opens and closes interleave with commands that still hold a handle, a
\* session that no workspace has any more has been told to end (lsp_restart, close_workspace and
\* the refusals of ensure_session all request the teardown before they let go of the session).
THEOREM ReplacedSessionsEnd == Spec => []RetiredSessionsAreTornDown
<1>1. IInv /\ Held => RetiredSessionsAreTornDown
  <2> SUFFICES ASSUME Held, NEW c \in Calls, calls[c].session # None,
                      sess[calls[c].session].state = "running"
               PROVE  Current(calls[c].session)
    BY DEF RetiredSessionsAreTornDown
  <2>1. CASE calls[c].pc \in Carriers
    BY <2>1 DEF Carriers, Current
  <2>2. CASE calls[c].pc = "serve"
    BY <2>2 DEF Held, Asked, Rooted, Current, Closers
  <2> QED
    BY <2>1, <2>2 DEF Held, Holders
<1> QED
  BY <1>1, InitInvariant, StepInvariant, InitHeld, HeldInvariant, PTL DEF Spec

=============================================================================
