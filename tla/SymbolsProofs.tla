---------------------------- MODULE SymbolsProofs ----------------------------
(***************************************************************************)
(* That the symbol cache is honest, for any number of workspaces, builds,  *)
(* saves and other events: whatever is edited, saved, closed or crashes    *)
(* while a build runs, what a later build takes from the cache is what the *)
(* file declares, and an index describes the workspace it is stored in.    *)
(* And that the "indexing" flag follows the newest of a slot's builds.     *)
(***************************************************************************)
EXTENDS Symbols, TLAPS

Running == BuildSteps \ {"idle", "done"}
Reading == {"discard", "load", "stat", "parse", "truncate", "write", "record"}
Holding == {"truncate", "write", "record"}

\* What was read of a workspace's file at some time and is not refuted by the file as it is.
True(c, r) ==
    /\ c.root = r /\ c.at <= disk[r].at
    /\ c.at = disk[r].at => c.there = disk[r].there

\* An entry that matches the file was made from that very file.
Honest(e, r, projects) ==
    /\ e.symbols.root = r /\ e.symbols.owner = projects /\ e.stamp <= disk[r].at
    /\ (disk[r].there /\ e.stamp = disk[r].at) => (e.symbols.there /\ e.symbols.at = disk[r].at)

\* The fingerprint a build holds is older than its symbols, and both are younger than its start.
GoodBuild(k) ==
    /\ k.step \in Running => k.root \in Roots
    /\ k.step \in Reading => k.since <= disk[k.root].at
    /\ k.step = "stat" /\ k.remembered # None => Honest(k.remembered, k.root, k.projects)
    /\ k.step = "parse" => k.stamp <= disk[k.root].at
    /\ k.step \in Holding => /\ k.symbols \in Contents /\ True(k.symbols, k.root)
                             /\ k.symbols.owner = k.projects
                             /\ k.since <= k.symbols.at /\ k.stamp <= k.symbols.at

GoodSave(k) ==
    /\ k.step \in {"look", "read", "splice"} => k.root \in Roots
    /\ \/ k.step = "look" /\ k.symbols # None
       \/ k.step = "splice"
       => k.symbols \in Contents /\ k.symbols.root = k.root

GoodCache(r) ==
    cache[r] # None /\ cache[r].entry # None => Honest(cache[r].entry, r, cache[r].projects)

Inv == /\ TypeOK
       /\ \A b \in Builds : GoodBuild(builds[b])
       /\ \A s \in Saves : GoodSave(saves[s])
       /\ \A r \in Roots : GoodCache(r)
       /\ IndexDescribesItsWorkspace

LEMMA NoBuildType == NoBuild \in BuildCalls
BY DEF NoBuild, BuildCalls, BuildSteps

LEMMA NoSaveType == NoSave \in SaveCalls /\ Over \in SaveCalls /\ Over.step = "done"
BY DEF NoSave, Over, SaveCalls

LEMMA InitInv == Init => Inv
<1> SUFFICES ASSUME Init PROVE Inv
    OBVIOUS
<1>1. builds \in [Builds -> BuildCalls] /\ \A b \in Builds : builds[b].step = "idle"
  BY NoBuildType DEF Init, NoBuild
<1>2. saves \in [Saves -> SaveCalls] /\ \A s \in Saves : saves[s].step = "idle"
  BY NoSaveType DEF Init, NoSave
<1>3. TypeOK
  BY <1>1, <1>2, EventsAssumption DEF Init, TypeOK
<1>4. \A b \in Builds : GoodBuild(builds[b])
  BY <1>1 DEF GoodBuild, Running, Reading, Holding
<1>5. \A s \in Saves : GoodSave(saves[s])
  BY <1>2 DEF GoodSave
<1>6. (\A r \in Roots : GoodCache(r)) /\ IndexDescribesItsWorkspace
  BY DEF Init, GoodCache, IndexDescribesItsWorkspace, Open
<1> QED
  BY <1>3, <1>4, <1>5, <1>6 DEF Inv

-----------------------------------------------------------------------------
(* What the steps have in common.                                          *)

\* A build that steps on is typed and keeps everything but its place.
LEMMA StepType ==
    ASSUME TypeOK, NEW b \in Builds, NEW n \in BuildSteps, Step(b, n)
    PROVE  /\ builds' \in [Builds -> BuildCalls]
           /\ builds'[b] = [builds[b] EXCEPT !.step = n]
           /\ \A c \in Builds \ {b} : builds'[c] = builds[c]
<1>1. builds \in [Builds -> BuildCalls]
  BY DEF TypeOK
<1>2. [builds[b] EXCEPT !.step = n] \in BuildCalls
  BY <1>1 DEF BuildCalls
<1>3. builds' = [builds EXCEPT ![b] = [builds[b] EXCEPT !.step = n]]
  BY <1>1 DEF Step
<1> QED
  BY <1>1, <1>2, <1>3

\* Another place in which no more is claimed of a build.
LEMMA StepGood ==
    ASSUME NEW k \in BuildCalls, NEW n \in BuildSteps, GoodBuild(k), UNCHANGED disk,
           k.step \in Running,
           \/ n \in {"raise", "claim", "compare", "clear", "done"}
           \/ k.step = "discard" /\ n = "load"
           \/ k.step \in Holding /\ n \in Holding
    PROVE  GoodBuild([k EXCEPT !.step = n])'
BY DEF BuildCalls, GoodBuild, Running, Reading, Holding, True, Honest, BuildSteps

\* Nothing is claimed anew where the file and the cache stay as they are.
LEMMA SameBuild == ASSUME NEW k \in BuildCalls, GoodBuild(k), UNCHANGED disk PROVE GoodBuild(k)'
BY DEF GoodBuild, True, Honest

LEMMA SameCache == ASSUME NEW r \in Roots, GoodCache(r), UNCHANGED <<disk, cache>> PROVE GoodCache(r)'
BY DEF GoodCache, Honest

\* A step of one build that leaves the files, and puts nothing false into cache and index.
LEMMA BuildFrame ==
    ASSUME Inv, NEW b \in Builds, NEW k \in BuildCalls, GoodBuild(k)',
           builds' = [builds EXCEPT ![b] = k], UNCHANGED <<disk, manifests, saves, events>>,
           slots' \in [Roots -> Slots \cup {None}], active' \in Roots \cup {None},
           lives' \in [Roots -> Nat], raced' \subseteq Roots \X Nat,
           cache' \in [Roots -> Caches \cup {None}], \A r \in Roots : GoodCache(r)',
           IndexDescribesItsWorkspace'
    PROVE  Inv'
<1>1. builds' \in [Builds -> BuildCalls]
  BY DEF Inv, TypeOK
<1>2. TypeOK'
  BY <1>1 DEF Inv, TypeOK
<1>3. \A c \in Builds : GoodBuild(builds[c])'
  <2> SUFFICES ASSUME NEW c \in Builds PROVE GoodBuild(builds[c])'
      OBVIOUS
  <2>1. CASE c = b
    <3>1. builds'[b] = k
      BY DEF Inv, TypeOK
    <3> QED
      BY <2>1, <3>1 DEF GoodBuild, True, Honest
  <2>2. CASE c # b
    <3>1. builds'[c] = builds[c] /\ builds[c] \in BuildCalls /\ GoodBuild(builds[c])
      BY <2>2 DEF Inv, TypeOK
    <3> QED
      BY <3>1, SameBuild DEF GoodBuild, True, Honest
  <2> QED
    BY <2>1, <2>2
<1>4. \A s \in Saves : GoodSave(saves[s])'
  BY DEF Inv, GoodSave
<1> QED
  BY <1>2, <1>3, <1>4 DEF Inv

\* A step of one build that touches nothing else.
LEMMA BuildAlone ==
    ASSUME Inv, NEW b \in Builds, NEW k \in BuildCalls, GoodBuild(k)',
           builds' = [builds EXCEPT ![b] = k],
           UNCHANGED <<persistent, state, saves, events, raced>>
    PROVE  Inv'
<1>1. \A r \in Roots : GoodCache(r)'
  BY SameCache DEF Inv, persistent
<1>2. IndexDescribesItsWorkspace'
  BY DEF Inv, IndexDescribesItsWorkspace, Open, state
<1> QED
  BY <1>1, <1>2, BuildFrame DEF Inv, TypeOK, persistent, state

\* What a build at work knows of itself.
LEMMA BuildFacts ==
    ASSUME Inv, NEW b \in Builds
    PROVE  builds[b] \in BuildCalls /\ GoodBuild(builds[b])
BY DEF Inv, TypeOK

-----------------------------------------------------------------------------
(* The steps of a build.                                                   *)

LEMMA ScanInv == ASSUME Inv, NEW b \in Builds, NEW r \in Roots, Scan(b, r) PROVE Inv'
<1>1. manifests[r] \in Nat
  BY DEF Inv, TypeOK
<1>2. [NoBuild EXCEPT !.step = "set", !.root = r, !.projects = manifests[r]] \in BuildCalls
  BY <1>1, NoBuildType DEF BuildCalls, BuildSteps
<1>3. PICK k \in BuildCalls :
          k = [NoBuild EXCEPT !.step = "set", !.root = r, !.projects = manifests[r]]
  BY <1>2
<1>4. builds' = [builds EXCEPT ![b] = k] /\ UNCHANGED <<persistent, state, saves, events, raced>>
  BY <1>3 DEF Scan
<1>5. k.step = "set" /\ k.root = r
  BY <1>3 DEF NoBuild
<1>6. GoodBuild(k)'
  BY <1>5 DEF GoodBuild, Running, Reading, Holding
<1> QED
  BY <1>4, <1>6, BuildAlone

LEMMA RebuildInv == ASSUME Inv, NEW b \in Builds, Rebuild(b) PROVE Inv'
<1> DEFINE K == [NoBuild EXCEPT !.step = "claim", !.root = active, !.mode = "fromSource",
                                !.projects = slots[active].projects]
<1>1. active \in Roots /\ slots[active].projects \in Nat
  BY DEF Inv, TypeOK, Rebuild, Open, Slots
<1>2. K \in BuildCalls
  BY <1>1, NoBuildType DEF BuildCalls, BuildSteps
<1>3. PICK k \in BuildCalls : k = K
  BY <1>2
<1>4. builds' = [builds EXCEPT ![b] = k] /\ UNCHANGED <<persistent, state, saves, events, raced>>
  BY <1>3 DEF Rebuild
<1>5. k.step = "claim" /\ k.root \in Roots
  BY <1>1, <1>3 DEF NoBuild
<1>6. GoodBuild(k)'
  BY <1>5 DEF GoodBuild, Running, Reading, Holding
<1> QED
  BY <1>4, <1>6, BuildAlone

\* The step of a build that only goes on, with the slots changed within their types.
LEMMA GoesOn ==
    ASSUME Inv, NEW b \in Builds, NEW n \in BuildSteps, Step(b, n), builds[b].step \in Running,
           \/ n \in {"raise", "claim", "compare", "clear", "done"}
           \/ builds[b].step = "discard" /\ n = "load"
           \/ builds[b].step \in Holding /\ n \in Holding,
           UNCHANGED <<disk, manifests, saves, events, raced>>,
           slots' \in [Roots -> Slots \cup {None}], active' \in Roots \cup {None},
           lives' \in [Roots -> Nat], cache' \in [Roots -> Caches \cup {None}],
           \A r \in Roots : GoodCache(r)', IndexDescribesItsWorkspace'
    PROVE  Inv'
<1>1. PICK j \in BuildCalls : j = builds[b]
  BY BuildFacts
<1>2. [j EXCEPT !.step = n] \in BuildCalls
  BY <1>1 DEF BuildCalls
<1>3. PICK k \in BuildCalls : k = [j EXCEPT !.step = n]
  BY <1>2
<1>4. builds' = [builds EXCEPT ![b] = k]
  BY <1>1, <1>3 DEF Step, Inv, TypeOK
<1>5. GoodBuild(j)
  BY <1>1, BuildFacts
<1>6. GoodBuild([j EXCEPT !.step = n])'
  BY <1>1, <1>5, StepGood
<1>7. GoodBuild(k)'
  BY <1>3, <1>6
<1>8. raced' \subseteq Roots \X Nat
  BY DEF Inv, TypeOK
<1> QED
  BY <1>4, <1>7, <1>8, BuildFrame

\* A slot that is open is typed.
LEMMA OpenSlot ==
    ASSUME Inv, NEW r, r \in Roots \cup {None}, Open(r)
    PROVE  r \in Roots /\ slots[r] \in Slots /\ lives[r] \in Nat
BY DEF Inv, TypeOK, Open

LEMMA SetWorkspaceInv == ASSUME Inv, NEW b \in Builds, SetWorkspace(b) PROVE Inv'
<1>1. PICK r \in Roots : r = builds[b].root
  BY BuildFacts DEF SetWorkspace, GoodBuild, Running, BuildSteps
<1>2. PICK p \in Nat : p = builds[b].projects
  BY BuildFacts DEF BuildCalls
<1> DEFINE fresh == [life |-> lives[r] + 1, projects |-> p, index |-> None, flag |-> FALSE,
                     generation |-> 0]
           slot == IF Open(r) THEN [slots[r] EXCEPT !.projects = p] ELSE fresh
<1>3. lives[r] \in Nat /\ lives[r] + 1 \in Nat
  BY DEF Inv, TypeOK
<1>4. fresh \in Slots /\ fresh.index = None
  BY <1>3 DEF Slots
<1>5. Open(r) => [slots[r] EXCEPT !.projects = p] \in Slots
  BY OpenSlot DEF Slots
<1>6. slot \in Slots
  BY <1>4, <1>5
<1>7. slots' = [slots EXCEPT ![r] = slot] /\ active' = r /\ Step(b, "claim")
      /\ UNCHANGED <<persistent, saves, events, raced>>
  BY <1>1, <1>2 DEF SetWorkspace
<1>8. slot.index = IF Open(r) THEN slots[r].index ELSE None
  BY <1>4, OpenSlot DEF Slots
<1>9. IndexDescribesItsWorkspace'
  <2> SUFFICES ASSUME NEW o \in Roots, slots'[o] # None, slots'[o].index # None
               PROVE  slots'[o].index.root = o
      BY DEF IndexDescribesItsWorkspace, Open
  <2> HIDE DEF slot
  <2>1. slots' = [slots EXCEPT ![r] = slot] /\ slots \in [Roots -> Slots \cup {None}]
    BY <1>7 DEF Inv, TypeOK
  <2>2. Open(o) /\ slots[o].index = slots'[o].index
    BY <2>1, <1>8, NamesAssumption DEF Open
  <2> QED
    BY <2>2 DEF Inv, IndexDescribesItsWorkspace
<1> HIDE DEF slot
<1>10. slots' \in [Roots -> Slots \cup {None}] /\ active' \in Roots \cup {None}
  BY <1>6, <1>7 DEF Inv, TypeOK
<1>11. lives' \in [Roots -> Nat]
  BY <1>1, <1>3 DEF Inv, TypeOK, SetWorkspace
<1>12. cache' \in [Roots -> Caches \cup {None}] /\ \A o \in Roots : GoodCache(o)'
  BY <1>7, SameCache DEF Inv, TypeOK, persistent
<1>13. builds[b].step \in Running /\ "claim" \in BuildSteps
  BY DEF SetWorkspace, Running, BuildSteps
<1> QED
  BY <1>7, <1>9, <1>10, <1>11, <1>12, <1>13, GoesOn DEF persistent

\* What is true of every step that leaves the cache, and every step that leaves the slots.
LEMMA CacheFrame ==
    ASSUME Inv, UNCHANGED <<disk, cache>>
    PROVE  cache' \in [Roots -> Caches \cup {None}] /\ \A o \in Roots : GoodCache(o)'
BY SameCache DEF Inv, TypeOK

LEMMA SlotsFrame ==
    ASSUME Inv, UNCHANGED state
    PROVE  /\ slots' \in [Roots -> Slots \cup {None}] /\ active' \in Roots \cup {None}
           /\ lives' \in [Roots -> Nat] /\ IndexDescribesItsWorkspace'
BY DEF Inv, TypeOK, state, IndexDescribesItsWorkspace, Open

\* A slot whose flag or generation alone has changed.
LEMMA SlotKeepsIndex ==
    ASSUME Inv, NEW r \in Roots, Open(r), NEW slot \in Slots, slot.index = slots[r].index,
           slots' = [slots EXCEPT ![r] = slot]
    PROVE  slots' \in [Roots -> Slots \cup {None}] /\ IndexDescribesItsWorkspace'
<1>1. slots \in [Roots -> Slots \cup {None}]
  BY DEF Inv, TypeOK
<1>2. slots' \in [Roots -> Slots \cup {None}]
  BY <1>1
<1> SUFFICES ASSUME NEW o \in Roots, slots'[o] # None, slots'[o].index # None
             PROVE  slots'[o].index.root = o
    BY <1>2 DEF IndexDescribesItsWorkspace, Open
<1>3. Open(o) /\ slots[o].index = slots'[o].index
  BY <1>1, NamesAssumption DEF Open
<1> QED
  BY <1>3 DEF Inv, IndexDescribesItsWorkspace

LEMMA ClearInv == ASSUME Inv, NEW b \in Builds, Clear(b) PROVE Inv'
<1>1. builds[b].step \in Running /\ "done" \in BuildSteps
  BY DEF Clear, Running, BuildSteps
<1>2. slots' \in [Roots -> Slots \cup {None}] /\ IndexDescribesItsWorkspace'
  <2>1. CASE ~Holds(builds[b].guard)
    BY <2>1, SlotsFrame DEF Clear, state
  <2>2. CASE Holds(builds[b].guard)
    <3>1. PICK r \in Roots : r = builds[b].guard.root /\ Open(r)
      BY <2>2, BuildFacts DEF Holds, BuildCalls, Guards
    <3>2. [slots[r] EXCEPT !.flag = FALSE] \in Slots
      BY <3>1, OpenSlot DEF Slots
    <3>3. PICK slot \in Slots : slot = [slots[r] EXCEPT !.flag = FALSE]
      BY <3>2
    <3>4. slot.index = slots[r].index
      BY <3>1, <3>3, OpenSlot DEF Slots
    <3>5. slots' = [slots EXCEPT ![r] = slot]
      BY <2>2, <3>1, <3>3 DEF Clear
    <3> QED
      BY <3>1, <3>4, <3>5, SlotKeepsIndex
  <2> QED
    BY <2>1, <2>2
<1>3. UNCHANGED <<persistent, active, lives, saves, events, raced>> /\ Step(b, "done")
  BY DEF Clear
<1>4. active' \in Roots \cup {None} /\ lives' \in [Roots -> Nat]
  BY <1>3 DEF Inv, TypeOK
<1>5. cache' \in [Roots -> Caches \cup {None}] /\ \A o \in Roots : GoodCache(o)'
  BY <1>3, CacheFrame DEF persistent
<1> QED
  BY <1>1, <1>2, <1>3, <1>4, <1>5, GoesOn DEF persistent

LEMMA CompareInv == ASSUME Inv, NEW b \in Builds, Compare(b) PROVE Inv'
<1>1. PICK n \in {"clear", "done"} : Step(b, n)
  BY DEF Compare
<1>2. builds[b].step \in Running /\ n \in BuildSteps
  BY DEF Compare, Running, BuildSteps
<1>3. UNCHANGED <<persistent, state, saves, events, raced>>
  BY DEF Compare
<1> QED
  BY <1>1, <1>2, <1>3, SlotsFrame, CacheFrame, GoesOn DEF persistent

LEMMA DiscardInv == ASSUME Inv, NEW b \in Builds, Discard(b) PROVE Inv'
<1>1. builds[b].step = "discard" /\ builds[b].step \in Running /\ "load" \in BuildSteps
  BY DEF Discard, Running, BuildSteps
<1>2. PICK r \in Roots : r = builds[b].root
  BY <1>1, BuildFacts DEF GoodBuild
<1>3. cache' = [cache EXCEPT ![r] = None] /\ UNCHANGED <<disk, manifests, state, saves, events, raced>>
  BY <1>2 DEF Discard
<1>4. cache' \in [Roots -> Caches \cup {None}]
  BY <1>3 DEF Inv, TypeOK
<1>5. \A o \in Roots : GoodCache(o)'
  BY <1>3 DEF Inv, TypeOK, GoodCache, Honest
<1>6. Step(b, "load")
  BY DEF Discard
<1> QED
  BY <1>1, <1>3, <1>4, <1>5, <1>6, SlotsFrame, GoesOn

LEMMA TruncateInv == ASSUME Inv, NEW b \in Builds, Truncate(b) PROVE Inv'
<1>1. builds[b].step = "truncate" /\ builds[b].step \in Running
      /\ {"write", "record"} \subseteq BuildSteps /\ {"truncate", "write", "record"} \subseteq Holding
  BY DEF Truncate, Running, BuildSteps, Holding
<1>2. PICK r \in Roots : r = builds[b].root
  BY <1>1, BuildFacts DEF GoodBuild
<1>3. PICK n \in {"write", "record"} :
          Step(b, n) /\ (cache' = [cache EXCEPT ![r] = None] \/ UNCHANGED cache)
  BY <1>2 DEF Truncate
<1>4. UNCHANGED <<disk, manifests, state, saves, events, raced>>
  BY DEF Truncate
<1>5. cache' \in [Roots -> Caches \cup {None}]
  BY <1>3 DEF Inv, TypeOK
<1>6. \A o \in Roots : GoodCache(o)'
  BY <1>3, <1>4 DEF Inv, TypeOK, GoodCache, Honest
<1>7. builds[b].step \in Holding /\ n \in Holding /\ n \in BuildSteps
  BY <1>1
<1> QED
  BY <1>1, <1>3, <1>4, <1>5, <1>6, <1>7, SlotsFrame, GoesOn

LEMMA WriteInv == ASSUME Inv, NEW b \in Builds, Write(b) PROVE Inv'
<1>1. builds[b].step = "write" /\ builds[b].step \in Running /\ "record" \in BuildSteps
      /\ {"write", "record"} \subseteq Holding
  BY DEF Write, Running, BuildSteps, Holding
<1>2. PICK k \in BuildCalls : k = builds[b] /\ GoodBuild(k) /\ k.step = "write"
  BY <1>1, BuildFacts
<1>3. PICK r \in Roots : r = k.root
  BY <1>2 DEF GoodBuild, Running, BuildSteps
<1> DEFINE e == IF k.symbols.there THEN [stamp |-> k.stamp, symbols |-> k.symbols] ELSE None
           c == [projects |-> k.projects, entry |-> e]
<1>4. cache' = [cache EXCEPT ![r] = c] /\ UNCHANGED <<disk, manifests, state, saves, events, raced>>
  BY <1>2, <1>3 DEF Write
<1>5. k.symbols \in Contents /\ True(k.symbols, r) /\ k.symbols.owner = k.projects
      /\ k.stamp <= k.symbols.at /\ k.stamp \in Nat /\ k.projects \in Nat
  BY <1>2, <1>3 DEF GoodBuild, Holding, BuildCalls
<1>6. k.symbols.there => [stamp |-> k.stamp, symbols |-> k.symbols] \in Entries
  BY <1>5 DEF Entries
<1>7. e \in Entries \cup {None}
  BY <1>6
<1>8. c \in Caches
  <2> HIDE DEF e
  <2> QED
    BY <1>5, <1>7 DEF Caches
<1>9. disk[r].at \in Nat /\ k.symbols.at \in Nat
  BY <1>5 DEF Inv, TypeOK, Contents
<1>10. k.symbols.there => Honest([stamp |-> k.stamp, symbols |-> k.symbols], r, k.projects)
  BY <1>5, <1>9 DEF Honest, True
<1>11. c.entry = e /\ c.projects = k.projects
  OBVIOUS
<1>12. c.entry # None => Honest(c.entry, r, c.projects)
  BY <1>10, <1>11
<1> HIDE DEF c
<1>13. cache' \in [Roots -> Caches \cup {None}]
  BY <1>4, <1>8 DEF Inv, TypeOK
<1>14. \A o \in Roots : GoodCache(o)'
  <2> SUFFICES ASSUME NEW o \in Roots PROVE GoodCache(o)'
      OBVIOUS
  <2>1. CASE o = r
    <3>1. cache'[o] = c
      BY <2>1, <1>4 DEF Inv, TypeOK
    <3> QED
      BY <2>1, <3>1, <1>4, <1>12 DEF GoodCache, Honest
  <2>2. CASE o # r
    <3>1. cache'[o] = cache[o] /\ GoodCache(o)
      BY <2>2, <1>4 DEF Inv, TypeOK
    <3> QED
      BY <3>1, <1>4 DEF GoodCache, Honest
  <2> QED
    BY <2>1, <2>2
<1>15. Step(b, "record") /\ builds[b].step \in Holding /\ "record" \in Holding
  BY <1>1 DEF Write
<1> QED
  BY <1>1, <1>4, <1>13, <1>14, <1>15, SlotsFrame, GoesOn

LEMMA LoadInv == ASSUME Inv, NEW b \in Builds, Load(b) PROVE Inv'
<1>1. PICK j \in BuildCalls : j = builds[b] /\ GoodBuild(j) /\ j.step = "load"
  BY BuildFacts DEF Load
<1>2. PICK r \in Roots : r = j.root
  BY <1>1 DEF GoodBuild, Running, BuildSteps
<1>3. PICK e \in Entries \cup {None} :
          e = IF cache[r] # None /\ cache[r].projects = j.projects THEN cache[r].entry ELSE None
  BY DEF Inv, TypeOK, Caches
<1>4. [j EXCEPT !.step = "stat", !.remembered = e] \in BuildCalls
  BY <1>1 DEF BuildCalls, BuildSteps
<1>5. PICK k \in BuildCalls : k = [j EXCEPT !.step = "stat", !.remembered = e]
  BY <1>4
<1>6. builds' = [builds EXCEPT ![b] = k]
  <2>1. builds \in [Builds -> BuildCalls]
    BY DEF Inv, TypeOK
  <2> QED
    BY <1>1, <1>2, <1>3, <1>5, <2>1 DEF Load
<1>7. k.step = "stat" /\ k.remembered = e /\ k.root = r /\ k.projects = j.projects /\ k.since = j.since
  BY <1>2, <1>5 DEF BuildCalls
<1>8. j.since <= disk[r].at
  BY <1>1, <1>2 DEF GoodBuild, Reading
<1>9. e # None => Honest(e, r, j.projects)
  BY <1>3 DEF Inv, GoodCache
<1>10. GoodBuild(k)
  BY <1>7, <1>8, <1>9 DEF GoodBuild, Holding
<1>11. UNCHANGED <<persistent, state, saves, events, raced>>
  BY DEF Load
<1>12. GoodBuild(k)'
  BY <1>10, <1>11, SameBuild DEF persistent
<1> QED
  BY <1>6, <1>11, <1>12, BuildAlone

LEMMA StatInv == ASSUME Inv, NEW b \in Builds, Stat(b) PROVE Inv'
<1>1. PICK j \in BuildCalls : j = builds[b] /\ GoodBuild(j) /\ j.step = "stat"
  BY BuildFacts DEF Stat
<1>2. PICK r \in Roots : r = j.root
  BY <1>1 DEF GoodBuild, Running, BuildSteps
<1>3. disk[r].at \in Nat /\ disk[r].there \in BOOLEAN /\ j.projects \in Nat /\ j.since <= disk[r].at
      /\ j.since \in Nat
  BY <1>1, <1>2 DEF Inv, TypeOK, BuildCalls, GoodBuild, Reading
<1> DEFINE hit == j.remembered # None /\ j.remembered.stamp = disk[r].at
           place == IF disk[r].there /\ ~hit THEN "parse" ELSE "truncate"
           found == CASE ~disk[r].there -> Indexed(r, j.projects)
                      [] disk[r].there /\ hit -> j.remembered.symbols
                      [] OTHER -> None
           K == [j EXCEPT !.step = place, !.stamp = disk[r].at, !.remembered = None, !.symbols = found]
<1>4. Indexed(r, j.projects) \in Contents
  BY <1>3 DEF Indexed, Contents
<1>5. hit => j.remembered.symbols \in Contents
  BY <1>1 DEF BuildCalls, Entries
<1>6. found \in Contents \cup {None}
  BY <1>4, <1>5
<1>7. place \in BuildSteps /\ place \in {"parse", "truncate"}
  BY DEF BuildSteps
<1>8. place = "truncate" =>
          /\ found \in Contents /\ True(found, r)
          /\ found.owner = j.projects /\ found.at = disk[r].at
  <2>1. CASE ~disk[r].there
    <3>1. found = Indexed(r, j.projects)
      BY <2>1
    <3> QED
      BY <3>1, <2>1, <1>3, <1>4 DEF Indexed, True
  <2>2. CASE disk[r].there /\ hit
    <3>1. found = j.remembered.symbols
      BY <2>2
    <3>2. Honest(j.remembered, r, j.projects)
      BY <2>2, <1>1, <1>2 DEF GoodBuild
    <3> QED
      BY <3>1, <3>2, <2>2, <1>3, <1>5 DEF Honest, True
  <2> QED
    BY <2>1, <2>2
<1> HIDE DEF found, place, hit
<1>9. K \in BuildCalls
  BY <1>3, <1>6, <1>7 DEF BuildCalls
<1>10. PICK k \in BuildCalls : k = K
  BY <1>9
<1>11. builds' = [builds EXCEPT ![b] = k]
  <2>1. builds \in [Builds -> BuildCalls]
    BY DEF Inv, TypeOK
  <2> QED
    BY <1>1, <1>2, <1>10, <2>1 DEF Stat, found, place, hit
<1>12. k.step = place /\ k.stamp = disk[r].at /\ k.symbols = found
       /\ k.root = r /\ k.projects = j.projects /\ k.since = j.since
  BY <1>2, <1>10 DEF BuildCalls
<1>13. GoodBuild(k)
  BY <1>3, <1>7, <1>8, <1>12 DEF GoodBuild, Holding
<1>14. UNCHANGED <<persistent, state, saves, events, raced>>
  BY DEF Stat
<1>15. GoodBuild(k)'
  BY <1>13, <1>14, SameBuild DEF persistent
<1> QED
  BY <1>11, <1>14, <1>15, BuildAlone

LEMMA ParseInv == ASSUME Inv, NEW b \in Builds, Parse(b) PROVE Inv'
<1>1. PICK j \in BuildCalls : j = builds[b] /\ GoodBuild(j) /\ j.step = "parse"
  BY BuildFacts DEF Parse
<1>2. PICK r \in Roots : r = j.root
  BY <1>1 DEF GoodBuild, Running, BuildSteps
<1>3. disk[r].at \in Nat /\ disk[r].there \in BOOLEAN /\ j.projects \in Nat /\ j.since <= disk[r].at
      /\ j.stamp <= disk[r].at
  BY <1>1, <1>2 DEF Inv, TypeOK, BuildCalls, GoodBuild, Reading
<1>4. PICK found \in Contents : found = Indexed(r, j.projects)
  BY <1>3 DEF Indexed, Contents
<1>5. True(found, r) /\ found.owner = j.projects /\ found.at = disk[r].at
  BY <1>3, <1>4 DEF Indexed, True
<1>6. [j EXCEPT !.step = "truncate", !.symbols = found] \in BuildCalls
  BY DEF BuildCalls, BuildSteps
<1>7. PICK k \in BuildCalls : k = [j EXCEPT !.step = "truncate", !.symbols = found]
  BY <1>6
<1>8. builds' = [builds EXCEPT ![b] = k]
  <2>1. builds \in [Builds -> BuildCalls]
    BY DEF Inv, TypeOK
  <2> QED
    BY <1>1, <1>2, <1>4, <1>7, <2>1 DEF Parse
<1>9. k.step = "truncate" /\ k.symbols = found /\ k.root = r /\ k.projects = j.projects
      /\ k.since = j.since /\ k.stamp = j.stamp
  BY <1>2, <1>7 DEF BuildCalls
<1>10. GoodBuild(k)
  BY <1>3, <1>5, <1>9 DEF GoodBuild, Holding
<1>11. UNCHANGED <<persistent, state, saves, events, raced>>
  BY DEF Parse
<1>12. GoodBuild(k)'
  BY <1>10, <1>11, SameBuild DEF persistent
<1> QED
  BY <1>8, <1>11, <1>12, BuildAlone

LEMMA RecordInv == ASSUME Inv, NEW b \in Builds, Record(b) PROVE Inv'
<1>1. PICK j \in BuildCalls : j = builds[b] /\ GoodBuild(j) /\ j.step = "record"
  BY BuildFacts DEF Record
<1>2. PICK r \in Roots : r = j.root
  BY <1>1 DEF GoodBuild, Running, BuildSteps
<1>3. j.symbols \in Contents /\ j.symbols.root = r
  BY <1>1, <1>2 DEF GoodBuild, Holding, True
<1> DEFINE K == [j EXCEPT !.step = "compare", !.projects = 0, !.mode = "cached", !.stamp = 0,
                          !.symbols = None]
<1>4. K \in BuildCalls
  BY DEF BuildCalls, BuildSteps
<1>5. PICK k \in BuildCalls : k = K
  BY <1>4
<1>6. k.step = "compare" /\ k.root = r
  BY <1>2, <1>5 DEF BuildCalls
<1>7. builds' = [builds EXCEPT ![b] = k]
  BY <1>1, <1>5 DEF Record, Recorded, Inv, TypeOK
<1>8. GoodBuild(k)'
  BY <1>6 DEF GoodBuild, Reading, Holding
<1>9. UNCHANGED <<persistent, active, lives, saves, events, raced>>
  BY DEF Record
<1>10. slots \in [Roots -> Slots \cup {None}] /\ active' \in Roots \cup {None}
       /\ lives' \in [Roots -> Nat] /\ raced' \subseteq Roots \X Nat
  BY <1>9 DEF Inv, TypeOK
<1>11. slots' \in [Roots -> Slots \cup {None}] /\ IndexDescribesItsWorkspace'
  <2>1. CASE ~Open(r)
    BY <2>1, <1>1, <1>2, <1>10 DEF Record, Inv, IndexDescribesItsWorkspace, Open
  <2>2. CASE Open(r)
    <3>1. [slots[r] EXCEPT !.index = j.symbols] \in Slots
      BY <1>3, <2>2, OpenSlot DEF Slots
    <3>2. PICK slot \in Slots : slot = [slots[r] EXCEPT !.index = j.symbols]
      BY <3>1
    <3>3. slot.index = j.symbols
      BY <2>2, <3>2, OpenSlot DEF Slots
    <3>4. slots' = [slots EXCEPT ![r] = slot]
      BY <1>1, <1>2, <2>2, <3>2, <1>10 DEF Record
    <3> QED
      BY <1>3, <1>10, <3>3, <3>4 DEF Inv, IndexDescribesItsWorkspace, Open
  <2> QED
    BY <2>1, <2>2
<1>12. cache' \in [Roots -> Caches \cup {None}] /\ \A o \in Roots : GoodCache(o)'
  BY <1>9, CacheFrame DEF persistent
<1> QED
  BY <1>7, <1>8, <1>9, <1>10, <1>11, <1>12, BuildFrame DEF persistent

LEMMA ClaimInv == ASSUME Inv, NEW b \in Builds, Claim(b) PROVE Inv'
<1>1. builds[b].step \in Running /\ "raise" \in BuildSteps
  BY DEF Claim, Running, BuildSteps
<1>2. UNCHANGED <<persistent, active, lives, saves, events>>
  BY DEF Claim
<1>3. slots \in [Roots -> Slots \cup {None}] /\ active' \in Roots \cup {None}
      /\ lives' \in [Roots -> Nat] /\ raced \subseteq Roots \X Nat
  BY <1>2 DEF Inv, TypeOK
<1>4. cache' \in [Roots -> Caches \cup {None}] /\ \A o \in Roots : GoodCache(o)'
  BY <1>2, CacheFrame DEF persistent
<1>5. CASE ~Open(active)
  <2>1. Step(b, "raise") /\ UNCHANGED <<slots, raced>>
    BY <1>5 DEF Claim
  <2>2. IndexDescribesItsWorkspace'
    BY <2>1, <1>2, SlotsFrame DEF state
  <2> QED
    BY <1>1, <1>2, <1>3, <1>4, <2>1, <2>2, GoesOn DEF persistent
<1>6. CASE Open(active)
  <2>1. PICK r \in Roots : r = active /\ slots[r] \in Slots /\ Open(r)
    BY <1>6, <1>3, OpenSlot DEF Inv, TypeOK
  <2>2. PICK n \in Nat : n = slots[r].generation + 1
    BY <2>1 DEF Slots
  <2>3. PICK guard \in Guards : guard = [root |-> r, life |-> slots[r].life, generation |-> n]
    BY <2>1 DEF Slots, Guards
  <2>4. PICK j \in BuildCalls : j = builds[b] /\ GoodBuild(j) /\ j.step = "claim"
    BY BuildFacts DEF Claim
  <2>5. [j EXCEPT !.step = "raise", !.guard = guard] \in BuildCalls
    BY DEF BuildCalls, BuildSteps
  <2>6. PICK k \in BuildCalls : k = [j EXCEPT !.step = "raise", !.guard = guard]
    BY <2>5
  <2>7. builds' = [builds EXCEPT ![b] = k]
    <3>1. builds \in [Builds -> BuildCalls]
      BY DEF Inv, TypeOK
    <3> QED
      BY <1>6, <2>1, <2>2, <2>3, <2>4, <2>6, <3>1 DEF Claim
  <2>8. k.step = "raise" /\ k.root = j.root
    BY <2>6 DEF BuildCalls
  <2>9. GoodBuild(k)'
    BY <2>4, <2>8 DEF GoodBuild, Running, Reading, Holding, BuildSteps
  <2>10. [slots[r] EXCEPT !.generation = n] \in Slots
    BY <2>1 DEF Slots
  <2>11. PICK slot \in Slots : slot = [slots[r] EXCEPT !.generation = n]
    BY <2>10
  <2>12. slot.index = slots[r].index
    BY <2>1, <2>11 DEF Slots
  <2>13. slots' = [slots EXCEPT ![r] = slot]
    BY <1>3, <1>6, <2>1, <2>2, <2>11 DEF Claim
  <2>14. slots' \in [Roots -> Slots \cup {None}] /\ IndexDescribesItsWorkspace'
    BY <2>1, <2>12, <2>13, SlotKeepsIndex
  <2>15. <<r, slots[r].life>> \in Roots \X Nat
    BY <2>1 DEF Slots
  <2>16. raced' = raced \cup {<<r, slots[r].life>>} \/ raced' = raced
    BY <1>6, <2>1 DEF Claim
  <2>17. raced' \subseteq Roots \X Nat
    BY <1>3, <2>15, <2>16
  <2> QED
    BY <1>2, <1>3, <1>4, <2>7, <2>9, <2>14, <2>17, BuildFrame DEF persistent
<1> QED
  BY <1>5, <1>6

LEMMA RaiseInv == ASSUME Inv, NEW b \in Builds, Raise(b) PROVE Inv'
<1>1. PICK j \in BuildCalls : j = builds[b] /\ GoodBuild(j) /\ j.step = "raise"
  BY BuildFacts DEF Raise
<1>2. PICK r \in Roots : r = j.root
  BY <1>1 DEF GoodBuild, Running, BuildSteps
<1>3. PICK now \in Nat : now = disk[r].at
  BY DEF Inv, TypeOK
<1>4. PICK n \in {"load", "discard"} : n = IF j.mode = "cached" THEN "load" ELSE "discard"
  OBVIOUS
<1>5. [j EXCEPT !.step = n, !.since = now] \in BuildCalls
  BY DEF BuildCalls, BuildSteps
<1>6. PICK k \in BuildCalls : k = [j EXCEPT !.step = n, !.since = now]
  BY <1>5
<1>7. builds' = [builds EXCEPT ![b] = k]
  <2>1. builds \in [Builds -> BuildCalls]
    BY DEF Inv, TypeOK
  <2> QED
    BY <1>1, <1>2, <1>3, <1>4, <1>6, <2>1 DEF Raise
<1>8. k.step = n /\ k.since = now /\ k.root = r
  BY <1>2, <1>6 DEF BuildCalls
<1>9. UNCHANGED <<persistent, active, lives, saves, events, raced>>
  BY DEF Raise
<1>10. GoodBuild(k)
  BY <1>3, <1>8 DEF GoodBuild, Holding
<1>11. GoodBuild(k)'
  BY <1>9, <1>10, SameBuild DEF persistent
<1>12. active' \in Roots \cup {None} /\ lives' \in [Roots -> Nat] /\ raced' \subseteq Roots \X Nat
  BY <1>9 DEF Inv, TypeOK
<1>13. cache' \in [Roots -> Caches \cup {None}] /\ \A o \in Roots : GoodCache(o)'
  BY <1>9, CacheFrame DEF persistent
<1>14. slots' \in [Roots -> Slots \cup {None}] /\ IndexDescribesItsWorkspace'
  <2>1. CASE ~Holds(j.guard)
    BY <2>1, <1>1, <1>9, SlotsFrame DEF Raise, state
  <2>2. CASE Holds(j.guard)
    <3>1. PICK o \in Roots : o = j.guard.root /\ Open(o)
      BY <2>2 DEF Holds, BuildCalls, Guards
    <3>2. [slots[o] EXCEPT !.flag = TRUE] \in Slots
      BY <3>1, OpenSlot DEF Slots
    <3>3. PICK slot \in Slots : slot = [slots[o] EXCEPT !.flag = TRUE]
      BY <3>2
    <3>4. slot.index = slots[o].index
      BY <3>1, <3>3, OpenSlot DEF Slots
    <3>5. slots' = [slots EXCEPT ![o] = slot]
      BY <1>1, <2>2, <3>1, <3>3 DEF Raise
    <3> QED
      BY <3>1, <3>4, <3>5, SlotKeepsIndex
  <2> QED
    BY <2>1, <2>2
<1> QED
  BY <1>7, <1>9, <1>11, <1>12, <1>13, <1>14, BuildFrame DEF persistent

-----------------------------------------------------------------------------
(* Saves, and what else happens.                                           *)

\* The file is changed: what was read of it is older than what it is.
LEMMA DiskMoves ==
    ASSUME Inv, NEW r \in Roots, NEW there \in BOOLEAN,
           disk' = [disk EXCEPT ![r] = [at |-> @.at + 1, there |-> there]],
           UNCHANGED <<manifests, cache, state, builds, raced>>,
           saves' \in [Saves -> SaveCalls], \A s \in Saves : GoodSave(saves[s])',
           events' \in 0 .. MaxEvents
    PROVE  Inv'
<1>1. \A o \in Roots : disk[o].at \in Nat /\ disk[o].there \in BOOLEAN
  BY DEF Inv, TypeOK
<1>2. \A o \in Roots : disk'[o] = IF o = r THEN [at |-> disk[r].at + 1, there |-> there] ELSE disk[o]
  BY DEF Inv, TypeOK
<1>3. [at |-> disk[r].at + 1, there |-> there] \in [at : Nat, there : BOOLEAN]
  BY <1>1
<1>4. disk' \in [Roots -> [at : Nat, there : BOOLEAN]]
  BY <1>3 DEF Inv, TypeOK
<1>5. \A o \in Roots : disk[o].at <= disk'[o].at
                       /\ (disk'[o].at = disk[o].at => disk'[o] = disk[o]) /\ disk'[o].at \in Nat
  BY <1>1, <1>2
<1>6. ASSUME NEW e \in Entries, NEW o \in Roots, NEW p, Honest(e, o, p) PROVE Honest(e, o, p)'
  BY <1>1, <1>5, <1>6 DEF Honest, Entries, Contents
<1>7. ASSUME NEW c \in Contents, NEW o \in Roots, True(c, o) PROVE True(c, o)'
  BY <1>1, <1>5, <1>7 DEF True, Contents
<1>8. ASSUME NEW k \in BuildCalls, GoodBuild(k) PROVE GoodBuild(k)'
  <2>1. k.step \in Running => k.root \in Roots
    BY <1>8 DEF GoodBuild
  <2>2. k.step \in Reading => k.since <= disk'[k.root].at
    BY <1>1, <1>5, <1>8, <2>1 DEF GoodBuild, BuildCalls, Reading, Running, BuildSteps
  <2>3. k.step = "stat" /\ k.remembered # None => Honest(k.remembered, k.root, k.projects)'
    BY <1>6, <1>8, <2>1 DEF GoodBuild, BuildCalls, Running, BuildSteps
  <2>4. k.step = "parse" => k.stamp <= disk'[k.root].at
    BY <1>1, <1>5, <1>8, <2>1 DEF GoodBuild, BuildCalls, Running, BuildSteps
  <2>5. k.step \in Holding => True(k.symbols, k.root)'
    BY <1>7, <1>8, <2>1 DEF GoodBuild, Holding, Running, BuildSteps
  <2> QED
    BY <1>8, <2>1, <2>2, <2>3, <2>4, <2>5 DEF GoodBuild
<1>9. \A b \in Builds : GoodBuild(builds[b])'
  <2> TAKE b \in Builds
  <2>1. PICK k \in BuildCalls : k = builds[b] /\ GoodBuild(k)
    BY BuildFacts
  <2>2. builds'[b] = k
    BY <2>1
  <2> QED
    BY <1>8, <2>1, <2>2 DEF GoodBuild, True, Honest
<1>10. \A o \in Roots : GoodCache(o)'
  <2> SUFFICES ASSUME NEW o \in Roots, (cache[o] # None /\ cache[o].entry # None)'
               PROVE  Honest(cache[o].entry, o, cache[o].projects)'
      BY DEF GoodCache
  <2>1. PICK e \in Entries : e = cache[o].entry
    BY DEF Inv, TypeOK, Caches
  <2>2. PICK p \in Nat : p = cache[o].projects
    BY DEF Inv, TypeOK, Caches
  <2>3. Honest(e, o, p)
    BY <2>1, <2>2 DEF Inv, GoodCache
  <2>4. Honest(e, o, p)'
    BY <1>6, <2>3
  <2>5. cache'[o].entry = e /\ cache'[o].projects = p
    BY <2>1, <2>2
  <2> QED
    BY <2>4, <2>5 DEF Honest
<1>11. IndexDescribesItsWorkspace'
  BY SlotsFrame
<1>12. TypeOK'
  BY <1>4 DEF Inv, TypeOK, state
<1> QED
  BY <1>9, <1>10, <1>11, <1>12 DEF Inv

LEMMA WriteFileInv ==
    ASSUME Inv, NEW s \in Saves, NEW there \in BOOLEAN, WriteFile(s, there) PROVE Inv'
<1>1. PICK r \in Roots : r = active
  BY OpenSlot DEF WriteFile, Inv, TypeOK
<1> DEFINE gone == [root |-> r, at |-> disk[r].at + 1, there |-> FALSE, owner |-> 0]
           call == [step |-> "look", root |-> r, projects |-> 0,
                    symbols |-> IF there THEN None ELSE gone]
<1>2. gone \in Contents /\ gone.root = r
  BY DEF Inv, TypeOK, Contents
<1>3. (IF there THEN None ELSE gone) \in Contents \cup {None}
  BY <1>2
<1>4. call \in SaveCalls
  <2> HIDE DEF gone
  <2> QED
    BY <1>3 DEF SaveCalls
<1>5. PICK k \in SaveCalls : k = call
  BY <1>4
<1>6. k.step = "look" /\ k.root = r
  BY <1>5
<1>7. saves' = [saves EXCEPT ![s] = k]
  BY <1>1, <1>5 DEF WriteFile
<1>8. k.symbols # None => k.symbols \in Contents /\ k.symbols.root = r
  BY <1>2, <1>5
<1>9. saves' \in [Saves -> SaveCalls]
  BY <1>7 DEF Inv, TypeOK
<1>10. \A c \in Saves : GoodSave(saves[c])'
  BY <1>6, <1>7, <1>8 DEF GoodSave, Inv, TypeOK
<1>11. /\ disk' = [disk EXCEPT ![r] = [at |-> @.at + 1, there |-> there]]
       /\ UNCHANGED <<manifests, cache, state, builds, events, raced>>
  BY <1>1 DEF WriteFile
<1>12. events' \in 0 .. MaxEvents
  BY <1>11 DEF Inv, TypeOK
<1> QED
  BY <1>9, <1>10, <1>11, <1>12, DiskMoves

\* The step of a save that changes nothing but itself and perhaps an index.
LEMMA SaveFrame ==
    ASSUME Inv, NEW s \in Saves, NEW k \in SaveCalls, GoodSave(k), saves' = [saves EXCEPT ![s] = k],
           UNCHANGED <<persistent, active, lives, builds, events, raced>>,
           slots' \in [Roots -> Slots \cup {None}], IndexDescribesItsWorkspace'
    PROVE  Inv'
<1>1. TypeOK'
  BY DEF Inv, TypeOK, persistent
<1>2. \A b \in Builds : GoodBuild(builds[b])'
  BY DEF Inv, GoodBuild, True, Honest, persistent
<1>3. \A c \in Saves : GoodSave(saves[c])'
  BY DEF Inv, TypeOK, GoodSave
<1>4. \A r \in Roots : GoodCache(r)'
  BY CacheFrame DEF persistent
<1> QED
  BY <1>1, <1>2, <1>3, <1>4 DEF Inv

LEMMA LookInv == ASSUME Inv, NEW s \in Saves, Look(s) PROVE Inv'
<1>1. PICK j \in SaveCalls : j = saves[s] /\ GoodSave(j) /\ j.step = "look"
  BY DEF Inv, TypeOK, Look
<1>2. UNCHANGED <<persistent, state, builds, events, raced>>
  BY DEF Look
<1>3. saves \in [Saves -> SaveCalls]
  BY DEF Inv, TypeOK
<1>4. CASE Open(active) /\ active = j.root
  <2>1. PICK p \in Nat : p = slots[active].projects
    BY <1>4, OpenSlot DEF Inv, TypeOK, Slots
  <2>2. PICK n \in {"read", "splice"} : n = IF j.symbols = None THEN "read" ELSE "splice"
    OBVIOUS
  <2>3. [j EXCEPT !.step = n, !.projects = p] \in SaveCalls
    BY DEF SaveCalls
  <2>4. PICK k \in SaveCalls : k = [j EXCEPT !.step = n, !.projects = p]
    BY <2>3
  <2>5. saves' = [saves EXCEPT ![s] = k]
    BY <1>1, <1>3, <1>4, <2>1, <2>2, <2>4 DEF Look
  <2>6. k.step = n /\ k.root = j.root /\ k.symbols = j.symbols
    BY <2>4 DEF SaveCalls
  <2>7. GoodSave(k)
    BY <1>1, <2>2, <2>6 DEF GoodSave
  <2> QED
    BY <1>2, <2>5, <2>7, SaveFrame, SlotsFrame DEF state
<1>5. CASE ~(Open(active) /\ active = j.root)
  <2>1. PICK k \in SaveCalls : k = Over
    BY NoSaveType
  <2>2. saves' = [saves EXCEPT ![s] = k]
    BY <1>1, <1>3, <1>5, <2>1 DEF Look
  <2>3. GoodSave(k)
    BY <2>1, NoSaveType DEF GoodSave
  <2> QED
    BY <1>2, <2>2, <2>3, SaveFrame, SlotsFrame DEF state
<1> QED
  BY <1>4, <1>5

LEMMA ReadInv == ASSUME Inv, NEW s \in Saves, Read(s) PROVE Inv'
<1>1. PICK j \in SaveCalls : j = saves[s] /\ GoodSave(j) /\ j.step = "read"
  BY DEF Inv, TypeOK, Read
<1>2. PICK r \in Roots : r = j.root
  BY <1>1 DEF GoodSave
<1>3. j.projects \in Nat /\ disk[r].at \in Nat /\ disk[r].there \in BOOLEAN
  BY DEF Inv, TypeOK, SaveCalls
<1>4. Indexed(r, j.projects) \in Contents /\ Indexed(r, j.projects).root = r
  BY <1>3 DEF Indexed, Contents
<1>5. PICK found \in Contents : found = Indexed(r, j.projects) /\ found.root = r
  BY <1>4
<1>6. [j EXCEPT !.step = "splice", !.symbols = found] \in SaveCalls
  BY DEF SaveCalls
<1>7. PICK k \in SaveCalls : k = [j EXCEPT !.step = "splice", !.symbols = found]
  BY <1>6
<1>8. saves' = [saves EXCEPT ![s] = k]
  BY <1>1, <1>2, <1>5, <1>7 DEF Read, Inv, TypeOK
<1>9. k.step = "splice" /\ k.root = r /\ k.symbols = found
  BY <1>2, <1>7 DEF SaveCalls
<1>10. GoodSave(k)
  BY <1>5, <1>9 DEF GoodSave
<1>11. UNCHANGED <<persistent, state, builds, events, raced>>
  BY DEF Read
<1> QED
  BY <1>8, <1>10, <1>11, SaveFrame, SlotsFrame DEF state

LEMMA SpliceInv == ASSUME Inv, NEW s \in Saves, Splice(s) PROVE Inv'
<1>1. PICK j \in SaveCalls : j = saves[s] /\ GoodSave(j) /\ j.step = "splice"
  BY DEF Inv, TypeOK, Splice
<1>2. PICK r \in Roots : r = j.root
  BY <1>1 DEF GoodSave
<1>3. j.symbols \in Contents /\ j.symbols.root = r
  BY <1>1, <1>2 DEF GoodSave
<1>4. slots \in [Roots -> Slots \cup {None}]
  BY DEF Inv, TypeOK
<1>5. slots' \in [Roots -> Slots \cup {None}] /\ IndexDescribesItsWorkspace'
  <2>1. CASE ~(Open(r) /\ slots[r].index # None)
    BY <2>1, <1>1, <1>2, <1>4 DEF Splice, Inv, IndexDescribesItsWorkspace, Open
  <2>2. CASE Open(r) /\ slots[r].index # None
    <3>1. [slots[r] EXCEPT !.index = j.symbols] \in Slots
      BY <1>3, <2>2, OpenSlot DEF Slots
    <3>2. PICK slot \in Slots : slot = [slots[r] EXCEPT !.index = j.symbols]
      BY <3>1
    <3>3. slot.index = j.symbols
      BY <2>2, <3>2, OpenSlot DEF Slots
    <3>4. slots' = [slots EXCEPT ![r] = slot]
      BY <1>1, <1>2, <2>2, <3>2, <1>4 DEF Splice
    <3> QED
      BY <1>3, <1>4, <3>3, <3>4 DEF Inv, IndexDescribesItsWorkspace, Open
  <2> QED
    BY <2>1, <2>2
<1>6. PICK k \in SaveCalls : k = Over
  BY NoSaveType
<1>7. saves' = [saves EXCEPT ![s] = k] /\ UNCHANGED <<persistent, active, lives, builds, events, raced>>
  BY <1>6 DEF Splice
<1>8. GoodSave(k)
  BY <1>6, NoSaveType DEF GoodSave
<1> QED
  BY <1>5, <1>7, <1>8, SaveFrame

LEMMA EventType == ASSUME Inv, Event PROVE events' \in 0 .. MaxEvents
BY EventsAssumption DEF Inv, TypeOK, Event

LEMMA ExternalEditInv ==
    ASSUME Inv, NEW r \in Roots, NEW there \in BOOLEAN, ExternalEdit(r, there) PROVE Inv'
<1>1. saves' \in [Saves -> SaveCalls] /\ \A s \in Saves : GoodSave(saves[s])'
  BY DEF ExternalEdit, Inv, TypeOK, GoodSave
<1> QED
  BY <1>1, EventType, DiskMoves DEF ExternalEdit

\* What happens to neither the files nor the builds and saves.
LEMMA ElsewhereInv ==
    ASSUME Inv, UNCHANGED <<disk, cache, lives, raced>>,
           manifests' \in [Roots -> Nat], events' \in 0 .. MaxEvents,
           active' \in Roots \cup {None}, slots' \in [Roots -> Slots \cup {None}],
           \A r \in Roots : slots'[r] = slots[r] \/ slots'[r] = None,
           builds' \in [Builds -> BuildCalls], saves' \in [Saves -> SaveCalls],
           \A b \in Builds : builds'[b] = builds[b] \/ builds'[b].step \in {"idle", "done"},
           \A s \in Saves : saves'[s] = saves[s] \/ saves'[s].step \in {"idle", "done"}
    PROVE  Inv'
<1>1. TypeOK'
  BY DEF Inv, TypeOK
<1>2. \A b \in Builds : GoodBuild(builds[b])'
  BY DEF Inv, GoodBuild, True, Honest, Running, Reading, Holding
<1>3. \A s \in Saves : GoodSave(saves[s])'
  BY DEF Inv, GoodSave
<1>4. \A r \in Roots : GoodCache(r)'
  BY CacheFrame
<1>5. IndexDescribesItsWorkspace'
  BY DEF Inv, IndexDescribesItsWorkspace, Open
<1> QED
  BY <1>1, <1>2, <1>3, <1>4, <1>5 DEF Inv

LEMMA EnvironmentInv == ASSUME Inv, Environment PROVE Inv'
<1>1. ASSUME NEW r \in Roots, ProjectsMove(r) PROVE Inv'
  BY <1>1, EventType, ElsewhereInv DEF ProjectsMove, Inv, TypeOK, state
<1>2. ASSUME NEW r \in Roots, SetActive(r) PROVE Inv'
  BY <1>2, EventType, ElsewhereInv DEF SetActive, Inv, TypeOK, persistent
<1>3. ASSUME NEW r \in Roots, Close(r) PROVE Inv'
  <2>1. active' \in Roots \cup {None}
    BY <1>3 DEF Close, Inv, TypeOK
  <2>2. slots' \in [Roots -> Slots \cup {None}] /\ \A o \in Roots : slots'[o] \in {slots[o], None}
    BY <1>3 DEF Close, Inv, TypeOK
  <2> QED
    BY <1>3, <2>1, <2>2, EventType, ElsewhereInv DEF Close, Inv, TypeOK, persistent
<1>4. CASE Crash
  <2>1. [NoBuild EXCEPT !.step = "done"] \in BuildCalls /\ [NoBuild EXCEPT !.step = "done"].step = "done"
    BY NoBuildType DEF NoBuild, BuildCalls, BuildSteps
  <2>2. builds' \in [Builds -> BuildCalls] /\ \A b \in Builds : builds'[b].step \in {"idle", "done"}
    BY <1>4, <2>1, NoBuildType DEF Crash, NoBuild
  <2>3. saves' \in [Saves -> SaveCalls] /\ \A s \in Saves : saves'[s].step \in {"idle", "done"}
    BY <1>4, NoSaveType DEF Crash, NoSave
  <2> QED
    BY <1>4, <2>2, <2>3, EventType, ElsewhereInv DEF Crash, Inv, TypeOK, persistent
<1> QED
  BY <1>1, <1>2, <1>3, <1>4, ExternalEditInv DEF Environment

-----------------------------------------------------------------------------
(* The theorems.                                                           *)

LEMMA BuildInv == ASSUME Inv, NEW b \in Builds, BuildNext(b) PROVE Inv'
BY ScanInv, SetWorkspaceInv, RebuildInv, ClaimInv, RaiseInv, DiscardInv, LoadInv, StatInv, ParseInv,
   TruncateInv, WriteInv, RecordInv, CompareInv, ClearInv DEF BuildNext

LEMMA SaveInv == ASSUME Inv, NEW s \in Saves, SaveNext(s) PROVE Inv'
BY WriteFileInv, LookInv, ReadInv, SpliceInv DEF SaveNext

LEMMA StepInv == Inv /\ [Next]_vars => Inv'
<1> SUFFICES ASSUME Inv, [Next]_vars PROVE Inv'
    OBVIOUS
<1>1. CASE UNCHANGED vars
  BY <1>1, ElsewhereInv DEF vars, state, persistent, Inv, TypeOK
<1> QED
  BY <1>1, BuildInv, SaveInv, EnvironmentInv DEF Next

LEMMA Invariance == Spec => []Inv
BY InitInv, StepInv, PTL DEF Spec

\* The variables keep their types: a build works only on a workspace that was scanned, a
\* guard remembers the slot it was taken from, and the index of a slot is whole or absent.
THEOREM SymbolsTypeCorrect == Spec => []TypeOK
<1>1. Inv => TypeOK
  BY DEF Inv
<1> QED
  BY <1>1, Invariance, PTL

\* Whatever is edited, saved, rebuilt or crashes while a build runs, an entry of
\* symbols.json that still matches its file was made from that very file and from the
\* projects the cache names, for any number of workspaces, builds, saves and edits.
THEOREM CacheStaysHonest == Spec => []CacheIsHonest
<1>1. Inv => CacheIsHonest
  BY DEF Inv, GoodCache, Honest, CacheIsHonest
<1> QED
  BY <1>1, Invariance, PTL

\* What a build records is what a cold build could have found: no older than its start and
\* attributed to the projects of its own scan, even when it came out of the cache.
THEOREM WarmIsAsGoodAsCold == Spec => []ResultIsAsGoodAsCold
<1>1. Inv => ResultIsAsGoodAsCold
  BY DEF Inv, GoodBuild, Holding, ResultIsAsGoodAsCold
<1> QED
  BY <1>1, Invariance, PTL

\* However tabs are switched and closed while builds and saves are under way, an index
\* holds the symbols of the workspace it is stored in.
THEOREM IndexesStayApart == Spec => []IndexDescribesItsWorkspace
<1>1. Inv => IndexDescribesItsWorkspace
  BY DEF Inv
<1> QED
  BY <1>1, Invariance, PTL
-----------------------------------------------------------------------------
(* The flag of a slot.                                                     *)

Early == {"idle", "set", "claim"}

\* A slot and the guards taken from it: a life is never given twice, and a generation
\* never more than it has reached.
GoodGuard(k) ==
    /\ k.step \in Early => k.guard = None
    /\ k.guard # None => k.guard.life <= lives[k.guard.root]
    /\ Holds(k.guard) => k.guard.generation <= slots[k.guard.root].generation

OneGuardEach ==
    \A b, c \in Builds :
        b # c /\ builds[b].guard # None => builds[b].guard # builds[c].guard

\* The flag is in the hands of the newest build, which is between two halves, or it
\* says whether that build is still at work.
GoodFlag(k) ==
    Holds(k.guard) /\ <<k.guard.root, k.guard.life>> \notin raced =>
        LET slot == slots[k.guard.root]
            newest == k.guard.generation = slot.generation
        IN  /\ k.step \in {"raise", "clear"} => newest
            /\ newest /\ k.step = "done" => ~slot.flag
            /\ newest /\ k.step \notin {"raise", "done"} => slot.flag

FlagInv ==
    /\ \A r \in Roots : Open(r) => slots[r].life <= lives[r]
    /\ \A b \in Builds : GoodGuard(builds[b]) /\ GoodFlag(builds[b])
    /\ OneGuardEach

LEMMA FlagInit == Init => FlagInv
<1> SUFFICES ASSUME Init PROVE FlagInv
    OBVIOUS
<1>1. \A b \in Builds : builds[b].guard = None
  BY DEF Init, NoBuild
<1>2. \A r \in Roots : ~Open(r)
  BY DEF Init, Open
<1> QED
  BY <1>1, <1>2 DEF FlagInv, GoodGuard, GoodFlag, OneGuardEach, Holds

\* The places of a build that the flag does not tell apart.
AtWork == BuildSteps \ {"idle", "set", "claim", "raise", "clear", "done"}
Alike(s, t) == s = t \/ (s \in AtWork /\ t \in AtWork)

\* A slot is closed, or made anew, or keeps its flag.
Kept(r) ==
    slots'[r] # None =>
        \/ slots'[r].life > lives[r] /\ slots'[r].life <= lives'[r]
        \/ /\ Open(r)
           /\ slots'[r].life = slots[r].life /\ slots'[r].flag = slots[r].flag
           /\ slots'[r].generation = slots[r].generation

\* What is known of a guard: its slot, if that is still the one it was taken from.
LEMMA Guarded ==
    ASSUME Inv, FlagInv, NEW b \in Builds, builds[b].guard # None
    PROVE  /\ builds[b].guard \in Guards /\ builds[b].guard.root \in Roots
           /\ builds[b].guard.life \in Nat /\ builds[b].guard.generation \in Nat
           /\ lives[builds[b].guard.root] \in Nat
           /\ builds[b].guard.life <= lives[builds[b].guard.root]
           /\ GoodGuard(builds[b]) /\ GoodFlag(builds[b])
<1>1. builds[b].guard \in Guards
  BY DEF Inv, TypeOK, BuildCalls
<1>2. /\ builds[b].guard.root \in Roots
      /\ builds[b].guard.life \in Nat /\ builds[b].guard.generation \in Nat
  BY <1>1 DEF Guards
<1>3. lives[builds[b].guard.root] \in Nat
  BY <1>2 DEF Inv, TypeOK
<1>4. GoodGuard(builds[b]) /\ GoodFlag(builds[b])
  BY DEF FlagInv
<1>5. builds[b].guard.life <= lives[builds[b].guard.root]
  BY <1>4 DEF GoodGuard
<1> QED
  BY <1>1, <1>2, <1>3, <1>4, <1>5

\* A slot that a guard still holds, after a step that keeps the slots.
LEMMA HeldAfter ==
    ASSUME Inv, FlagInv, NEW b \in Builds, builds[b].guard # None,
           NEW r \in Roots, r = builds[b].guard.root, Kept(r),
           slots'[r] # None, slots'[r].life = builds[b].guard.life
    PROVE  /\ Holds(builds[b].guard)
           /\ slots'[r].flag = slots[r].flag /\ slots'[r].generation = slots[r].generation
<1>1. ~(slots'[r].life > lives[r])
  BY Guarded
<1>2. /\ Open(r) /\ slots'[r].life = slots[r].life
      /\ slots'[r].flag = slots[r].flag /\ slots'[r].generation = slots[r].generation
  BY <1>1 DEF Kept
<1> QED
  BY <1>2 DEF Holds

\* A build that keeps its guard, and a place of the same sort, in slots that are kept.
LEMMA SameFlag ==
    ASSUME Inv, FlagInv, NEW b \in Builds, \A r \in Roots : Kept(r) /\ lives[r] <= lives'[r],
           lives' \in [Roots -> Nat], UNCHANGED raced,
           \/ builds'[b].guard = None
           \/ builds'[b].guard = builds[b].guard /\ Alike(builds[b].step, builds'[b].step)
    PROVE  GoodGuard(builds[b])' /\ GoodFlag(builds[b])'
<1>1. CASE builds'[b].guard = None
  BY <1>1 DEF GoodGuard, GoodFlag, Holds
<1>2. CASE /\ builds'[b].guard # None
           /\ builds'[b].guard = builds[b].guard /\ Alike(builds[b].step, builds'[b].step)
  <2>1. PICK r \in Roots : r = builds[b].guard.root
    BY <1>2, Guarded
  <2>2. /\ builds[b].guard.life <= lives[r] /\ builds[b].guard.life \in Nat
        /\ GoodGuard(builds[b]) /\ GoodFlag(builds[b]) /\ lives[r] \in Nat /\ lives'[r] \in Nat
    BY <1>2, <2>1, Guarded
  <2>3. /\ builds[b].step = builds'[b].step \/ (builds[b].step \in AtWork /\ builds'[b].step \in AtWork)
        /\ builds[b].step \notin Early /\ builds'[b].step \notin Early
    BY <1>2, <2>2 DEF Alike, AtWork, Early, GoodGuard
  <2>4. Holds(builds[b].guard)' =>
            /\ Holds(builds[b].guard)
            /\ slots'[r].flag = slots[r].flag /\ slots'[r].generation = slots[r].generation
    BY <1>2, <2>1, HeldAfter DEF Holds, Open
  <2>5. GoodGuard(builds[b])'
    <3>1. builds'[b].guard.life <= lives'[builds'[b].guard.root]
      BY <1>2, <2>1, <2>2
    <3> QED
      BY <1>2, <2>1, <2>2, <2>3, <2>4, <3>1 DEF GoodGuard
  <2>6. GoodFlag(builds[b])'
    <3> SUFFICES ASSUME Holds(builds[b].guard)', <<r, builds[b].guard.life>> \notin raced
                 PROVE  LET newest == builds[b].guard.generation = slots'[r].generation
                        IN  /\ builds'[b].step \in {"raise", "clear"} => newest
                            /\ newest /\ builds'[b].step = "done" => ~slots'[r].flag
                            /\ newest /\ builds'[b].step \notin {"raise", "done"} => slots'[r].flag
        BY <1>2, <2>1 DEF GoodFlag
    <3>1. Holds(builds[b].guard) /\ slots'[r].flag = slots[r].flag
          /\ slots'[r].generation = slots[r].generation
      BY <2>4
    <3> QED
      BY <2>1, <2>2, <2>3, <3>1 DEF GoodFlag, AtWork
  <2> QED
    BY <2>5, <2>6
<1> QED
  BY <1>1, <1>2

\* No build takes a guard, and no slot changes hands.
LEMMA QuietStep ==
    ASSUME Inv, FlagInv, \A r \in Roots : Kept(r) /\ lives[r] <= lives'[r],
           lives' \in [Roots -> Nat], UNCHANGED raced,
           \A b \in Builds : \/ builds'[b].guard = None
                             \/ /\ builds'[b].guard = builds[b].guard
                                /\ Alike(builds[b].step, builds'[b].step)
    PROVE  FlagInv'
<1>1. \A b \in Builds : GoodGuard(builds[b])' /\ GoodFlag(builds[b])'
  BY SameFlag
<1>2. OneGuardEach'
  BY DEF FlagInv, OneGuardEach
<1>3. ASSUME NEW r \in Roots, slots'[r] # None PROVE slots'[r].life <= lives'[r]
  <2>1. CASE slots'[r].life > lives[r] /\ slots'[r].life <= lives'[r]
    BY <2>1
  <2>2. CASE Open(r) /\ slots'[r].life = slots[r].life
    <3>1. slots[r].life \in Nat /\ lives[r] \in Nat /\ lives'[r] \in Nat
      BY <2>2, OpenSlot DEF Slots
    <3>2. slots[r].life <= lives[r] /\ lives[r] <= lives'[r]
      BY <2>2 DEF FlagInv
    <3> QED
      BY <2>2, <3>1, <3>2
  <2> QED
    BY <1>3, <2>1, <2>2 DEF Kept
<1> QED
  BY <1>1, <1>2, <1>3 DEF FlagInv, Open

LEMMA AllKept ==
    ASSUME Inv, UNCHANGED <<slots, lives>>
    PROVE  /\ \A r \in Roots : Kept(r) /\ lives[r] <= lives'[r]
           /\ lives' \in [Roots -> Nat]
<1>1. \A r \in Roots : lives[r] \in Nat
  BY DEF Inv, TypeOK
<1> QED
  BY <1>1, NamesAssumption DEF Kept, Open, Inv, TypeOK

\* One build goes on, with its guard, to a place of the same sort, or has none.
LEMMA OneBuild ==
    ASSUME Inv, FlagInv, NEW b \in Builds, NEW k, builds' = [builds EXCEPT ![b] = k],
           k.guard = None \/ (k.guard = builds[b].guard /\ Alike(builds[b].step, k.step)),
           \A r \in Roots : Kept(r) /\ lives[r] <= lives'[r],
           lives' \in [Roots -> Nat], UNCHANGED raced
    PROVE  FlagInv'
<1>1. ASSUME NEW c \in Builds
      PROVE  \/ builds'[c].guard = None
             \/ builds'[c].guard = builds[c].guard /\ Alike(builds[c].step, builds'[c].step)
  <2>1. CASE c = b
    <3>1. builds'[c] = k
      BY <2>1 DEF Inv, TypeOK
    <3> QED
      BY <2>1, <3>1
  <2>2. CASE c # b
    <3>1. builds'[c] = builds[c]
      BY <2>2 DEF Inv, TypeOK
    <3> QED
      BY <3>1 DEF Alike
  <2> QED
    BY <2>1, <2>2
<1> QED
  BY <1>1, QuietStep

\* What the steps of a build between raising and dropping leave of it.
LEMMA WorkFlag ==
    ASSUME Inv, FlagInv, NEW b \in Builds,
           Discard(b) \/ Load(b) \/ Stat(b) \/ Parse(b) \/ Truncate(b) \/ Write(b) \/ Record(b)
    PROVE  FlagInv'
<1>1. PICK j \in BuildCalls : j = builds[b]
  BY DEF Inv, TypeOK
<1>2. builds \in [Builds -> BuildCalls] /\ UNCHANGED <<lives, raced>>
  BY DEF Inv, TypeOK, Discard, Load, Stat, Parse, Truncate, Write, Record, state
<1>3. \E k : /\ builds' = [builds EXCEPT ![b] = k] /\ k.guard = j.guard /\ k.step \in AtWork
             /\ j.step \in AtWork
  <2>1. ASSUME NEW n \in AtWork, Step(b, n), j.step \in AtWork
        PROVE  \E k : builds' = [builds EXCEPT ![b] = k] /\ k.guard = j.guard /\ k.step \in AtWork
    <3>1. PICK k : k = [j EXCEPT !.step = n]
      OBVIOUS
    <3>2. k.guard = j.guard /\ k.step = n
      BY <3>1 DEF BuildCalls
    <3>3. builds' = [builds EXCEPT ![b] = k]
      BY <1>1, <1>2, <2>1, <3>1 DEF Step
    <3> QED
      BY <2>1, <3>2, <3>3
  <2>2. CASE Discard(b) \/ Truncate(b) \/ Write(b)
    <3>1. j.step \in AtWork
      BY <1>1, <2>2 DEF Discard, Truncate, Write, AtWork, BuildSteps
    <3>2. \E n \in AtWork : Step(b, n)
      BY <2>2 DEF Discard, Truncate, Write, AtWork, BuildSteps
    <3> QED
      BY <2>1, <3>1, <3>2
  <2>3. CASE Load(b)
    <3>1. j.step = "load"
      BY <1>1, <2>3 DEF Load
    <3>2. PICK e : builds' = [builds EXCEPT ![b].step = "stat", ![b].remembered = e]
      BY <2>3 DEF Load
    <3>3. PICK k : k = [j EXCEPT !.step = "stat", !.remembered = e]
      OBVIOUS
    <3>4. k.guard = j.guard /\ k.step = "stat"
      BY <3>3 DEF BuildCalls
    <3>5. builds' = [builds EXCEPT ![b] = k]
      BY <1>1, <1>2, <3>2, <3>3
    <3> QED
      BY <3>1, <3>4, <3>5 DEF AtWork, BuildSteps
  <2>4. CASE Stat(b)
    <3>1. j.step = "stat"
      BY <1>1, <2>4 DEF Stat
    <3>0. PICK n \in {"parse", "truncate"} : \E t, s :
              builds' = [builds EXCEPT ![b].step = n, ![b].stamp = t, ![b].remembered = None,
                                       ![b].symbols = s]
      BY <2>4 DEF Stat
    <3>2. PICK t, s :
              builds' = [builds EXCEPT ![b].step = n, ![b].stamp = t, ![b].remembered = None,
                                       ![b].symbols = s]
      BY <3>0
    <3>3. PICK k : k = [j EXCEPT !.step = n, !.stamp = t, !.remembered = None, !.symbols = s]
      OBVIOUS
    <3>4. k.guard = j.guard /\ k.step = n
      BY <3>3 DEF BuildCalls
    <3>5. builds' = [builds EXCEPT ![b] = k]
      BY <1>1, <1>2, <3>2, <3>3
    <3> QED
      BY <3>1, <3>2, <3>4, <3>5 DEF AtWork, BuildSteps
  <2>5. CASE Parse(b)
    <3>1. j.step = "parse"
      BY <1>1, <2>5 DEF Parse
    <3>2. PICK s : builds' = [builds EXCEPT ![b].step = "truncate", ![b].symbols = s]
      BY <2>5 DEF Parse
    <3>3. PICK k : k = [j EXCEPT !.step = "truncate", !.symbols = s]
      OBVIOUS
    <3>4. k.guard = j.guard /\ k.step = "truncate"
      BY <3>3 DEF BuildCalls
    <3>5. builds' = [builds EXCEPT ![b] = k]
      BY <1>1, <1>2, <3>2, <3>3
    <3> QED
      BY <3>1, <3>4, <3>5 DEF AtWork, BuildSteps
  <2>6. CASE Record(b)
    <3>1. j.step = "record"
      BY <1>1, <2>6 DEF Record
    <3>2. PICK k : k = [j EXCEPT !.step = "compare", !.projects = 0, !.mode = "cached",
                                 !.stamp = 0, !.symbols = None]
      OBVIOUS
    <3>3. k.guard = j.guard /\ k.step = "compare"
      BY <3>2 DEF BuildCalls
    <3>4. builds' = [builds EXCEPT ![b] = k]
      BY <1>1, <1>2, <2>6, <3>2 DEF Record, Recorded
    <3> QED
      BY <3>1, <3>3, <3>4 DEF AtWork, BuildSteps
  <2> QED
    BY <2>2, <2>3, <2>4, <2>5, <2>6
<1>4. \A r \in Roots : Kept(r)
  <2>1. CASE UNCHANGED slots
    BY <2>1, <1>2, AllKept
  <2>2. CASE Record(b) /\ Open(j.root)
    <3>1. PICK o \in Roots : o = j.root
      BY <2>2, <1>1, OpenSlot DEF BuildCalls
    <3>2. slots[o] \in Slots
      BY <2>2, <3>1, OpenSlot
    <3>3. PICK s : slots' = [slots EXCEPT ![o].index = s]
      BY <1>1, <2>2, <3>1 DEF Record
    <3>4. PICK t : t = [slots[o] EXCEPT !.index = s]
      OBVIOUS
    <3>5. t.life = slots[o].life /\ t.flag = slots[o].flag /\ t.generation = slots[o].generation
      BY <3>2, <3>4 DEF Slots
    <3>6. slots' = [slots EXCEPT ![o] = t]
      BY <3>3, <3>4 DEF Inv, TypeOK
    <3> QED
      BY <2>2, <3>1, <3>5, <3>6, NamesAssumption DEF Kept, Open, Inv, TypeOK
  <2>3. CASE Record(b) /\ ~Open(j.root)
    BY <1>1, <1>2, <2>3, AllKept DEF Record
  <2> QED
    BY <2>1, <2>2, <2>3 DEF Discard, Load, Stat, Parse, Truncate, Write, state
<1>5. \A r \in Roots : lives[r] <= lives'[r] /\ lives' \in [Roots -> Nat]
  BY <1>2 DEF Inv, TypeOK
<1>6. lives' \in [Roots -> Nat]
  BY <1>2 DEF Inv, TypeOK
<1> QED
  BY <1>1, <1>2, <1>3, <1>4, <1>5, <1>6, OneBuild DEF Alike

\* A build comes: it has no guard yet.
LEMMA BeginFlag ==
    ASSUME Inv, FlagInv, NEW b \in Builds, Rebuild(b) \/ \E r \in Roots : Scan(b, r)
    PROVE  FlagInv'
<1>1. \E k : builds' = [builds EXCEPT ![b] = k] /\ k.guard = None
  <2>1. CASE Rebuild(b)
    <3>1. PICK k : k = [NoBuild EXCEPT !.step = "claim", !.root = active, !.mode = "fromSource",
                                       !.projects = slots[active].projects]
      OBVIOUS
    <3>2. k.guard = None
      BY <3>1 DEF NoBuild
    <3>3. builds' = [builds EXCEPT ![b] = k]
      BY <2>1, <3>1 DEF Rebuild
    <3> QED
      BY <3>2, <3>3
  <2>2. CASE \E r \in Roots : Scan(b, r)
    <3>1. PICK r \in Roots : Scan(b, r)
      BY <2>2
    <3>2. PICK k : k = [NoBuild EXCEPT !.step = "set", !.root = r, !.projects = manifests[r]]
      OBVIOUS
    <3>3. k.guard = None
      BY <3>2 DEF NoBuild
    <3>4. builds' = [builds EXCEPT ![b] = k]
      BY <3>1, <3>2 DEF Scan
    <3> QED
      BY <3>3, <3>4
  <2> QED
    BY <2>1, <2>2
<1>2. UNCHANGED <<slots, lives, raced>>
  BY DEF Rebuild, Scan, state
<1> QED
  BY <1>1, <1>2, AllKept, OneBuild

\* A slot that was not open begins a life that no guard has seen.
LEMMA SetWorkspaceFlag == ASSUME Inv, FlagInv, NEW b \in Builds, SetWorkspace(b) PROVE FlagInv'
<1>1. PICK r \in Roots : r = builds[b].root
  BY BuildFacts DEF SetWorkspace, GoodBuild, Running, BuildSteps
<1>2. PICK p : p = builds[b].projects
  OBVIOUS
<1>3. \A o \in Roots : lives[o] \in Nat
  BY DEF Inv, TypeOK
<1>4. PICK fresh : fresh = [life |-> lives[r] + 1, projects |-> p, index |-> None,
                            flag |-> FALSE, generation |-> 0]
  OBVIOUS
<1>5. PICK old : old = [slots[r] EXCEPT !.projects = p]
  OBVIOUS
<1>6. /\ slots' = [slots EXCEPT ![r] = IF Open(r) THEN old ELSE fresh]
      /\ lives' = [lives EXCEPT ![r] = IF Open(r) THEN @ ELSE @ + 1]
      /\ UNCHANGED raced
  BY <1>1, <1>2, <1>4, <1>5 DEF SetWorkspace, Inv, TypeOK
<1>7. fresh.life = lives[r] + 1
  BY <1>4
<1>8. Open(r) => /\ old.life = slots[r].life /\ old.flag = slots[r].flag
                 /\ old.generation = slots[r].generation
  BY <1>5, OpenSlot DEF Slots
<1>9. lives' \in [Roots -> Nat] /\ \A o \in Roots : lives[o] <= lives'[o]
  BY <1>3, <1>6 DEF Inv, TypeOK
<1>10. ASSUME NEW o \in Roots PROVE Kept(o)
  <2>1. CASE o # r
    <3>1. slots'[o] = slots[o]
      BY <2>1, <1>6 DEF Inv, TypeOK
    <3> QED
      BY <3>1, NamesAssumption DEF Kept, Open
  <2>2. CASE o = r /\ Open(r)
    <3>1. slots'[o] = old
      BY <2>2, <1>6 DEF Inv, TypeOK
    <3> QED
      BY <2>2, <3>1, <1>8 DEF Kept
  <2>3. CASE o = r /\ ~Open(r)
    <3>1. slots'[o] = fresh /\ lives'[o] = lives[r] + 1
      BY <2>3, <1>6 DEF Inv, TypeOK
    <3> QED
      BY <2>3, <3>1, <1>3, <1>7 DEF Kept
  <2> QED
    BY <2>1, <2>2, <2>3
<1>11. \E k : builds' = [builds EXCEPT ![b] = k] /\ k.guard = None
  <2>1. PICK j \in BuildCalls : j = builds[b] /\ j.step = "set"
    BY DEF Inv, TypeOK, SetWorkspace
  <2>2. PICK k : k = [j EXCEPT !.step = "claim"]
    OBVIOUS
  <2>3. k.guard = j.guard
    BY <2>2 DEF BuildCalls
  <2>4. j.guard = None
    BY <2>1 DEF FlagInv, GoodGuard, Early
  <2>5. builds' = [builds EXCEPT ![b] = k]
    BY <2>1, <2>2 DEF SetWorkspace, Step, Inv, TypeOK
  <2> QED
    BY <2>3, <2>4, <2>5
<1> QED
  BY <1>6, <1>9, <1>10, <1>11, OneBuild

\* Saves and events: a slot is closed or keeps its flag, and a build goes on or is lost.
LEMMA OtherFlag ==
    ASSUME Inv, FlagInv, UNCHANGED <<lives, raced>>, \A r \in Roots : Kept(r),
           \A b \in Builds : builds'[b].guard = None \/ builds'[b] = builds[b]
    PROVE  FlagInv'
<1>1. lives' \in [Roots -> Nat] /\ \A r \in Roots : lives[r] <= lives'[r]
  BY DEF Inv, TypeOK
<1> QED
  BY <1>1, QuietStep DEF Alike

LEMMA SaveFlag == ASSUME Inv, FlagInv, NEW s \in Saves, SaveNext(s) PROVE FlagInv'
<1>1. UNCHANGED <<lives, raced, builds>>
  BY DEF SaveNext, WriteFile, Look, Read, Splice, state
<1>2. \A r \in Roots : Kept(r)
  <2>1. CASE UNCHANGED slots
    BY <2>1, <1>1, AllKept
  <2>2. CASE Splice(s) /\ Open(saves[s].root)
    <3>1. PICK o \in Roots : o = saves[s].root
      BY <2>2, OpenSlot DEF Inv, TypeOK, SaveCalls
    <3>2. slots[o] \in Slots
      BY <2>2, <3>1, OpenSlot
    <3>3. PICK t : t = [slots[o] EXCEPT !.index = saves[s].symbols]
      OBVIOUS
    <3>4. t.life = slots[o].life /\ t.flag = slots[o].flag /\ t.generation = slots[o].generation
      BY <3>2, <3>3 DEF Slots
    <3>5. slots' = [slots EXCEPT ![o] = t] \/ slots' = slots
      BY <2>2, <3>1, <3>3 DEF Splice, Inv, TypeOK
    <3> QED
      BY <2>1, <2>2, <3>1, <3>4, <3>5, NamesAssumption DEF Kept, Open, Inv, TypeOK
  <2>3. CASE Splice(s) /\ ~Open(saves[s].root)
    BY <1>1, <2>3, AllKept DEF Splice
  <2> QED
    BY <2>1, <2>2, <2>3 DEF SaveNext, WriteFile, Look, Read, state
<1> QED
  BY <1>1, <1>2, OtherFlag

LEMMA EnvironmentFlag == ASSUME Inv, FlagInv, Environment PROVE FlagInv'
<1>1. UNCHANGED <<lives, raced>>
  BY DEF Environment, ExternalEdit, ProjectsMove, SetActive, Close, Crash, state
<1>2. \A r \in Roots : slots'[r] = slots[r] \/ slots'[r] = None
  BY DEF Environment, ExternalEdit, ProjectsMove, SetActive, Close, Crash, state, Inv, TypeOK
<1>3. \A b \in Builds : builds'[b].guard = None \/ builds'[b] = builds[b]
  <2>1. NoBuild.guard = None /\ [NoBuild EXCEPT !.step = "done"].guard = None
    BY DEF NoBuild
  <2>2. UNCHANGED builds \/ Crash
    BY DEF Environment, ExternalEdit, ProjectsMove, SetActive, Close
  <2> QED
    BY <2>1, <2>2 DEF Crash
<1>4. \A r \in Roots : Kept(r)
  BY <1>2, NamesAssumption DEF Kept, Open
<1> QED
  BY <1>1, <1>3, <1>4, OtherFlag

\* A build takes a guard from the slot in front, whose generation it raises.  Whoever
\* held the flag's newest generation until then no longer does.
LEMMA ClaimFlag == ASSUME Inv, FlagInv, NEW b \in Builds, Claim(b) PROVE FlagInv'
<1>1. PICK j \in BuildCalls : j = builds[b] /\ j.step = "claim" /\ j.guard = None
  BY DEF Inv, TypeOK, Claim, FlagInv, GoodGuard, Early
<1>2. builds \in [Builds -> BuildCalls] /\ UNCHANGED <<active, lives>>
  BY DEF Inv, TypeOK, Claim
<1>3. CASE ~Open(active)
  <2>1. PICK k : k = [j EXCEPT !.step = "raise"]
    OBVIOUS
  <2>2. k.guard = None
    BY <1>1, <2>1 DEF BuildCalls
  <2>3. builds' = [builds EXCEPT ![b] = k] /\ UNCHANGED <<slots, raced>>
    BY <1>1, <1>2, <1>3, <2>1 DEF Claim, Step
  <2> QED
    BY <1>2, <2>2, <2>3, AllKept, OneBuild
<1>4. CASE Open(active)
  <2>1. PICK r \in Roots : r = active /\ Open(r)
    BY <1>4, OpenSlot DEF Inv, TypeOK
  <2>2. PICK l \in Nat, g \in Nat : l = slots[r].life /\ g = slots[r].generation
    BY <2>1, OpenSlot DEF Slots
  <2>3. PICK G \in Guards : G = [root |-> r, life |-> l, generation |-> g + 1]
    <3>1. g + 1 \in Nat
      OBVIOUS
    <3>2. [root |-> r, life |-> l, generation |-> g + 1] \in Guards
      BY <3>1 DEF Guards
    <3> QED
      BY <3>2
  <2>4. G.root = r /\ G.life = l /\ G.generation = g + 1
    BY <2>3
  <2>5. PICK k : k = [j EXCEPT !.step = "raise", !.guard = G]
    OBVIOUS
  <2>6. k.step = "raise" /\ k.guard = G
    BY <1>1, <2>5 DEF BuildCalls
  <2>7. builds' = [builds EXCEPT ![b] = k]
    BY <1>1, <1>2, <2>1, <2>2, <2>3, <2>5 DEF Claim
  <2>8. builds'[b] = k /\ \A c \in Builds : c # b => builds'[c] = builds[c]
    BY <1>2, <2>7
  <2>9. PICK slot : slot = [slots[r] EXCEPT !.generation = g + 1]
    OBVIOUS
  <2>10. slot.life = l /\ slot.generation = g + 1 /\ slot.flag = slots[r].flag
    BY <2>1, <2>2, <2>9, OpenSlot DEF Slots
  <2>11. slots' = [slots EXCEPT ![r] = slot]
    BY <2>1, <2>2, <2>9 DEF Claim, Inv, TypeOK
  <2>12. slots'[r] = slot /\ \A o \in Roots : o # r => slots'[o] = slots[o]
    BY <2>11 DEF Inv, TypeOK
  <2>13. /\ raced \subseteq raced'
         /\ <<r, l>> \notin raced' =>
                \A c \in Builds : builds[c].step \in {"raise", "clear"} /\ builds[c].guard # None =>
                    <<r, l>> # <<builds[c].guard.root, builds[c].guard.life>>
    BY <2>1, <2>2 DEF Claim
  \* The guards that hold the same slot are older.
  <2>14. ASSUME NEW c \in Builds, builds[c].guard # None, builds[c].guard.root = r,
                builds[c].guard.life = l
         PROVE  Holds(builds[c].guard) /\ builds[c].guard.generation <= g
    <3>1. Holds(builds[c].guard)
      BY <2>1, <2>2, <2>14 DEF Holds
    <3> QED
      BY <2>2, <2>14, <3>1, Guarded DEF GoodGuard
  <2>15. ASSUME NEW o \in Roots, slots'[o] # None PROVE slots'[o].life <= lives'[o]
    <3>1. slots[r].life <= lives[r]
      BY <2>1 DEF FlagInv
    <3>2. CASE o = r
      BY <1>2, <2>2, <2>10, <2>12, <3>1, <3>2
    <3>3. CASE o # r
      <4>1. Open(o)
        BY <2>12, <2>15, <3>3, NamesAssumption DEF Open
      <4> QED
        BY <1>2, <2>12, <3>3, <4>1 DEF FlagInv
    <3> QED
      BY <3>2, <3>3
  <2>16. ASSUME NEW c \in Builds PROVE GoodGuard(builds[c])' /\ GoodFlag(builds[c])'
    <3>1. CASE c = b
      <4>1. builds'[c].guard = G /\ builds'[c].step = "raise"
        BY <2>6, <2>8, <3>1
      <4>2. slots[r].life <= lives[r]
        BY <2>1 DEF FlagInv
      <4>3. GoodGuard(builds[c])'
        BY <1>2, <2>2, <2>4, <2>10, <2>12, <4>1, <4>2 DEF GoodGuard, Early
      <4> QED
        BY <2>4, <2>10, <2>12, <4>1, <4>3 DEF GoodFlag
    <3>2. CASE c # b /\ builds[c].guard = None
      BY <2>8, <3>2 DEF GoodGuard, GoodFlag, Holds
    <3>3. CASE c # b /\ builds[c].guard # None
      <4>1. builds'[c] = builds[c] /\ builds[c].guard.root \in Roots /\ builds[c].guard.life \in Nat
            /\ builds[c].guard.generation \in Nat
            /\ GoodGuard(builds[c]) /\ GoodFlag(builds[c])
        BY <2>8, <3>3, Guarded
      <4>2. CASE builds[c].guard.root # r
        <5>1. slots'[builds[c].guard.root] = slots[builds[c].guard.root]
          BY <2>12, <4>1, <4>2
        <5> QED
          BY <1>2, <2>13, <4>1, <5>1 DEF GoodGuard, GoodFlag, Holds, Open
      <4>3. CASE builds[c].guard.root = r /\ builds[c].guard.life = l
        <5>1. Holds(builds[c].guard) /\ builds[c].guard.generation <= g
          BY <2>14, <3>3, <4>3
        <5>2. GoodGuard(builds[c])'
          BY <1>2, <2>2, <2>10, <2>12, <4>1, <4>3, <5>1 DEF GoodGuard
        <5>3. builds'[c].guard.generation # slots'[r].generation
          BY <2>2, <2>10, <2>12, <4>1, <5>1
        <5>4. <<r, l>> \notin raced' => builds'[c].step \notin {"raise", "clear"}
          BY <2>13, <3>3, <4>1, <4>3
        <5> QED
          BY <4>1, <4>3, <5>2, <5>3, <5>4 DEF GoodFlag
      <4>4. CASE builds[c].guard.root = r /\ builds[c].guard.life # l
        <5>1. ~Holds(builds[c].guard)'
          BY <2>10, <2>12, <4>1, <4>4 DEF Holds
        <5> QED
          BY <1>2, <4>1, <5>1 DEF GoodGuard, GoodFlag
      <4> QED
        BY <4>2, <4>3, <4>4
    <3> QED
      BY <3>1, <3>2, <3>3
  <2>17. OneGuardEach'
    <3> SUFFICES ASSUME NEW c \in Builds, NEW d \in Builds, c # d, builds'[c].guard # None,
                        builds'[c].guard = builds'[d].guard
                 PROVE  FALSE
        BY DEF OneGuardEach
    <3>1. ASSUME NEW e \in Builds, e # b PROVE builds[e].guard # G \/ G = None
      <4> SUFFICES ASSUME builds[e].guard = G, G # None PROVE FALSE
          OBVIOUS
      <4> QED
        BY <2>2, <2>4, <2>14
    <3> QED
      BY <2>6, <2>8, <3>1 DEF FlagInv, OneGuardEach
  <2> QED
    BY <2>15, <2>16, <2>17 DEF FlagInv, Open
<1> QED
  BY <1>3, <1>4

\* The newest build of a slot has its flag to itself, and another keeps what it knows.
LEMMA FlagStep ==
    ASSUME Inv, FlagInv, NEW b \in Builds, NEW k, builds' = [builds EXCEPT ![b] = k],
           k.guard = builds[b].guard, {k.step, builds[b].step} \cap Early = {},
           UNCHANGED <<lives, raced>>, GoodFlag(k)',
           \/ UNCHANGED slots
           \/ /\ Holds(builds[b].guard) /\ builds[b].step \in {"raise", "clear"}
              /\ \E v : slots' = [slots EXCEPT ![builds[b].guard.root].flag = v]
    PROVE  FlagInv'
<1>1. builds'[b] = k /\ \A c \in Builds : c # b => builds'[c] = builds[c]
  BY DEF Inv, TypeOK
<1>2. OneGuardEach'
  BY <1>1 DEF FlagInv, OneGuardEach
\* Every slot keeps its life and its generation.
<1>3. ASSUME NEW o \in Roots, slots'[o] # None
      PROVE  Open(o) /\ slots'[o].life = slots[o].life /\ slots'[o].generation = slots[o].generation
  <2>1. CASE UNCHANGED slots
    BY <1>3, <2>1, NamesAssumption DEF Open
  <2>2. CASE Holds(builds[b].guard) /\ \E v : slots' = [slots EXCEPT ![builds[b].guard.root].flag = v]
    <3>1. PICK r \in Roots : r = builds[b].guard.root /\ Open(r)
      BY <2>2, Guarded DEF Holds
    <3>2. PICK v : slots' = [slots EXCEPT ![r].flag = v]
      BY <2>2, <3>1
    <3>3. PICK s : s = [slots[r] EXCEPT !.flag = v]
      OBVIOUS
    <3>4. s.life = slots[r].life /\ s.generation = slots[r].generation
      BY <3>1, <3>3, OpenSlot DEF Slots
    <3>5. slots' = [slots EXCEPT ![r] = s]
      BY <3>2, <3>3 DEF Inv, TypeOK
    <3> QED
      BY <1>3, <3>1, <3>4, <3>5, NamesAssumption DEF Open, Inv, TypeOK
  <2> QED
    BY <2>1, <2>2
<1>4. ASSUME NEW c \in Builds PROVE GoodGuard(builds[c])'
  <2>1. builds'[c].guard = builds[c].guard /\ (builds'[c].step \in Early => builds[c].step \in Early)
    BY <1>1
  <2>2. CASE builds[c].guard = None
    BY <2>1, <2>2 DEF GoodGuard, Holds
  <2>3. CASE builds[c].guard # None
    <3>1. builds[c].guard.root \in Roots /\ GoodGuard(builds[c])
      BY <2>3, Guarded
    <3>2. Holds(builds[c].guard)' => Holds(builds[c].guard)
                                  /\ slots'[builds[c].guard.root].generation
                                       = slots[builds[c].guard.root].generation
      BY <1>3, <2>1, <3>1 DEF Holds, Open
    <3> QED
      BY <2>1, <3>1, <3>2 DEF GoodGuard
  <2> QED
    BY <2>2, <2>3
<1>5. ASSUME NEW c \in Builds PROVE GoodFlag(builds[c])'
  <2>1. CASE c = b
    BY <1>1, <2>1 DEF GoodFlag, Holds, Open
  <2>2. CASE c # b /\ builds[c].guard = None
    BY <1>1, <2>2 DEF GoodFlag, Holds
  <2>3. CASE c # b /\ builds[c].guard # None
    <3>1. /\ builds'[c] = builds[c] /\ GoodFlag(builds[c]) /\ builds[c].guard \in Guards
      BY <1>1, <2>3, Guarded
    <3>2. PICK r \in Roots : r = builds[c].guard.root
      BY <2>3, Guarded
    <3> SUFFICES ASSUME Holds(builds[c].guard)', <<r, builds[c].guard.life>> \notin raced
                 PROVE  LET newest == builds[c].guard.generation = slots'[r].generation
                        IN  /\ builds[c].step \in {"raise", "clear"} => newest
                            /\ newest /\ builds[c].step = "done" => ~slots'[r].flag
                            /\ newest /\ builds[c].step \notin {"raise", "done"} => slots'[r].flag
        BY <3>1, <3>2 DEF GoodFlag
    <3>3. /\ Holds(builds[c].guard) /\ slots'[r].life = slots[r].life
          /\ slots'[r].generation = slots[r].generation
      BY <1>3, <3>1, <3>2 DEF Holds, Open
    <3>4. CASE slots'[r].flag = slots[r].flag
      BY <3>1, <3>2, <3>3, <3>4 DEF GoodFlag
    <3>5. CASE slots'[r].flag # slots[r].flag
      <4>1. Holds(builds[b].guard) /\ builds[b].step \in {"raise", "clear"}
            /\ builds[b].guard # None
        BY <3>5 DEF Holds
      <4>2. builds[b].guard.root = r
        <5> SUFFICES ASSUME builds[b].guard.root # r PROVE FALSE
            OBVIOUS
        <5>1. PICK o, v : /\ o \in Roots /\ o = builds[b].guard.root
                          /\ slots' = [slots EXCEPT ![o].flag = v]
          BY <3>5, <4>1, Guarded
        <5> QED
          BY <3>5, <5>1 DEF Inv, TypeOK
      <4>3. builds[b].guard.life = builds[c].guard.life
        BY <3>2, <3>3, <4>1, <4>2 DEF Holds
      <4>4. GoodFlag(builds[b]) /\ builds[b].guard \in Guards
        BY <4>1, Guarded
      <4>5. builds[b].guard.generation = slots[r].generation
        BY <4>1, <4>2, <4>3, <4>4 DEF GoodFlag
      <4>6. builds[b].guard # builds[c].guard
        BY <2>3, <4>1 DEF FlagInv, OneGuardEach
      <4>7. builds[c].guard.generation # slots[r].generation
        BY <3>1, <3>2, <4>2, <4>3, <4>4, <4>5, <4>6 DEF Guards
      <4> QED
        BY <3>1, <3>2, <3>3, <4>7 DEF GoodFlag
    <3> QED
      BY <3>4, <3>5
  <2> QED
    BY <2>1, <2>2, <2>3
<1>6. ASSUME NEW o \in Roots, Open(o)' PROVE slots'[o].life <= lives'[o]
  BY <1>3, <1>6 DEF FlagInv, Open
<1> QED
  BY <1>2, <1>4, <1>5, <1>6 DEF FlagInv

LEMMA RaiseFlag == ASSUME Inv, FlagInv, NEW b \in Builds, Raise(b) PROVE FlagInv'
<1>1. PICK j \in BuildCalls : j = builds[b] /\ j.step = "raise"
  BY DEF Inv, TypeOK, Raise
<1>0. PICK n \in {"load", "discard"} : \E t :
          builds' = [builds EXCEPT ![b].step = n, ![b].since = t]
  BY DEF Raise
<1>2. PICK t : builds' = [builds EXCEPT ![b].step = n, ![b].since = t]
  BY <1>0
<1>3. PICK k : k = [j EXCEPT !.step = n, !.since = t]
  OBVIOUS
<1>4. k.guard = j.guard /\ k.step = n
  BY <1>3 DEF BuildCalls
<1>5. builds' = [builds EXCEPT ![b] = k]
  BY <1>1, <1>2, <1>3 DEF Inv, TypeOK
<1>6. UNCHANGED <<lives, raced>>
  BY DEF Raise
<1>7. GoodFlag(k)' /\ (Holds(j.guard) \/ UNCHANGED slots)
  <2>1. CASE ~Holds(j.guard)
    <3>1. UNCHANGED slots
      BY <1>1, <2>1 DEF Raise
    <3> QED
      BY <1>4, <2>1, <3>1 DEF GoodFlag, Holds, Open
  <2>2. CASE Holds(j.guard)
    <3>1. PICK r \in Roots : r = j.guard.root /\ Open(r)
      BY <1>1, <2>2, Guarded DEF Holds
    <3>2. PICK s : s = [slots[r] EXCEPT !.flag = TRUE]
      OBVIOUS
    <3>3. s.flag = TRUE
      BY <3>1, <3>2, OpenSlot DEF Slots
    <3>4. slots' = [slots EXCEPT ![r] = s]
      BY <1>1, <2>2, <3>1, <3>2 DEF Raise, Inv, TypeOK
    <3>5. slots'[r] = s
      BY <3>4 DEF Inv, TypeOK
    <3> QED
      BY <1>2, <1>4, <2>2, <3>1, <3>3, <3>5 DEF GoodFlag
  <2> QED
    BY <2>1, <2>2
<1>8. \/ UNCHANGED slots
      \/ Holds(j.guard) /\ \E v : slots' = [slots EXCEPT ![j.guard.root].flag = v]
  BY <1>1 DEF Raise
<1> QED
  BY <1>1, <1>2, <1>4, <1>5, <1>6, <1>7, <1>8, FlagStep DEF Early

LEMMA ClearFlag == ASSUME Inv, FlagInv, NEW b \in Builds, Clear(b) PROVE FlagInv'
<1>1. PICK j \in BuildCalls : j = builds[b] /\ j.step = "clear"
  BY DEF Inv, TypeOK, Clear
<1>2. PICK k : k = [j EXCEPT !.step = "done"]
  OBVIOUS
<1>3. k.guard = j.guard /\ k.step = "done"
  BY <1>2 DEF BuildCalls
<1>4. builds' = [builds EXCEPT ![b] = k] /\ UNCHANGED <<lives, raced>>
  BY <1>1, <1>2 DEF Clear, Step, Inv, TypeOK
<1>5. GoodFlag(k)'
  <2>1. CASE ~Holds(j.guard)
    <3>1. UNCHANGED slots
      BY <1>1, <2>1 DEF Clear
    <3> QED
      BY <1>3, <2>1, <3>1 DEF GoodFlag, Holds, Open
  <2>2. CASE Holds(j.guard)
    <3>1. PICK r \in Roots : r = j.guard.root /\ Open(r)
      BY <1>1, <2>2, Guarded DEF Holds
    <3>2. PICK s : s = [slots[r] EXCEPT !.flag = FALSE]
      OBVIOUS
    <3>3. s.flag = FALSE
      BY <3>1, <3>2, OpenSlot DEF Slots
    <3>4. slots' = [slots EXCEPT ![r] = s]
      BY <1>1, <2>2, <3>1, <3>2 DEF Clear, Inv, TypeOK
    <3>5. slots'[r] = s
      BY <3>4 DEF Inv, TypeOK
    <3> QED
      BY <1>3, <3>1, <3>3, <3>5 DEF GoodFlag
  <2> QED
    BY <2>1, <2>2
<1>6. \/ UNCHANGED slots
      \/ Holds(j.guard) /\ \E v : slots' = [slots EXCEPT ![j.guard.root].flag = v]
  BY <1>1 DEF Clear
<1> QED
  BY <1>1, <1>3, <1>4, <1>5, <1>6, FlagStep DEF Early

LEMMA CompareFlag == ASSUME Inv, FlagInv, NEW b \in Builds, Compare(b) PROVE FlagInv'
<1>1. PICK j \in BuildCalls : j = builds[b] /\ j.step = "compare"
  BY DEF Inv, TypeOK, Compare
<1>2. PICK n : n = IF Holds(j.guard) /\ slots[j.guard.root].generation = j.guard.generation
                   THEN "clear" ELSE "done"
  OBVIOUS
<1>3. PICK k : k = [j EXCEPT !.step = n]
  OBVIOUS
<1>4. k.guard = j.guard /\ k.step = n
  BY <1>3 DEF BuildCalls
<1>5. builds' = [builds EXCEPT ![b] = k] /\ UNCHANGED <<slots, lives, raced>>
  BY <1>1, <1>2, <1>3 DEF Compare, Step, state, Inv, TypeOK
<1>6. GoodFlag(k)'
  <2>1. GoodFlag(j)
    BY <1>1 DEF FlagInv
  <2>2. Holds(j.guard)' = Holds(j.guard)
    BY <1>5 DEF Holds, Open
  <2> QED
    BY <1>1, <1>2, <1>4, <1>5, <2>1, <2>2 DEF GoodFlag, Holds, Open
<1> QED
  BY <1>1, <1>2, <1>4, <1>5, <1>6, FlagStep DEF Early

LEMMA StepFlag == Inv /\ FlagInv /\ [Next]_vars => FlagInv'
<1> SUFFICES ASSUME Inv, FlagInv, [Next]_vars PROVE FlagInv'
    OBVIOUS
<1>1. ASSUME NEW b \in Builds, BuildNext(b) PROVE FlagInv'
  BY <1>1, BeginFlag, SetWorkspaceFlag, ClaimFlag, RaiseFlag, WorkFlag, CompareFlag, ClearFlag
     DEF BuildNext
<1>2. CASE UNCHANGED vars
  BY <1>2, OtherFlag, AllKept DEF vars, state
<1> QED
  BY <1>1, <1>2, SaveFlag, EnvironmentFlag DEF Next

\* However builds of a workspace overlap and its tab is closed and opened again, the
\* palette shows "indexing" as long as the newest build of the slot that is open runs, and
\* stops when that one has ended: for any number of builds and workspaces.  Slots where a
\* build was between the two halves of begin or of drop when another began are excepted.
THEOREM TheFlagFollowsTheNewest == Spec => []FlagFollowsTheNewest
<1>1. FlagInv => FlagFollowsTheNewest
  <2> SUFFICES ASSUME FlagInv, NEW b \in Builds, NEW r \in Roots, Open(r),
                      <<r, slots[r].life>> \notin raced, Newest(b, r)
               PROVE  /\ builds[b].step = "done" => ~slots[r].flag
                      /\ builds[b].step \notin {"raise", "done"} => slots[r].flag
      BY DEF FlagFollowsTheNewest
  <2>1. /\ builds[b].guard # None /\ builds[b].guard.root = r
        /\ builds[b].guard.life = slots[r].life
        /\ builds[b].guard.generation = slots[r].generation
    BY DEF Newest
  <2>2. Holds(builds[b].guard) /\ GoodFlag(builds[b])
    BY <2>1 DEF Holds, FlagInv
  <2> QED
    BY <2>1, <2>2 DEF GoodFlag
<1>2. Init => Inv /\ FlagInv
  BY InitInv, FlagInit
<1>3. Inv /\ FlagInv /\ [Next]_vars => (Inv /\ FlagInv)'
  BY StepInv, StepFlag
<1> QED
  BY <1>1, <1>2, <1>3, PTL DEF Spec
=============================================================================
