------------------------------ MODULE Symbols ------------------------------
(***************************************************************************)
(* The symbol index behind the search palette: the background builds of a  *)
(* workspace (commands/symbols.rs) with the "still indexing" flag they     *)
(* share (state.rs), the cache they read and leave in                      *)
(* .code-basics/symbols.json (symbols/cache.rs), and the saves and         *)
(* deletions that splice one file into the index (commands/files.rs).      *)
(*                                                                         *)
(* A workspace holds one source file.  What the file declares is known by  *)
(* the number of changes made to it when it was read, and by the project   *)
(* list its symbols were attributed to.  A build runs on a thread of its   *)
(* own and a command on any worker, so between two steps anything else may *)
(* happen, a switch of tabs or a crash of the application included.        *)
(***************************************************************************)
EXTENDS Naturals, FiniteSets

CONSTANTS
    Roots,      \* the workspaces
    Builds,     \* the calls that start a build
    Saves,      \* the calls that write or delete the file
    MaxEvents,  \* how much happens besides them
    None

ASSUME NamesAssumption == None \notin Roots
ASSUME EventsAssumption == MaxEvents \in Nat

VARIABLES
    disk,      \* the file of each workspace: changes so far, and whether it is there
    manifests, \* how often its project files have changed
    cache,     \* its symbols.json; None when absent or unusable
    slots,     \* AppState.workspaces, None when the workspace is not open
    active,    \* AppState.active
    lives,     \* how often a slot has been made for each workspace
    builds,    \* the builds
    saves,     \* the saves and deletions
    events,    \* how much else has happened
    raced      \* history: the slots whose flag two builds have handled at once

persistent == <<disk, manifests, cache>>
state == <<slots, active, lives>>
vars == <<persistent, state, builds, saves, events, raced>>

Contents == [root : Roots, at : Nat, there : BOOLEAN, owner : Nat]
Entries == [stamp : Nat, symbols : Contents]
Caches == [projects : Nat, entry : Entries \cup {None}]
Slots == [life : Nat, projects : Nat, index : Contents \cup {None},
          flag : BOOLEAN, generation : Nat]
Guards == [root : Roots, life : Nat, generation : Nat]

BuildSteps == {"idle", "set", "claim", "raise", "discard", "load", "stat", "parse",
               "truncate", "write", "record", "compare", "clear", "done"}
BuildCalls == [step : BuildSteps, root : Roots \cup {None},
               mode : {"cached", "fromSource"}, projects : Nat,
               guard : Guards \cup {None}, remembered : Entries \cup {None},
               stamp : Nat, symbols : Contents \cup {None}, since : Nat]
SaveCalls == [step : {"idle", "look", "read", "splice", "done"}, root : Roots \cup {None},
              projects : Nat, symbols : Contents \cup {None}]

TypeOK ==
    /\ disk \in [Roots -> [at : Nat, there : BOOLEAN]]
    /\ manifests \in [Roots -> Nat]
    /\ cache \in [Roots -> Caches \cup {None}]
    /\ slots \in [Roots -> Slots \cup {None}]
    /\ active \in Roots \cup {None}
    /\ lives \in [Roots -> Nat]
    /\ builds \in [Builds -> BuildCalls]
    /\ saves \in [Saves -> SaveCalls]
    /\ events \in 0 .. MaxEvents
    /\ raced \subseteq Roots \X Nat

NoBuild == [step |-> "idle", root |-> None, mode |-> "cached", projects |-> 0,
            guard |-> None, remembered |-> None, stamp |-> 0, symbols |-> None,
            since |-> 0]
NoSave == [step |-> "idle", root |-> None, projects |-> 0, symbols |-> None]

Over == [NoSave EXCEPT !.step = "done"]

\* The application starts with nothing open; the file may never have been indexed.
Init ==
    /\ disk = [r \in Roots |-> [at |-> 0, there |-> TRUE]]
    /\ manifests = [r \in Roots |-> 0]
    /\ cache = [r \in Roots |-> None]
    /\ slots = [r \in Roots |-> None]
    /\ active = None
    /\ lives = [r \in Roots |-> 0]
    /\ builds = [b \in Builds |-> NoBuild]
    /\ saves = [s \in Saves |-> NoSave]
    /\ events = 0
    /\ raced = {}

----------------------------------------------------------------------------
(* The two things every step does: look a workspace up, and read its file. *)

Open(r) == r # None /\ slots[r] # None

\* index_file: what the file declares now, attributed to the projects handed in.
Indexed(r, projects) ==
    [root |-> r, at |-> disk[r].at, there |-> disk[r].there, owner |-> projects]

\* A guard holds on to the flag of the slot it was taken from, open or not.
Holds(guard) ==
    /\ guard # None
    /\ Open(guard.root)
    /\ slots[guard.root].life = guard.life

Step(b, next) == builds' = [builds EXCEPT ![b].step = next]

\* After this a build only has its guard to drop.
Recorded(b) ==
    builds' = [builds EXCEPT ![b].step = "compare", ![b].projects = 0, ![b].mode = "cached",
                             ![b].stamp = 0, ![b].symbols = None]

----------------------------------------------------------------------------
(* Starting a build: open_workspace and rescan_workspace scan the folder    *)
(* first, rebuild_symbol_index takes the workspace in front as it is.       *)

\* A rescan captures the workspace in front, which may since have been any.
Scan(b, r) ==
    /\ builds[b].step = "idle"
    /\ builds' = [builds EXCEPT ![b] =
         [NoBuild EXCEPT !.step = "set", !.root = r, !.projects = manifests[r]]]
    /\ UNCHANGED <<persistent, state, saves, events, raced>>

\* set_workspace: a slot that is open keeps all but its scan; it comes to the front.
SetWorkspace(b) ==
    LET r == builds[b].root
        fresh == [life |-> lives[r] + 1, projects |-> builds[b].projects, index |-> None,
                  flag |-> FALSE, generation |-> 0]
    IN  /\ builds[b].step = "set"
        /\ slots' = [slots EXCEPT ![r] =
             IF Open(r) THEN [@ EXCEPT !.projects = builds[b].projects] ELSE fresh]
        /\ lives' = [lives EXCEPT ![r] = IF Open(r) THEN @ ELSE @ + 1]
        /\ active' = r
        /\ Step(b, "claim")
        /\ UNCHANGED <<persistent, saves, events, raced>>

Rebuild(b) ==
    /\ builds[b].step = "idle"
    /\ Open(active)
    /\ builds' = [builds EXCEPT ![b] =
         [NoBuild EXCEPT !.step = "claim", !.root = active, !.mode = "fromSource",
                         !.projects = slots[active].projects]]
    /\ UNCHANGED <<persistent, state, saves, events, raced>>

\* begin_symbols_build takes the next generation of the slot that is in front now.
Claim(b) ==
    /\ builds[b].step = "claim"
    /\ IF ~Open(active)
       THEN /\ Step(b, "raise")
            /\ UNCHANGED <<slots, raced>>
       ELSE LET n == slots[active].generation + 1
                slot == <<active, slots[active].life>>
                busy == \E c \in Builds :
                            /\ builds[c].step \in {"raise", "clear"}
                            /\ builds[c].guard # None
                            /\ slot = <<builds[c].guard.root, builds[c].guard.life>>
            IN  /\ slots' = [slots EXCEPT ![active].generation = n]
                /\ builds' = [builds EXCEPT
                     ![b].step = "raise",
                     ![b].guard = [root |-> active, life |-> slots[active].life,
                                   generation |-> n]]
                /\ raced' = IF busy THEN raced \cup {slot} ELSE raced
    /\ UNCHANGED <<persistent, active, lives, saves, events>>

\* It raises the flag in a second step, and the thread is spawned.
Raise(b) ==
    LET guard == builds[b].guard
    IN  /\ builds[b].step = "raise"
        /\ slots' = IF Holds(guard) THEN [slots EXCEPT ![guard.root].flag = TRUE] ELSE slots
        /\ builds' = [builds EXCEPT
             ![b].step = IF builds[b].mode = "cached" THEN "load" ELSE "discard",
             ![b].since = disk[builds[b].root].at]
        /\ UNCHANGED <<persistent, active, lives, saves, events, raced>>

----------------------------------------------------------------------------
(* build_cached, and rebuild, which removes the cache first.               *)

Discard(b) ==
    /\ builds[b].step = "discard"
    /\ cache' = [cache EXCEPT ![builds[b].root] = None]
    /\ Step(b, "load")
    /\ UNCHANGED <<disk, manifests, state, saves, events, raced>>

\* Mutated: only the files are fingerprinted.
LoadAnyOwner(b) ==
    LET stored == cache[builds[b].root]
    IN  /\ builds[b].step = "load"
        /\ builds' = [builds EXCEPT
             ![b].step = "stat",
             ![b].remembered = IF stored = None THEN None ELSE stored.entry]
        /\ UNCHANGED <<persistent, state, saves, events, raced>>

\* A cache made for another project list is worth nothing.
Load(b) ==
    LET stored == cache[builds[b].root]
    IN  /\ builds[b].step = "load"
        /\ builds' = [builds EXCEPT
             ![b].step = "stat",
             ![b].remembered = IF stored # None /\ stored.projects = builds[b].projects
                               THEN stored.entry ELSE None]
        /\ UNCHANGED <<persistent, state, saves, events, raced>>

\* The walk and the fingerprint: a hit is taken from the cache, the rest is parsed.
\* A file the walk does not find declares nothing and leaves no entry.
Stat(b) ==
    LET r == builds[b].root
        remembered == builds[b].remembered
        hit == remembered # None /\ remembered.stamp = disk[r].at
    IN  /\ builds[b].step = "stat"
        /\ builds' = [builds EXCEPT
             ![b].step = IF disk[r].there /\ ~hit THEN "parse" ELSE "truncate",
             ![b].stamp = disk[r].at,
             ![b].remembered = None,
             ![b].symbols = CASE ~disk[r].there -> Indexed(r, builds[b].projects)
                              [] disk[r].there /\ hit -> remembered.symbols
                              [] OTHER -> None]
        /\ UNCHANGED <<persistent, state, saves, events, raced>>

Parse(b) ==
    /\ builds[b].step = "parse"
    /\ builds' = [builds EXCEPT
         ![b].step = "truncate",
         ![b].symbols = Indexed(builds[b].root, builds[b].projects)]
    /\ UNCHANGED <<persistent, state, saves, events, raced>>

\* save: fs::write empties the file and then fills it.  Its failure is ignored.
Truncate(b) ==
    /\ builds[b].step = "truncate"
    /\ \/ /\ cache' = [cache EXCEPT ![builds[b].root] = None]
          /\ Step(b, "write")
       \/ /\ Step(b, "record")
          /\ UNCHANGED cache
    /\ UNCHANGED <<disk, manifests, state, saves, events, raced>>

\* Mutated: the fingerprint is taken when the cache is written.
WriteStampedNow(b) ==
    LET r == builds[b].root
    IN  /\ builds[b].step = "write"
        /\ cache' = [cache EXCEPT ![r] =
             [projects |-> builds[b].projects,
              entry |-> IF builds[b].symbols.there
                        THEN [stamp |-> disk[r].at, symbols |-> builds[b].symbols]
                        ELSE None]]
        /\ Step(b, "record")
        /\ UNCHANGED <<disk, manifests, state, saves, events, raced>>

\* The fingerprint written is the one taken before the file was parsed.
Write(b) ==
    LET r == builds[b].root
    IN  /\ builds[b].step = "write"
        /\ cache' = [cache EXCEPT ![r] =
             [projects |-> builds[b].projects,
              entry |-> IF builds[b].symbols.there
                        THEN [stamp |-> builds[b].stamp, symbols |-> builds[b].symbols]
                        ELSE None]]
        /\ Step(b, "record")
        /\ UNCHANGED <<disk, manifests, state, saves, events, raced>>

\* record_symbols: the index goes to the workspace it was built from, if that is open.
Record(b) ==
    LET r == builds[b].root
    IN  /\ builds[b].step = "record"
        /\ slots' = IF Open(r) THEN [slots EXCEPT ![r].index = builds[b].symbols] ELSE slots
        /\ Recorded(b)
        /\ UNCHANGED <<persistent, active, lives, saves, events, raced>>

\* Mutated: every build that ends lowers the flag.
CompareNothing(b) ==
    /\ builds[b].step = "compare"
    /\ Step(b, IF Holds(builds[b].guard) THEN "clear" ELSE "done")
    /\ UNCHANGED <<persistent, state, saves, events, raced>>

\* The guard drops: is it the newest?  And, in a second step, the flag falls.
Compare(b) ==
    LET guard == builds[b].guard
        newest == Holds(guard) /\ slots[guard.root].generation = guard.generation
    IN  /\ builds[b].step = "compare"
        /\ Step(b, IF newest THEN "clear" ELSE "done")
        /\ UNCHANGED <<persistent, state, saves, events, raced>>

Clear(b) ==
    LET guard == builds[b].guard
    IN  /\ builds[b].step = "clear"
        /\ slots' = IF Holds(guard) THEN [slots EXCEPT ![guard.root].flag = FALSE] ELSE slots
        /\ Step(b, "done")
        /\ UNCHANGED <<persistent, active, lives, saves, events, raced>>

----------------------------------------------------------------------------
(* fs_write_file and fs_create_file (there), fs_delete (not there).        *)

WriteFile(s, there) ==
    /\ saves[s].step = "idle"
    /\ Open(active)
    /\ there \/ disk[active].there
    /\ disk' = [disk EXCEPT ![active] = [at |-> @.at + 1, there |-> there]]
    /\ saves' = [saves EXCEPT ![s] =
         [step |-> "look", root |-> active, projects |-> 0,
          symbols |-> IF there THEN None
                      ELSE [root |-> active, at |-> disk[active].at + 1, there |-> FALSE,
                            owner |-> 0]]]
    /\ UNCHANGED <<manifests, cache, state, builds, events, raced>>

\* The path is keyed under the workspace that is in front by now; a path outside it,
\* or nothing open, ends the call.
Look(s) ==
    LET same == Open(active) /\ active = saves[s].root
        next == IF saves[s].symbols = None THEN "read" ELSE "splice"
    IN  /\ saves[s].step = "look"
        /\ saves' = [saves EXCEPT ![s] =
             IF same THEN [@ EXCEPT !.step = next, !.projects = slots[active].projects]
             ELSE Over]
        /\ UNCHANGED <<persistent, state, builds, events, raced>>

\* index_file reads the file before the lock on the index is taken.
Read(s) ==
    /\ saves[s].step = "read"
    /\ saves' = [saves EXCEPT
         ![s].step = "splice",
         ![s].symbols = Indexed(saves[s].root, saves[s].projects)]
    /\ UNCHANGED <<persistent, state, builds, events, raced>>

\* Mutated: the splice goes to the workspace in front.
SpliceInFront(s) ==
    /\ saves[s].step = "splice"
    /\ slots' = IF Open(active) /\ slots[active].index # None
                THEN [slots EXCEPT ![active].index = saves[s].symbols] ELSE slots
    /\ saves' = [saves EXCEPT ![s] = Over]
    /\ UNCHANGED <<persistent, active, lives, builds, events, raced>>

\* update_symbols with replace_file or remove_file, authorised against the root.
Splice(s) ==
    LET r == saves[s].root
    IN  /\ saves[s].step = "splice"
        /\ slots' = IF Open(r) /\ slots[r].index # None
                    THEN [slots EXCEPT ![r].index = saves[s].symbols] ELSE slots
        /\ saves' = [saves EXCEPT ![s] = Over]
        /\ UNCHANGED <<persistent, active, lives, builds, events, raced>>

----------------------------------------------------------------------------
(* What else happens: another program changes the file or the project       *)
(* files, the user switches or closes a tab, the application crashes.       *)

Event == events < MaxEvents /\ events' = events + 1

ExternalEdit(r, there) ==
    /\ Event
    /\ there \/ disk[r].there
    /\ disk' = [disk EXCEPT ![r] = [at |-> @.at + 1, there |-> there]]
    /\ UNCHANGED <<manifests, cache, state, builds, saves, raced>>

ProjectsMove(r) ==
    /\ Event
    /\ manifests' = [manifests EXCEPT ![r] = @ + 1]
    /\ UNCHANGED <<disk, cache, state, builds, saves, raced>>

SetActive(r) ==
    /\ Event
    /\ Open(r) /\ active # r
    /\ active' = r
    /\ UNCHANGED <<persistent, slots, lives, builds, saves, raced>>

Close(r) ==
    /\ Event
    /\ Open(r)
    /\ slots' = [slots EXCEPT ![r] = None]
    /\ \/ active # r /\ UNCHANGED active
       \/ active = r /\ active' \in {o \in Roots : Open(o) /\ o # r}
       \/ active = r /\ {o \in Roots : Open(o)} = {r} /\ active' = None
    /\ UNCHANGED <<persistent, lives, builds, saves, raced>>

Crash ==
    /\ Event
    /\ slots' = [r \in Roots |-> None]
    /\ active' = None
    /\ builds' = [b \in Builds |-> IF builds[b].step = "idle" THEN NoBuild
                                   ELSE [NoBuild EXCEPT !.step = "done"]]
    /\ saves' = [s \in Saves |-> IF saves[s].step = "idle" THEN NoSave
                                 ELSE Over]
    /\ UNCHANGED <<persistent, lives, raced>>

BuildNext(b) ==
    \/ \E r \in Roots : Scan(b, r)
    \/ SetWorkspace(b) \/ Rebuild(b) \/ Claim(b) \/ Raise(b)
    \/ Discard(b) \/ Load(b) \/ Stat(b) \/ Parse(b) \/ Truncate(b) \/ Write(b)
    \/ Record(b) \/ Compare(b) \/ Clear(b)

SaveNext(s) ==
    \/ \E there \in BOOLEAN : WriteFile(s, there)
    \/ Look(s) \/ Read(s) \/ Splice(s)

Environment ==
    \/ \E r \in Roots, there \in BOOLEAN : ExternalEdit(r, there)
    \/ \E r \in Roots : ProjectsMove(r) \/ SetActive(r) \/ Close(r)
    \/ Crash

Next ==
    \/ \E b \in Builds : BuildNext(b)
    \/ \E s \in Saves : SaveNext(s)
    \/ Environment

Spec == Init /\ [][Next]_vars

----------------------------------------------------------------------------
(* Properties.                                                             *)

\* An entry of the cache that still matches the file was made from that very file and
\* from the projects the cache says, whatever edits, saves, other builds and crashes
\* came between: the fingerprint is taken before the parse, and the project list
\* vouches for the attribution (cache.rs build_cached).  A fingerprint that matches is taken to
\* mean a file that did not change: two texts of one second and one length are one text here.
CacheIsHonest ==
    \A r \in Roots :
        LET entry == cache[r].entry
        IN  (cache[r] # None /\ entry # None) =>
                /\ entry.symbols.root = r
                /\ entry.symbols.owner = cache[r].projects
                /\ (disk[r].there /\ entry.stamp = disk[r].at) =>
                       (entry.symbols.there /\ entry.symbols.at = disk[r].at)

\* What a build is about to record is what a build without a cache could have found:
\* the file at some time since the thread started, attributed to the projects of this
\* scan and no other (cache.rs 290-301, "the same SymbolIndex a cold build would
\* produce").
ResultIsAsGoodAsCold ==
    \A b \in Builds : builds[b].step \in {"truncate", "write", "record"} =>
        /\ builds[b].symbols.at >= builds[b].since
        /\ builds[b].symbols.owner = builds[b].projects

\* A build that ends, or a save that is spliced, after the user has gone to another tab
\* lands in the index of its own workspace (record_symbols, update_symbols).
IndexDescribesItsWorkspace ==
    \A r \in Roots : (Open(r) /\ slots[r].index # None) => slots[r].index.root = r

Newest(b, r) ==
    /\ builds[b].guard # None
    /\ builds[b].guard = [root |-> r, life |-> slots[r].life, generation |-> slots[r].generation]

\* While builds of a slot start and end in any order, the palette shows "indexing" as
\* long as the newest of them runs, and Rebuild is enabled again once it has ended.
\* Excepted are slots where one build was between the two halves of begin or of drop
\* when another began (state.rs 309-311, 546-554).
FlagFollowsTheNewest ==
    \A b \in Builds, r \in Roots :
        (Open(r) /\ <<r, slots[r].life>> \notin raced /\ Newest(b, r)) =>
            /\ builds[b].step = "done" => ~slots[r].flag
            /\ builds[b].step \notin {"raise", "done"} => slots[r].flag

\* state.rs 309-310: "Only the newest build of a workspace may say indexing has stopped".
OnlyTheNewestClears ==
    [][\A b \in Builds :
          (Clear(b) /\ Holds(builds[b].guard)) =>
              slots[builds[b].guard.root].generation = builds[b].guard.generation]_vars

\* commands/files.rs 187-188: an index that missed something "is self-correcting on the
\* next rescan or rebuild".
RescanCorrects ==
    \A b \in Builds :
        LET r == builds[b].root
        IN  (/\ builds[b].step \in {"compare", "clear", "done"}
             /\ Open(r)
             /\ slots[r].index # None) => slots[r].index.at >= builds[b].since
=============================================================================
