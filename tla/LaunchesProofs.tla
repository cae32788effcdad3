--------------------------- MODULE LaunchesProofs ---------------------------
(***************************************************************************)
(* Theorems about Launches, for any number of launches, stops,             *)
(* configurations and crashes: the types; that a launch which another      *)
(* command has killed never reports that it ended by itself; that a        *)
(* configuration has one current process, that its stop command finds it,  *)
(* that running.json lists what nobody has set out to kill, and that a     *)
(* stop leaves nothing behind.                                             *)
(***************************************************************************)
EXTENDS Launches, TLAPS

-----------------------------------------------------------------------------
(* Where the steps of a command are                                        *)

Kinds == LaunchKinds \cup StopKinds

LEMMA Ends ==
    /\ DOMAIN Program = Kinds
    /\ End("run") = 11 /\ End("debug") = 22
    /\ End("stopRun") = 3 /\ End("stopDebug") = 5 /\ End("panel") = 5
BY DEF Program, End, Kinds, LaunchKinds, StopKinds

NotKill(k, n) == n \in 1 .. End(k) /\ (n < End(k) => Program[k][n] # "kill")

\* What follows a step: only a look for a victim is followed by a kill.
Followed(k, n) ==
    LET s == Program[k][n] IN
    /\ s \notin {"find", "drop"} => NotKill(k, n + 1)
    /\ s \in {"find", "drop", "findBuild"} => NotKill(k, n + 2)
    /\ s = "findBuild" /\ k = "debug" => NotKill(k, n + 6)

\* Where a launch is while it is in a table, and where it reports.
Located(k, n) ==
    LET s == Program[k][n] IN
    /\ k = "run" /\ n \in 7 .. 9 => s \in {"record", "persist", "wait"}
    /\ k = "debug" /\ n \in 15 .. 17 => s \in {"record", "persist", "talk"}
    /\ s = "insert" => k = "run" /\ n = 6
    /\ s = "remove" <=> k = "run" /\ n = 10
    /\ s = "enter" => k = "debug" /\ n = 14
    /\ s = "finish" <=> k = "debug" /\ n = 18

LEMMA Steps == \A k \in Kinds : \A n \in 1 .. End(k) - 1 : Followed(k, n) /\ Located(k, n)
<1>1. ASSUME NEW n \in 1 .. 10 PROVE Followed("run", n) /\ Located("run", n)
  BY Ends, SMTT(60) DEF Program, Followed, Located, NotKill
<1>2. ASSUME NEW n \in 1 .. 21 PROVE Followed("debug", n) /\ Located("debug", n)
  BY Ends, SMTT(60) DEF Program, Followed, Located, NotKill
<1>3. ASSUME NEW n \in 1 .. 2 PROVE Followed("stopRun", n) /\ Located("stopRun", n)
  BY Ends, SMTT(60) DEF Program, Followed, Located, NotKill
<1>4. ASSUME NEW n \in 1 .. 4
      PROVE  /\ Followed("stopDebug", n) /\ Located("stopDebug", n)
             /\ Followed("panel", n) /\ Located("panel", n)
  BY Ends, SMTT(60) DEF Program, Followed, Located, NotKill
<1> QED
  BY <1>1, <1>2, <1>3, <1>4, Ends DEF Kinds, LaunchKinds, StopKinds

-----------------------------------------------------------------------------
(* A command moves on                                                      *)

Move == [kind : Kinds \cup {"none", "over"}, id : Ids \cup {None}, at : 0 .. 30,
         victim : Launchers \cup {None}]

Placed ==
    /\ call \in [Calls -> Move]
    /\ \A c \in Calls : /\ call[c].kind \in Kinds => call[c].at \in 1 .. End(call[c].kind) /\ call[c].id \in Ids
                        /\ c \in Launchers => call[c].kind \in LaunchKinds \cup {"none"}
                        /\ c \notin Launchers => call[c].kind \notin LaunchKinds

\* Command c goes on at n, with victim x, and every other stays where it is.
Moved(c, n, x) ==
    /\ \A d \in Calls : d # c => call'[d] = call[d]
    /\ \/ call'[c].kind = "over" /\ c \notin Launchers
       \/ /\ call'[c].kind = call[c].kind /\ call'[c].id = call[c].id
          /\ call'[c].at = n /\ call'[c].victim = x

LEMMA Movement ==
    ASSUME Placed, NEW c \in Calls, Busy(c), NEW n, n \in call[c].at + 1 .. End(call[c].kind),
           NEW x \in Launchers \cup {None}, GoTo(c, n, x)
    PROVE  Placed' /\ Moved(c, n, x)
<1> DEFINE o == call[c]
           v == [o EXCEPT !.at = n, !.victim = x]
<1>1. o \in Move /\ o.kind \in Kinds /\ o.id \in Ids /\ o.at \in Nat
  BY Ends DEF Placed, Busy, Move
<1>2. End(o.kind) \in 0 .. 30 /\ n \in 0 .. 30 /\ n \in 1 .. End(o.kind)
  <2>1. End(o.kind) \in {3, 5, 11, 22}
    BY <1>1, Ends DEF Kinds, LaunchKinds, StopKinds
  <2> HIDE DEF o
  <2> QED
    BY <1>1, <2>1 DEF o
<1>3. v \in Move /\ v.kind = o.kind /\ v.id = o.id /\ v.at = n /\ v.victim = x
  BY <1>1, <1>2 DEF Move
<1>4. Over \in Move /\ Over.kind = "over"
  BY DEF Over, Idle, Move
<1>5. call' = [call EXCEPT ![c] = Over] \/ call' = [call EXCEPT ![c] = v]
  BY DEF GoTo, Placed
<1>6. call' = [call EXCEPT ![c] = Over] => c \in Stoppers
  <2> SUFFICES ASSUME c \notin Stoppers, call' = [call EXCEPT ![c] = Over] PROVE FALSE
    OBVIOUS
  <2>1. call' = [call EXCEPT ![c] = v]
    BY DEF GoTo, Placed
  <2>2. call'[c] = v /\ call'[c] = Over
    BY <2>1 DEF Placed
  <2> QED
    BY <1>1, <1>3, <1>4, <2>2 DEF Kinds, LaunchKinds, StopKinds
<1> HIDE DEF v
<1>7. call'[c] \in {Over, v} /\ \A d \in Calls : d # c => call'[d] = call[d]
  BY <1>5 DEF Placed
<1>8. call'[c] = Over => c \notin Launchers
  BY <1>1, <1>3, <1>4, <1>5, <1>6, NamesAssumption DEF Placed, Kinds, LaunchKinds, StopKinds
<1>9. Moved(c, n, x)
  BY <1>3, <1>4, <1>7, <1>8 DEF Moved
<1>10. call' \in [Calls -> Move]
  BY <1>3, <1>4, <1>5 DEF Placed
<1>11. Placed'
  BY <1>1, <1>2, <1>3, <1>4, <1>7, <1>8, <1>10 DEF Placed, Kinds, LaunchKinds, StopKinds
<1> QED
  BY <1>9, <1>11

-----------------------------------------------------------------------------
(* The inductive invariant                                                 *)

\* The variables besides the commands.
Others ==
    /\ {proc, compile} \subseteq [Launchers -> Running \cup {"none", "exited", "reaped"}]
    /\ {running, builds, debug, live} \subseteq [Ids -> Launchers \cup {None}]
    /\ orphans \subseteq Launchers /\ file \subseteq Launchers /\ flagged \subseteq Launchers
    /\ outcome \in [Launchers -> {"none", "ended", "cancelled", "failed"}]
    /\ up \in BOOLEAN /\ downs \in 0 .. MaxDowns
    /\ picked \cup stopped \subseteq Launchers /\ settled \subseteq Launchers /\ raced \subseteq Ids

\* What a table holds is a launch on its way between its entry and its end.
Entered ==
    \A i \in Ids :
        /\ running[i] # None => /\ call[running[i]].kind = "run" /\ call[running[i]].id = i
                                /\ call[running[i]].at \in 7 .. 10
        /\ debug[i] # None => /\ call[debug[i]].kind = "debug" /\ call[debug[i]].id = i
                              /\ call[debug[i]].at \in 15 .. 18

\* A launch reports at its end, a run whose flag is set not that it ended.
Reported ==
    \A c \in Launchers :
        /\ call[c].kind = "none" => outcome[c] = "none"
        /\ call[c].kind = "run" /\ call[c].at <= 10 => outcome[c] # "ended"
        /\ call[c].kind = "debug" /\ call[c].at <= 18 => outcome[c] # "ended"
        /\ c \in flagged => call[c].kind = "run" /\ outcome[c] # "ended"

\* A run that is marked as cancelled, or an adapter that has been in its map and no longer is.
Taken(v) ==
    /\ outcome[v] # "ended"
    /\ v \in flagged \/ (call[v].kind = "debug" /\ call[v].at > 14 /\ debug[call[v].id] # v)

AtKill(d) == Busy(d) /\ Program[call[d].kind][call[d].at] = "kill"
Victims == \A d \in Calls : AtKill(d) => call[d].victim \in Launchers /\ Taken(call[d].victim)
Marked == \A v \in stopped : Taken(v)

Inv == Placed /\ Others /\ Entered /\ Reported /\ Victims /\ Marked

\* What a step of command c does, that goes on at n with victim x.
Tables(c, n) ==
    \A i \in Ids :
        /\ \/ running'[i] \in {running[i], None}
           \/ running'[i] = c /\ call[c].kind = "run" /\ call[c].id = i
        /\ c \in Launchers /\ running'[i] = c => n \in 7 .. 10
        /\ \/ debug'[i] \in {debug[i], None}
           \/ debug'[i] = c /\ call[c].kind = "debug" /\ call[c].id = i /\ call[c].at = 14
        /\ c \in Launchers /\ debug'[i] = c => n \in 15 .. 18
Reports(c, n) ==
    /\ \A v \in Launchers : v # c => outcome'[v] = outcome[v]
    /\ c \in Launchers /\ outcome'[c] = "ended" =>
          \/ outcome[c] = "ended"
          \/ call[c].kind = "run" /\ n = 11 /\ c \notin flagged
          \/ call[c].kind = "debug" /\ n = 19 /\ debug[call[c].id] = c
Flags ==
    /\ flagged \subseteq flagged'
    /\ flagged' = flagged \/ outcome' = outcome
    /\ \A v \in flagged' : v \in flagged \/ \E i \in Ids : running[i] = v
Aims(c, n, x) ==
    n < End(call[c].kind) /\ Program[call[c].kind][n] = "kill" => x \in Launchers /\ Taken(x)'
Hits(c) == \A v \in stopped' : v \in stopped \/ (AtKill(c) /\ v = call[c].victim)

Onward(c, n, x) ==
    /\ Busy(c) /\ n \in call[c].at + 1 .. End(call[c].kind)
    /\ Placed' /\ Others' /\ Moved(c, n, x)
    /\ Tables(c, n) /\ Reports(c, n) /\ Flags /\ Aims(c, n, x) /\ Hits(c)

LEMMA TakenStays ==
    ASSUME Inv, NEW c \in Calls, NEW n, NEW x, Onward(c, n, x), NEW v \in Launchers, Taken(v)
    PROVE  Taken(v)'
<1>0. v \in Calls /\ call[c].at \in Nat /\ n \in Nat /\ n > call[c].at
  <2>1. call[c].at \in Nat /\ call[c].kind \in Kinds
    BY Ends DEF Inv, Placed, Move, Onward, Busy
  <2>2. End(call[c].kind) \in {3, 5, 11, 22}
    BY <2>1, Ends DEF Kinds, LaunchKinds, StopKinds
  <2> QED
    BY <2>1, <2>2 DEF Onward, Calls
<1>1. outcome'[v] # "ended"
  <2>1. CASE v # c
    BY <2>1 DEF Taken, Onward, Reports
  <2>2. CASE v = c
    BY <2>2 DEF Taken, Onward, Reports, Inv, Reported
  <2> QED
    BY <2>1, <2>2
<1>2. CASE v \in flagged
  BY <1>1, <1>2 DEF Taken, Onward, Flags
<1>3. CASE call[v].kind = "debug" /\ call[v].at > 14 /\ debug[call[v].id] # v
  <2>1. call[v].id \in Ids /\ call[v].at \in Nat
    BY <1>0, <1>3 DEF Inv, Placed, Move, Kinds, LaunchKinds
  <2>2. call'[v].kind = "debug" /\ call'[v].id = call[v].id /\ call'[v].at > 14
    <3>1. CASE v # c
      BY <1>0, <1>3, <3>1 DEF Onward, Moved
    <3>2. CASE v = c
      BY <1>0, <1>3, <2>1, <3>2 DEF Onward, Moved
    <3> QED
      BY <3>1, <3>2
  <2>3. debug'[call[v].id] # v
    BY <1>3, <2>1, NamesAssumption DEF Onward, Tables
  <2> QED
    BY <1>1, <2>2, <2>3 DEF Taken
<1> QED
  BY <1>2, <1>3 DEF Taken

LEMMA OnwardStep ==
    ASSUME Inv, NEW c \in Calls, NEW n, NEW x, Onward(c, n, x)
    PROVE  Inv'
<1>1. /\ call[c].at \in Nat /\ n \in Nat /\ n > call[c].at /\ call[c].kind \in Kinds
      /\ n \in 1 .. End(call[c].kind)
  <2>1. call[c].at \in Nat /\ call[c].kind \in Kinds
    BY Ends DEF Inv, Placed, Move, Onward, Busy
  <2>2. End(call[c].kind) \in {3, 5, 11, 22}
    BY <2>1, Ends DEF Kinds, LaunchKinds, StopKinds
  <2> QED
    BY <2>1, <2>2 DEF Onward
<1>2. \A d \in Calls : d # c => call'[d] = call[d]
  BY DEF Onward, Moved
<1>3. c \in Launchers => /\ call'[c].kind = call[c].kind /\ call'[c].id = call[c].id
                         /\ call'[c].at = n
  BY DEF Onward, Moved
<1>4. Entered'
  <2> SUFFICES ASSUME NEW i \in Ids
               PROVE  /\ running'[i] # None => /\ call'[running'[i]].kind = "run"
                                               /\ call'[running'[i]].id = i
                                               /\ call'[running'[i]].at \in 7 .. 10
                      /\ debug'[i] # None => /\ call'[debug'[i]].kind = "debug"
                                             /\ call'[debug'[i]].id = i
                                             /\ call'[debug'[i]].at \in 15 .. 18
    BY DEF Entered
  <2>0. running'[i] \in Launchers \cup {None} /\ debug'[i] \in Launchers \cup {None}
    BY DEF Onward, Others
  <2>1. ASSUME running'[i] # None
        PROVE  /\ call'[running'[i]].kind = "run" /\ call'[running'[i]].id = i
               /\ call'[running'[i]].at \in 7 .. 10
    <3>1. CASE running'[i] = c
      BY <1>3, <2>0, <2>1, <3>1 DEF Onward, Tables, Inv, Entered
    <3>2. CASE running'[i] # c
      BY <1>2, <2>0, <2>1, <3>2 DEF Onward, Tables, Inv, Entered, Calls
    <3> QED
      BY <3>1, <3>2
  <2>2. ASSUME debug'[i] # None
        PROVE  /\ call'[debug'[i]].kind = "debug" /\ call'[debug'[i]].id = i
               /\ call'[debug'[i]].at \in 15 .. 18
    <3>1. CASE debug'[i] = c
      BY <1>3, <2>0, <2>2, <3>1 DEF Onward, Tables, Inv, Entered
    <3>2. CASE debug'[i] # c
      BY <1>2, <2>0, <2>2, <3>2 DEF Onward, Tables, Inv, Entered, Calls
    <3> QED
      BY <3>1, <3>2
  <2> QED
    BY <2>1, <2>2
<1>5. Reported'
  <2> SUFFICES ASSUME NEW v \in Launchers
               PROVE  /\ call'[v].kind = "none" => outcome'[v] = "none"
                      /\ call'[v].kind = "run" /\ call'[v].at <= 10 => outcome'[v] # "ended"
                      /\ call'[v].kind = "debug" /\ call'[v].at <= 18 => outcome'[v] # "ended"
                      /\ v \in flagged' => call'[v].kind = "run" /\ outcome'[v] # "ended"
    BY DEF Reported
  <2>1. v \in Calls
    BY DEF Calls
  <2>2. v \in flagged' /\ v \notin flagged => call[v].kind = "run" /\ call[v].at \in 7 .. 10
    <3> SUFFICES ASSUME v \in flagged', v \notin flagged
                 PROVE  call[v].kind = "run" /\ call[v].at \in 7 .. 10
      OBVIOUS
    <3>1. PICK i \in Ids : running[i] = v
      BY DEF Onward, Flags
    <3> QED
      BY <3>1, NamesAssumption DEF Inv, Entered
  <2>3. CASE v # c
    BY <1>2, <2>1, <2>2, <2>3 DEF Onward, Reports, Inv, Reported
  <2>4. CASE v = c
    <3>1. call'[v].kind # "none"
      BY <1>1, <1>3, <2>4 DEF Kinds, LaunchKinds, StopKinds
    <3>2. call'[v].kind = "run" /\ call'[v].at <= 10 => outcome'[v] # "ended"
      BY <1>1, <1>3, <2>4 DEF Onward, Reports, Inv, Reported
    <3>3. call'[v].kind = "debug" /\ call'[v].at <= 18 => outcome'[v] # "ended"
      BY <1>1, <1>3, <2>4 DEF Onward, Reports, Inv, Reported
    <3>4. v \in flagged' => call'[v].kind = "run"
      BY <1>3, <2>2, <2>4 DEF Inv, Reported
    <3>5. v \in flagged' => outcome'[v] # "ended"
      <4>1. CASE v \in flagged
        BY <2>4, <4>1 DEF Onward, Reports, Inv, Reported
      <4>2. CASE v \in flagged' /\ v \notin flagged
        BY <2>2, <4>2 DEF Onward, Flags, Inv, Reported
      <4> QED
        BY <4>1, <4>2
    <3> QED
      BY <3>1, <3>2, <3>3, <3>4, <3>5
  <2> QED
    BY <2>3, <2>4
<1>6. Victims'
  <2> SUFFICES ASSUME NEW d \in Calls, AtKill(d)'
               PROVE  \E v \in Launchers : call'[d].victim = v /\ Taken(v)'
    BY DEF Victims, Taken
  <2>1. CASE d # c
    <3>1. AtKill(d) /\ call'[d] = call[d]
      BY <1>2, <2>1 DEF AtKill, Busy
    <3>2. PICK v \in Launchers : v = call[d].victim /\ Taken(v)
      BY <3>1 DEF Inv, Victims
    <3>3. Taken(v)'
      BY <3>2, TakenStays
    <3> QED
      BY <3>1, <3>2, <3>3
  <2>2. CASE d = c
    <3>1. /\ call'[c].kind = call[c].kind /\ call'[c].at = n /\ call'[c].victim = x
          /\ n < End(call[c].kind) /\ Program[call[c].kind][n] = "kill"
      BY <2>2, Ends DEF AtKill, Busy, Onward, Moved, Kinds, LaunchKinds, StopKinds
    <3>2. x \in Launchers /\ Taken(x)'
      BY <3>1 DEF Onward, Aims
    <3> QED
      BY <2>2, <3>1, <3>2
  <2> QED
    BY <2>1, <2>2
<1>7. Marked'
  <2> SUFFICES ASSUME NEW v \in stopped' PROVE Taken(v)'
    BY DEF Marked
  <2>1. v \in Launchers /\ Taken(v)
    BY DEF Onward, Hits, Inv, Marked, Victims, Others
  <2> QED
    BY <2>1, TakenStays
<1> QED
  BY <1>4, <1>5, <1>6, <1>7 DEF Inv, Onward

-----------------------------------------------------------------------------
(* The steps of the commands                                               *)

LEMMA StepAt ==
    ASSUME Inv, NEW c \in Calls, NEW s, Step(c, s)
    PROVE  /\ Busy(c) /\ call[c].kind \in Kinds /\ call[c].id \in Ids
           /\ End(call[c].kind) \in {3, 5, 11, 22} /\ call[c].at \in 1 .. End(call[c].kind) - 1
           /\ Program[call[c].kind][call[c].at] = s
           /\ Followed(call[c].kind, call[c].at) /\ Located(call[c].kind, call[c].at)
<1>1. Busy(c) /\ call[c].kind \in Kinds /\ Program[call[c].kind][call[c].at] = s
  BY Ends DEF Step, Busy
<1>2. End(call[c].kind) \in {3, 5, 11, 22}
  BY <1>1, Ends DEF Kinds, LaunchKinds, StopKinds
<1>3. call[c].at \in 1 .. End(call[c].kind) - 1 /\ call[c].id \in Ids
  BY <1>1, <1>2 DEF Inv, Placed, Busy
<1> QED
  BY <1>1, <1>2, <1>3, Steps

LEMMA Goes ==
    ASSUME Inv, NEW c \in Calls, NEW s, Step(c, s), NEW n, n \in call[c].at + 1 .. End(call[c].kind),
           NEW x \in Launchers \cup {None}, GoTo(c, n, x),
           Others', Tables(c, n), Reports(c, n), Flags, Aims(c, n, x), Hits(c)
    PROVE  Inv'
BY Movement, OnwardStep, StepAt DEF Inv, Onward

\* A launch that is in a table is at one of these steps.
LEMMA InTable ==
    ASSUME Inv, NEW c \in Launchers, NEW s, Step(c, s), NEW i \in Ids
    PROVE  /\ running[i] = c => \/ s \in {"record", "persist", "wait"} /\ call[c].at \in 7 .. 9
                                \/ s = "remove" /\ call[c].at = 10
           /\ debug[i] = c => \/ s \in {"record", "persist", "talk"} /\ call[c].at \in 15 .. 17
                              \/ s = "finish" /\ call[c].at = 18
<1>1. c \in Calls /\ c # None
  BY NamesAssumption DEF Calls
<1>2. running[i] = c => call[c].kind = "run" /\ call[c].at \in 7 .. 10
  BY <1>1 DEF Inv, Entered
<1>3. debug[i] = c => call[c].kind = "debug" /\ call[c].at \in 15 .. 18
  BY <1>1 DEF Inv, Entered
<1>4. /\ Located(call[c].kind, call[c].at) /\ Program[call[c].kind][call[c].at] = s
  BY <1>1, StepAt
<1> QED
  BY <1>2, <1>3, <1>4 DEF Located

\* A step that is neither a look for a victim nor the last in a table, and touches nothing else.
LEMMA PlainStep ==
    ASSUME Inv, NEW c \in Calls, NEW s, Step(c, s), Proceed(c), Others',
           s \notin {"find", "drop", "remove", "finish"},
           UNCHANGED <<running, debug, outcome, flagged>>, stopped' \subseteq stopped
    PROVE  Inv'
<1> DEFINE n == call[c].at + 1
<1>1. /\ call[c].kind \in Kinds /\ End(call[c].kind) \in {3, 5, 11, 22}
      /\ call[c].at \in 1 .. End(call[c].kind) - 1
  BY StepAt
<1>2. n \in call[c].at + 1 .. End(call[c].kind)
  BY <1>1
<1>3. Aims(c, n, None)
  BY StepAt DEF Aims, Followed, NotKill
<1>4. Tables(c, n)
  BY InTable DEF Tables
<1>5. Reports(c, n) /\ Flags /\ Hits(c)
  BY DEF Reports, Flags, Hits
<1>6. GoTo(c, n, None)
  BY DEF Proceed
<1> HIDE DEF n
<1> QED
  BY <1>2, <1>3, <1>4, <1>5, <1>6, Goes

\* A launch that fails before it has entered a table.
LEMMA FailStep ==
    ASSUME Inv, NEW c \in Launchers, NEW s \in {"spawn", "spawnBuild", "removeBuild"}, Step(c, s),
           GiveUp(c), Others', outcome' = [outcome EXCEPT ![c] = "failed"],
           UNCHANGED <<running, debug, flagged, stopped>>
    PROVE  Inv'
<1> DEFINE n == End(call[c].kind)
<1>0. c \in Calls
  BY DEF Calls
<1>1. n \in {3, 5, 11, 22} /\ call[c].at \in 1 .. n - 1
  BY <1>0, StepAt
<1>2. n \in call[c].at + 1 .. End(call[c].kind)
  BY <1>1
<1>3. Aims(c, n, None)
  BY <1>1 DEF Aims
<1>4. Tables(c, n)
  BY InTable DEF Tables
<1>5. Reports(c, n) /\ Flags /\ Hits(c)
  BY DEF Reports, Flags, Hits, Inv, Others
<1>6. GoTo(c, n, None)
  BY DEF GiveUp
<1> HIDE DEF n
<1> QED
  BY <1>0, <1>2, <1>3, <1>4, <1>5, <1>6, Goes

-----------------------------------------------------------------------------
(* The actions                                                             *)

LEMMA OnDiskTyped ==
    ASSUME NEW l, l \in [Ids -> Launchers \cup {None}], NEW o, o \subseteq Launchers
    PROVE  OnDisk(l, o) \subseteq Launchers
BY DEF OnDisk

LEMMA SignalTyped ==
    ASSUME NEW p, p \in [Launchers -> Running \cup {"none", "exited", "reaped"}], NEW v
    PROVE  Signal(p, v) \in [Launchers -> Running \cup {"none", "exited", "reaped"}]
BY DEF Signal, Running

\* A look for a victim, that goes on at once or past the kill.
LEMMA TargetStep ==
    ASSUME Inv, NEW c \in Calls, NEW s \in {"find", "drop", "findBuild"}, Step(c, s),
           NEW x \in Launchers \cup {None}, Target(c, x), Others',
           \A i \in Ids : running'[i] = running[i] /\ debug'[i] \in {debug[i], None},
           UNCHANGED <<outcome, stopped>>, Flags,
           s # "findBuild" => (x # None => Taken(x)')
    PROVE  Inv'
<1>1. /\ call[c].kind \in Kinds /\ End(call[c].kind) \in {3, 5, 11, 22}
      /\ call[c].at \in 1 .. End(call[c].kind) - 1
      /\ Program[call[c].kind][call[c].at] = s /\ Followed(call[c].kind, call[c].at)
  BY StepAt
<1>2. NotKill(call[c].kind, call[c].at + 2)
  BY <1>1 DEF Followed
<1>3. call[c].at \in Nat
  BY <1>1
<1>4. call[c].at + 2 \in call[c].at + 1 .. End(call[c].kind)
  BY <1>1, <1>2, <1>3 DEF NotKill
<1>5. Hits(c)
  BY DEF Hits
<1>6. c \in Launchers => \A i \in Ids : running'[i] # c /\ debug'[i] # c
  BY InTable, NamesAssumption
<1>7. ASSUME NEW n PROVE Tables(c, n) /\ Reports(c, n)
  BY <1>6 DEF Tables, Reports
<1>8. CASE x = None
  <2> DEFINE n == call[c].at + 2
  <2>1. GoTo(c, n, None)
    BY <1>8 DEF Target
  <2>2. Aims(c, n, None)
    BY <1>2 DEF Aims, NotKill
  <2> HIDE DEF n
  <2>3. n \in call[c].at + 1 .. End(call[c].kind)
    BY <1>4 DEF n
  <2> QED
    BY <1>5, <1>7, <2>1, <2>2, <2>3, Goes
<1>9. CASE x # None
  <2> DEFINE n == call[c].at + 1
  <2>1. GoTo(c, n, x)
    BY <1>9 DEF Target
  <2>2. n \in call[c].at + 1 .. End(call[c].kind)
    BY <1>1
  <2>3. Aims(c, n, x)
    <3>1. CASE s = "findBuild"
      BY <1>1, <3>1 DEF Aims, Followed, NotKill
    <3>2. CASE s # "findBuild"
      BY <1>9, <3>2 DEF Aims
    <3> QED
      BY <3>1, <3>2
  <2> HIDE DEF n
  <2> QED
    BY <1>5, <1>7, <1>9, <2>1, <2>2, <2>3, Goes
<1> QED
  BY <1>8, <1>9

\* The run that is found is marked before it is killed.
LEMMA FindStep == ASSUME Inv, NEW c \in Calls, Find(c) PROVE Inv'
<1> DEFINE i == call[c].id
           x == running[i]
<1>1. Step(c, "find") /\ Target(c, x) /\ UNCHANGED <<running, debug, outcome, stopped>>
      /\ flagged' = flagged \cup ({x} \ {None})
  BY DEF Find, tables
<1>2. i \in Ids
  BY <1>1, StepAt
<1>3. x \in Launchers \cup {None}
  BY <1>2 DEF Inv, Others
<1>4. Others'
  BY <1>1, <1>3 DEF Inv, Others, Find, processes, tables, store
<1>5. Flags
  BY <1>1, <1>2, <1>3 DEF Flags
<1>6. PICK v : v = x
  OBVIOUS
<1>7. v # None => Taken(v)'
  <2> SUFFICES ASSUME v # None PROVE outcome'[v] # "ended" /\ v \in flagged'
    BY DEF Taken
  <2>1. call[v].kind = "run" /\ call[v].at \in 7 .. 10
    BY <1>2, <1>6 DEF Inv, Entered
  <2> QED
    BY <1>1, <1>3, <1>6, <2>1 DEF Inv, Reported
<1> HIDE DEF x
<1> QED
  BY <1>1, <1>3, <1>4, <1>5, <1>6, <1>7, TargetStep

\* The adapter that is found has left its map before it is killed.
LEMMA DropStep == ASSUME Inv, NEW c \in Calls, Drop(c) PROVE Inv'
<1> DEFINE i == call[c].id
           x == debug[i]
<1>1. Step(c, "drop") /\ Target(c, x) /\ UNCHANGED <<running, outcome, stopped, flagged>>
      /\ debug' = [debug EXCEPT ![i] = None]
  BY DEF Drop
<1>2. i \in Ids
  BY <1>1, StepAt
<1>3. x \in Launchers \cup {None} /\ debug \in [Ids -> Launchers \cup {None}]
  BY <1>2 DEF Inv, Others
<1>4. Others'
  <2>1. debug' \in [Ids -> Launchers \cup {None}] /\ picked' \cup stopped' \subseteq Launchers
    BY <1>1, <1>3 DEF Inv, Others, Drop
  <2> QED
    BY <2>1 DEF Inv, Others, Drop, processes, tables, store
<1>5. Flags
  BY <1>1 DEF Flags
<1>6. PICK v : v = x
  OBVIOUS
<1>7. v # None => Taken(v)'
  <2> SUFFICES ASSUME v # None PROVE Taken(v)'
    OBVIOUS
  <2>1. call[v].kind = "debug" /\ call[v].at \in 15 .. 18 /\ call[v].id = i
    BY <1>2, <1>6 DEF Inv, Entered
  <2>2. v \in Launchers /\ v \in Calls
    BY <1>3, <1>6 DEF Calls
  <2>3. debug'[i] # v
    BY <1>1, <1>2, <1>3
  <2>4. outcome'[v] # "ended"
    BY <1>1, <2>1, <2>2 DEF Inv, Reported
  <2>5. v # c
    <3>1. c \in Launchers => debug[i] # c
      BY <1>1, <1>2, InTable
    <3> QED
      BY <1>6, <2>2, <3>1
  <2>6. call'[v] = call[v]
    <3>1. \E n, y : GoTo(c, n, y)
      BY <1>1 DEF Target
    <3> QED
      BY <2>2, <2>5, <3>1 DEF GoTo, Inv, Placed
  <2> QED
    BY <2>1, <2>3, <2>4, <2>6 DEF Taken
<1>8. \A j \in Ids : running'[j] = running[j] /\ debug'[j] \in {debug[j], None}
  BY <1>1, <1>3
<1> HIDE DEF x
<1> QED
  BY <1>1, <1>3, <1>4, <1>5, <1>6, <1>7, <1>8, TargetStep

LEMMA FindBuildStep == ASSUME Inv, NEW c \in Calls, FindBuild(c) PROVE Inv'
<1> DEFINE x == builds[call[c].id]
<1>1. Step(c, "findBuild") /\ UNCHANGED <<running, debug, outcome, stopped, flagged>>
  BY DEF FindBuild, tables, history
<1>2. /\ call[c].id \in Ids /\ call[c].at \in Nat /\ End(call[c].kind) \in Nat
      /\ Program[call[c].kind][call[c].at] = "findBuild" /\ Followed(call[c].kind, call[c].at)
      /\ call[c].kind \in Kinds
  BY <1>1, StepAt
<1>3. x \in Launchers \cup {None}
  BY <1>2 DEF Inv, Others
<1>4. Others'
  BY DEF Inv, Others, FindBuild, processes, tables, store, history
<1>5. Flags
  BY <1>1 DEF Flags
<1>6. CASE Target(c, x)
  <2> HIDE DEF x
  <2> QED
    BY <1>1, <1>3, <1>4, <1>5, <1>6, TargetStep
<1>7. CASE c \in Launchers /\ GoTo(c, call[c].at + 6, None)
  <2> DEFINE n == call[c].at + 6
  <2>1. call[c].kind = "debug"
    <3>1. call[c].kind \in LaunchKinds
      BY <1>2, <1>7 DEF Inv, Placed, Kinds, LaunchKinds, StopKinds
    <3>2. call[c].kind # "run"
      <4> SUFFICES ASSUME call[c].kind = "run" PROVE FALSE
        OBVIOUS
      <4>1. call[c].at \in 1 .. 10 /\ Program["run"][call[c].at] = "findBuild"
        BY <1>1, StepAt, Ends
      <4> QED
        BY <4>1, SMTT(30) DEF Program
    <3> QED
      BY <3>1, <3>2 DEF LaunchKinds
  <2>2. NotKill(call[c].kind, n)
    BY <1>2, <2>1 DEF Followed
  <2>3. n \in call[c].at + 1 .. End(call[c].kind) /\ Aims(c, n, None)
    BY <1>2, <2>2 DEF Aims, NotKill
  <2>4. Hits(c) /\ Reports(c, n)
    BY <1>1 DEF Hits, Reports
  <2>5. Tables(c, n)
    BY <1>1, <1>7, InTable DEF Tables
  <2> HIDE DEF n
  <2> QED
    BY <1>1, <1>4, <1>5, <1>7, <2>3, <2>4, <2>5, Goes DEF n
<1> QED
  BY <1>6, <1>7 DEF FindBuild

LEMMA KillStep == ASSUME Inv, NEW c \in Calls, Kill(c) PROVE Inv'
<1>1. Step(c, "kill") /\ UNCHANGED <<running, debug, outcome, flagged>>
  BY DEF Kill, tables
<1>2. call[c].victim \in Launchers
  BY <1>1, StepAt DEF Inv, Victims, AtKill
<1>3. Hits(c)
  BY <1>1, StepAt DEF Kill, Hits, AtKill
<1>4. Others'
  <2>1. proc' \in [Launchers -> Running \cup {"none", "exited", "reaped"}]
    BY SignalTyped DEF Kill, Inv, Others
  <2>2. stopped' \subseteq Launchers
    BY <1>2 DEF Kill, Inv, Others
  <2> QED
    BY <2>1, <2>2 DEF Kill, Inv, Others, tables, store
<1>5. Flags
  BY <1>1 DEF Flags
<1>6. \E n : n \in call[c].at + 1 .. End(call[c].kind) /\ GoTo(c, n, None) /\ Aims(c, n, None)
  <2>1. /\ call[c].kind \in Kinds /\ End(call[c].kind) \in {3, 5, 11, 22}
        /\ call[c].at \in 1 .. End(call[c].kind) - 1
        /\ Program[call[c].kind][call[c].at] = "kill" /\ Followed(call[c].kind, call[c].at)
    BY <1>1, StepAt
  <2>2. /\ call[c].at + 1 \in call[c].at + 1 .. End(call[c].kind)
        /\ End(call[c].kind) \in call[c].at + 1 .. End(call[c].kind)
    BY <2>1
  <2>3. Aims(c, call[c].at + 1, None) /\ Aims(c, End(call[c].kind), None)
    BY <2>1 DEF Aims, Followed, NotKill
  <2>4. GoTo(c, call[c].at + 1, None) \/ GoTo(c, End(call[c].kind), None)
    BY DEF Kill, Proceed, GiveUp
  <2> QED
    BY <2>2, <2>3, <2>4
<1>7. ASSUME NEW n PROVE Tables(c, n) /\ Reports(c, n)
  BY <1>1, InTable DEF Tables, Reports
<1> QED
  BY <1>1, <1>3, <1>4, <1>5, <1>6, <1>7, Goes

\* A launch enters the supervisor's map ...
LEMMA InsertStep == ASSUME Inv, NEW c \in Launchers, Insert(c) PROVE Inv'
<1> DEFINE n == call[c].at + 1
<1>1. /\ Step(c, "insert") /\ UNCHANGED <<debug, outcome, flagged, stopped>>
      /\ running' = [running EXCEPT ![call[c].id] = c] /\ GoTo(c, n, None)
  BY DEF Insert, Proceed, history
<1>2. /\ c \in Calls /\ call[c].kind = "run" /\ call[c].at = 6 /\ n = 7
      /\ n \in call[c].at + 1 .. End(call[c].kind) /\ Aims(c, n, None)
  <2>1. c \in Calls
    BY DEF Calls
  <2>2. /\ Program[call[c].kind][call[c].at] = "insert" /\ Followed(call[c].kind, call[c].at)
        /\ Located(call[c].kind, call[c].at)
    BY <1>1, <2>1, StepAt
  <2>3. call[c].kind = "run" /\ call[c].at = 6
    BY <2>2 DEF Located
  <2>4. Aims(c, n, None)
    BY <2>2 DEF Followed, NotKill, Aims
  <2> QED
    BY <2>1, <2>3, <2>4, Ends
<1>3. Others'
  <2>1. running' \in [Ids -> Launchers \cup {None}]
    BY <1>1 DEF Inv, Others
  <2> QED
    BY <1>1, <2>1 DEF Inv, Others, Insert, processes, store, history
<1>4. Tables(c, n)
  <2>1. running \in [Ids -> Launchers \cup {None}] /\ call[c].id \in Ids
    BY <1>1, <1>2, StepAt DEF Inv, Others
  <2>2. \A i \in Ids : running'[i] = IF i = call[c].id THEN c ELSE running[i]
    BY <1>1, <2>1
  <2>3. \A i \in Ids : debug'[i] = debug[i] /\ debug[i] # c
    BY <1>1, InTable
  <2> QED
    BY <1>2, <2>2, <2>3 DEF Tables
<1>5. Reports(c, n) /\ Flags /\ Hits(c)
  BY <1>1 DEF Reports, Flags, Hits
<1> HIDE DEF n
<1> QED
  BY <1>1, <1>2, <1>3, <1>4, <1>5, Goes

\* ... or that of the adapters.
LEMMA EnterStep == ASSUME Inv, NEW c \in Launchers, Enter(c) PROVE Inv'
<1> DEFINE n == call[c].at + 1
<1>1. /\ Step(c, "enter") /\ UNCHANGED <<running, outcome, flagged, stopped>>
      /\ debug' = [debug EXCEPT ![call[c].id] = c] /\ GoTo(c, n, None)
  BY DEF Enter, Proceed, history
<1>2. /\ c \in Calls /\ call[c].kind = "debug" /\ call[c].at = 14 /\ n = 15
      /\ n \in call[c].at + 1 .. End(call[c].kind) /\ Aims(c, n, None)
  <2>1. c \in Calls
    BY DEF Calls
  <2>2. /\ Program[call[c].kind][call[c].at] = "enter" /\ Followed(call[c].kind, call[c].at)
        /\ Located(call[c].kind, call[c].at)
    BY <1>1, <2>1, StepAt
  <2>3. call[c].kind = "debug" /\ call[c].at = 14
    BY <2>2 DEF Located
  <2>4. Aims(c, n, None)
    BY <2>2 DEF Followed, NotKill, Aims
  <2> QED
    BY <2>1, <2>3, <2>4, Ends
<1>3. Others'
  <2>1. debug' \in [Ids -> Launchers \cup {None}]
    BY <1>1 DEF Inv, Others
  <2> QED
    BY <1>1, <2>1 DEF Inv, Others, Enter, processes, store, history
<1>4. Tables(c, n)
  <2>1. debug \in [Ids -> Launchers \cup {None}] /\ call[c].id \in Ids
    BY <1>1, <1>2, StepAt DEF Inv, Others
  <2>2. \A i \in Ids : debug'[i] = IF i = call[c].id THEN c ELSE debug[i]
    BY <1>1, <2>1
  <2>3. \A i \in Ids : running'[i] = running[i] /\ running[i] # c
    BY <1>1, InTable
  <2> QED
    BY <1>2, <2>2, <2>3 DEF Tables
<1>5. Reports(c, n) /\ Flags /\ Hits(c)
  BY <1>1 DEF Reports, Flags, Hits
<1> HIDE DEF n
<1> QED
  BY <1>1, <1>2, <1>3, <1>4, <1>5, Goes

\* A run leaves the map, if it is in it, and says that it was cancelled if it is marked so.
LEMMA RemoveStep == ASSUME Inv, NEW c \in Launchers, Remove(c) PROVE Inv'
<1> DEFINE n == call[c].at + 1
           i == call[c].id
<1>1. /\ Step(c, "remove") /\ UNCHANGED <<processes, builds, debug, orphans, flagged, up, downs, history>>
      /\ GoTo(c, n, None)
      /\ outcome' = [outcome EXCEPT ![c] = IF c \in flagged THEN "cancelled" ELSE "ended"]
  BY DEF Remove, Proceed
<1>2. /\ c \in Calls /\ call[c].kind = "run" /\ call[c].at = 10 /\ n = 11 /\ i \in Ids
      /\ n \in call[c].at + 1 .. End(call[c].kind) /\ Aims(c, n, None)
  <2>1. c \in Calls
    BY DEF Calls
  <2>2. /\ Program[call[c].kind][call[c].at] = "remove" /\ Followed(call[c].kind, call[c].at)
        /\ Located(call[c].kind, call[c].at) /\ i \in Ids
    BY <1>1, <2>1, StepAt
  <2>3. call[c].kind = "run" /\ call[c].at = 10
    BY <2>2 DEF Located
  <2>4. Aims(c, n, None)
    BY <2>2 DEF Followed, NotKill, Aims
  <2> QED
    BY <2>1, <2>2, <2>3, <2>4, Ends
<1>3. \A j \in Ids : running'[j] \in {running[j], None} /\ running'[j] # c
  <2>1. \A j \in Ids : j # i => running[j] # c
    BY NamesAssumption DEF Inv, Entered
  <2>2. c # None /\ running \in [Ids -> Launchers \cup {None}]
    BY NamesAssumption DEF Inv, Others
  <2>3. CASE running[i] = c
    BY <1>2, <2>1, <2>2, <2>3 DEF Remove
  <2>4. CASE running[i] # c
    BY <1>2, <2>1, <2>2, <2>4 DEF Remove
  <2> QED
    BY <2>3, <2>4
<1>4. Others'
  <2>1. running' \in [Ids -> Launchers \cup {None}]
    BY DEF Remove, Inv, Others
  <2>2. live' \in [Ids -> Launchers \cup {None}]
    BY DEF Remove, Inv, Others
  <2>3. file' \subseteq Launchers
    <3>1. OnDisk(live', orphans) \subseteq Launchers
      BY <2>2, OnDiskTyped DEF Inv, Others
    <3> QED
      BY <3>1 DEF Remove, Inv, Others
  <2>4. outcome' \in [Launchers -> {"none", "ended", "cancelled", "failed"}]
    BY <1>1 DEF Inv, Others
  <2> QED
    BY <1>1, <2>1, <2>2, <2>3, <2>4 DEF Inv, Others, processes, history
<1>5. Tables(c, n)
  BY <1>1, <1>2, <1>3, InTable DEF Tables
<1>6. Reports(c, n) /\ Flags /\ Hits(c)
  BY <1>1, <1>2 DEF Reports, Flags, Hits, history, Inv, Others
<1> HIDE DEF n, i
<1> QED
  BY <1>1, <1>2, <1>4, <1>5, <1>6, Goes

\* An adapter says that it ended if it finds itself in the map.
LEMMA FinishStep == ASSUME Inv, NEW c \in Launchers, Finish(c) PROVE Inv'
<1> DEFINE n == call[c].at + 1
           i == call[c].id
           own == debug[i] = c
<1>1. /\ Step(c, "finish") /\ UNCHANGED <<processes, running, builds, store, flagged, up, downs,
                                         stopped, settled, raced>>
      /\ GoTo(c, n, None) /\ picked' = picked \cup {c}
      /\ debug' = IF own THEN [debug EXCEPT ![i] = None] ELSE debug
      /\ outcome' = [outcome EXCEPT ![c] = IF own THEN "ended" ELSE "cancelled"]
  BY DEF Finish, Proceed
<1>2. /\ c \in Calls /\ call[c].kind = "debug" /\ call[c].at = 18 /\ n = 19 /\ i \in Ids
      /\ n \in call[c].at + 1 .. End(call[c].kind) /\ Aims(c, n, None)
  <2>1. c \in Calls
    BY DEF Calls
  <2>2. /\ Program[call[c].kind][call[c].at] = "finish" /\ Followed(call[c].kind, call[c].at)
        /\ Located(call[c].kind, call[c].at) /\ i \in Ids
    BY <1>1, <2>1, StepAt
  <2>3. call[c].kind = "debug" /\ call[c].at = 18
    BY <2>2 DEF Located
  <2>4. Aims(c, n, None)
    BY <2>2 DEF Followed, NotKill, Aims
  <2> QED
    BY <2>1, <2>2, <2>3, <2>4, Ends
<1>3. \A j \in Ids : debug'[j] \in {debug[j], None} /\ debug'[j] # c
  <2>1. \A j \in Ids : j # i => debug[j] # c
    BY NamesAssumption DEF Inv, Entered
  <2>2. c # None /\ debug \in [Ids -> Launchers \cup {None}]
    BY NamesAssumption DEF Inv, Others
  <2> QED
    BY <1>1, <1>2, <2>1, <2>2
<1>4. Others'
  <2>1. debug' \in [Ids -> Launchers \cup {None}]
    BY <1>1 DEF Inv, Others
  <2>2. outcome' \in [Launchers -> {"none", "ended", "cancelled", "failed"}]
    BY <1>1 DEF Inv, Others
  <2> QED
    BY <1>1, <2>1, <2>2 DEF Inv, Others, processes, store
<1>5. Tables(c, n)
  BY <1>1, <1>2, <1>3, InTable DEF Tables
<1>6. Reports(c, n) /\ Flags /\ Hits(c)
  BY <1>1, <1>2 DEF Reports, Flags, Hits, Inv, Others
<1> HIDE DEF n, i
<1> QED
  BY <1>1, <1>2, <1>4, <1>5, <1>6, Goes

LEMMA SpawnStep == ASSUME Inv, NEW c \in Launchers, Spawn(c) PROVE Inv'
<1>1. /\ Step(c, "spawn") /\ UNCHANGED <<running, debug, flagged, stopped>> /\ c \in Calls
  BY DEF Spawn, tables, history, Calls
<1>2. CASE proc' = [proc EXCEPT ![c] = "alive"] /\ Proceed(c) /\ UNCHANGED outcome
  <2>1. proc' \in [Launchers -> Running \cup {"none", "exited", "reaped"}]
    BY <1>2 DEF Inv, Others, Running
  <2>2. Others'
    BY <1>2, <2>1 DEF Spawn, Inv, Others, tables, store, history
  <2> QED
    BY <1>1, <1>2, <2>2, PlainStep
<1>3. CASE GiveUp(c) /\ outcome' = [outcome EXCEPT ![c] = "failed"] /\ UNCHANGED proc
  <2>1. outcome' \in [Launchers -> {"none", "ended", "cancelled", "failed"}]
    BY <1>3 DEF Inv, Others
  <2>2. Others'
    BY <1>3, <2>1 DEF Spawn, Inv, Others, tables, store, history
  <2> QED
    BY <1>1, <1>3, <2>2, FailStep
<1> QED
  BY <1>2, <1>3 DEF Spawn

LEMMA SpawnBuildStep == ASSUME Inv, NEW c \in Launchers, SpawnBuild(c) PROVE Inv'
<1>1. /\ Step(c, "spawnBuild") /\ UNCHANGED <<running, debug, flagged, stopped>> /\ c \in Calls
  BY DEF SpawnBuild, tables, history, Calls
<1>2. CASE compile' = [compile EXCEPT ![c] = "alive"] /\ Proceed(c) /\ UNCHANGED outcome
  <2>1. compile' \in [Launchers -> Running \cup {"none", "exited", "reaped"}]
    BY <1>2 DEF Inv, Others, Running
  <2>2. Others'
    BY <1>2, <2>1 DEF SpawnBuild, Inv, Others, tables, store, history
  <2> QED
    BY <1>1, <1>2, <2>2, PlainStep
<1>3. CASE GiveUp(c) /\ outcome' = [outcome EXCEPT ![c] = "failed"] /\ UNCHANGED compile
  <2>1. outcome' \in [Launchers -> {"none", "ended", "cancelled", "failed"}]
    BY <1>3 DEF Inv, Others
  <2>2. Others'
    BY <1>3, <2>1 DEF SpawnBuild, Inv, Others, tables, store, history
  <2> QED
    BY <1>1, <1>3, <2>2, FailStep
<1> QED
  BY <1>2, <1>3 DEF SpawnBuild

LEMMA RemoveBuildStep == ASSUME Inv, NEW c \in Launchers, RemoveBuild(c) PROVE Inv'
<1>1. /\ Step(c, "removeBuild") /\ UNCHANGED <<running, debug, flagged, stopped>> /\ c \in Calls
  BY DEF RemoveBuild, history, Calls
<1>2. builds' \in [Ids -> Launchers \cup {None}]
  BY DEF RemoveBuild, Inv, Others
<1>3. CASE Proceed(c) /\ UNCHANGED outcome
  <2>1. Others'
    BY <1>2, <1>3 DEF RemoveBuild, Inv, Others, processes, store, history
  <2> QED
    BY <1>1, <1>3, <2>1, PlainStep
<1>4. CASE GiveUp(c) /\ outcome' = [outcome EXCEPT ![c] = "failed"]
  <2>1. outcome' \in [Launchers -> {"none", "ended", "cancelled", "failed"}]
    BY <1>4 DEF Inv, Others
  <2>2. Others'
    BY <1>2, <1>4, <2>1 DEF RemoveBuild, Inv, Others, processes, store, history
  <2> QED
    BY <1>1, <1>4, <2>2, FailStep
<1> QED
  BY <1>3, <1>4 DEF RemoveBuild

\* Steps that change a process.
LEMMA ProcessStep ==
    ASSUME Inv, NEW c \in Calls,
           \/ KillBuild(c)
           \/ c \in Launchers /\ (Wait(c) \/ WaitBuild(c) \/ StopSelf(c) \/ Reap(c))
    PROVE  Inv'
<1>1. PICK s \in {"killBuild", "wait", "waitBuild", "stop", "reap"} : Step(c, s)
  BY DEF KillBuild, Wait, WaitBuild, StopSelf, Reap
<1>2. /\ Proceed(c) /\ UNCHANGED <<tables, store, flagged, outcome, up, downs, history>>
  BY DEF KillBuild, Wait, WaitBuild, StopSelf, Reap
<1>3. /\ proc' \in [Launchers -> Running \cup {"none", "exited", "reaped"}]
      /\ compile' \in [Launchers -> Running \cup {"none", "exited", "reaped"}]
  BY SignalTyped DEF KillBuild, Wait, WaitBuild, StopSelf, Reap, Inv, Others
<1>4. Others'
  BY <1>2, <1>3 DEF Inv, Others, tables, store, history
<1>5. UNCHANGED <<running, debug, outcome, flagged>> /\ stopped' \subseteq stopped
  BY <1>2 DEF tables, history
<1> QED
  BY <1>1, <1>2, <1>4, <1>5, PlainStep

\* Steps that change the registry, or a build's entry, or nothing.
LEMMA RegistryStep ==
    ASSUME Inv, NEW c \in Launchers,
           InsertBuild(c) \/ Record(c) \/ Persist(c) \/ Talk(c) \/ Unrecord(c)
    PROVE  Inv'
<1>1. PICK s \in {"insertBuild", "record", "persist", "talk", "unrecord"} : Step(c, s)
  BY DEF InsertBuild, Record, Persist, Talk, Unrecord
<1>2. /\ Proceed(c) /\ UNCHANGED <<proc, compile, running, debug, orphans, flagged, outcome, up, downs,
                                   picked, stopped, raced>>
  BY DEF InsertBuild, Record, Persist, Talk, Unrecord, processes, tables, store, history
<1>3. builds' \in [Ids -> Launchers \cup {None}] /\ live' \in [Ids -> Launchers \cup {None}]
  <2>1. builds' = builds \/ builds' = [builds EXCEPT ![call[c].id] = c]
    BY DEF InsertBuild, Record, Persist, Talk, Unrecord, tables
  <2>2. \/ live' = live \/ live' = [live EXCEPT ![call[c].id] = c]
        \/ live' = [i \in Ids |-> IF live[i] = c THEN None ELSE live[i]]
    BY DEF InsertBuild, Record, Persist, Talk, Unrecord, store
  <2> QED
    BY <2>1, <2>2 DEF Inv, Others
<1>4. file' \subseteq Launchers /\ settled' \subseteq Launchers
  <2>1. OnDisk(live, orphans) \subseteq Launchers /\ OnDisk(live', orphans) \subseteq Launchers
    BY <1>3, OnDiskTyped DEF Inv, Others
  <2>2. file' \in {file, OnDisk(live, orphans), OnDisk(live', orphans)}
    BY DEF InsertBuild, Record, Persist, Talk, Unrecord, store
  <2>3. settled' \in {settled, settled \cup {c}}
    BY DEF InsertBuild, Record, Persist, Talk, Unrecord, history
  <2> QED
    BY <2>1, <2>2, <2>3 DEF Inv, Others
<1>5. Others'
  BY <1>2, <1>3, <1>4 DEF Inv, Others
<1> QED
  BY <1>1, <1>2, <1>5, PlainStep DEF Calls

-----------------------------------------------------------------------------
(* The environment                                                         *)

\* A command comes: it is in no table, and its first step is not a kill.
LEMMA StartStep == ASSUME Inv, NEW c \in Calls, NEW i \in Ids, NEW k, Start(c, k, i) PROVE Inv'
<1> DEFINE o == [kind |-> k, id |-> i, at |-> 1, victim |-> None]
<1>1. /\ call[c] = Idle /\ call' = [call EXCEPT ![c] = o]
      /\ UNCHANGED <<running, debug, outcome, flagged, stopped>>
      /\ k \in IF c \in Launchers THEN LaunchKinds ELSE StopKinds
  BY DEF Start, tables
<1>2. /\ k \in Kinds /\ o \in Move /\ End(k) \in {3, 5, 11, 22}
      /\ Program[k][1] # "kill" /\ call[c].kind = "none"
  BY <1>1, Ends DEF Kinds, LaunchKinds, StopKinds, Move, Program, Idle
<1>3. /\ call'[c].kind = k /\ call'[c].id = i /\ call'[c].at = 1 /\ call'[c] = o
      /\ \A d \in Calls : d # c => call'[d] = call[d]
      /\ call' \in [Calls -> Move]
  BY <1>1, <1>2 DEF Inv, Placed
<1> HIDE DEF o
<1>4. Placed'
  BY <1>1, <1>2, <1>3 DEF Inv, Placed, Kinds, LaunchKinds, StopKinds
<1>5. Others'
  BY DEF Inv, Others, Start, processes, tables, store
<1>6. Entered'
  <2>1. \A j \in Ids : (running[j] # None => running[j] # c) /\ (debug[j] # None => debug[j] # c)
    BY <1>2 DEF Inv, Entered
  <2>2. \A j \in Ids : running[j] \in Launchers \cup {None} /\ debug[j] \in Launchers \cup {None}
    BY DEF Inv, Others
  <2> QED
    BY <1>1, <1>3, <2>1, <2>2 DEF Inv, Entered, Calls
<1>7. Reported'
  <2> SUFFICES ASSUME NEW v \in Launchers
               PROVE  /\ call'[v].kind = "none" => outcome'[v] = "none"
                      /\ call'[v].kind = "run" /\ call'[v].at <= 10 => outcome'[v] # "ended"
                      /\ call'[v].kind = "debug" /\ call'[v].at <= 18 => outcome'[v] # "ended"
                      /\ v \in flagged' => call'[v].kind = "run" /\ outcome'[v] # "ended"
    BY DEF Reported
  <2>1. CASE v = c
    BY <1>1, <1>2, <1>3, <2>1 DEF Inv, Reported, Kinds, LaunchKinds, StopKinds
  <2>2. CASE v # c
    BY <1>1, <1>3, <2>2 DEF Inv, Reported, Calls
  <2> QED
    BY <2>1, <2>2
<1>8. ASSUME NEW v \in Launchers, Taken(v) PROVE Taken(v)'
  <2>1. v \in Calls /\ v # c
    BY <1>2, <1>8 DEF Calls, Taken, Inv, Reported
  <2> QED
    BY <1>1, <1>3, <1>8, <2>1 DEF Taken
<1>9. Victims'
  <2> SUFFICES ASSUME NEW d \in Calls, AtKill(d)'
               PROVE  \E v \in Launchers : call'[d].victim = v /\ Taken(v)'
    BY DEF Victims, Taken
  <2>1. d # c
    BY <1>2, <1>3 DEF AtKill, Busy
  <2>2. AtKill(d) /\ call'[d] = call[d]
    BY <1>3, <2>1 DEF AtKill, Busy
  <2> QED
    BY <1>8, <2>2 DEF Inv, Victims
<1>10. Marked'
  BY <1>1, <1>8 DEF Inv, Marked, Others
<1> QED
  BY <1>4, <1>5, <1>6, <1>7, <1>9, <1>10 DEF Inv

\* Nothing but the processes, the registry and the state of the application changes.
LEMMA StillStep ==
    ASSUME Inv, Others', UNCHANGED <<call, running, debug, outcome, flagged, stopped>>
    PROVE  Inv'
BY DEF Inv, Placed, Entered, Reported, Victims, Marked, Taken, AtKill, Busy

LEMMA ExitStep ==
    ASSUME Inv, NEW c \in Launchers, Exit(c) \/ ExitBuild(c) \/ KillOrphan(c)
    PROVE  Inv'
<1>1. /\ proc' \in [Launchers -> Running \cup {"none", "exited", "reaped"}]
      /\ compile' \in [Launchers -> Running \cup {"none", "exited", "reaped"}]
  BY SignalTyped DEF Exit, ExitBuild, KillOrphan, Inv, Others
<1>2. UNCHANGED <<call, running, builds, debug, live, flagged, outcome, up, downs,
                  picked, stopped, settled, raced>>
  BY DEF Exit, ExitBuild, KillOrphan, tables, store, history
<1>3. orphans' \subseteq Launchers /\ file' \subseteq Launchers
  <2>1. orphans' \in {orphans, orphans \ {c}}
    BY DEF Exit, ExitBuild, KillOrphan, store
  <2>2. OnDisk(live, orphans') \subseteq Launchers
    BY <2>1, OnDiskTyped DEF Inv, Others
  <2>3. file' \in {file, OnDisk(live, orphans')}
    BY DEF Exit, ExitBuild, KillOrphan, store
  <2> QED
    BY <2>1, <2>2, <2>3 DEF Inv, Others
<1>4. Others'
  BY <1>1, <1>2, <1>3 DEF Inv, Others
<1> QED
  BY <1>2, <1>4, StillStep

\* What was said of the launches is forgotten with the commands and the tables.
LEMMA GoDownStep == ASSUME Inv, NEW swept, GoDown(swept) PROVE Inv'
<1> DEFINE next(c) == IF c \in Stoppers /\ Busy(c) THEN Over
                      ELSE IF Busy(c) THEN [call[c] EXCEPT !.at = End(call[c].kind), !.victim = None]
                      ELSE call[c]
<1>1. call' = [c \in Calls |-> next(c)]
  BY DEF GoDown
<1>2. ASSUME NEW c \in Calls
      PROVE  /\ next(c) \in Move
             /\ next(c).kind \in Kinds => next(c).at \in 1 .. End(next(c).kind) /\ next(c).id \in Ids
             /\ next(c).kind \in Kinds => ~(next(c).at < End(next(c).kind))
             /\ c \in Launchers => next(c).kind = call[c].kind
             /\ c \notin Launchers => next(c).kind \notin LaunchKinds
  <2>1. call[c] \in Move /\ Over \in Move /\ Over.kind = "over"
    BY DEF Inv, Placed, Over, Idle, Move
  <2>2. CASE c \in Stoppers /\ Busy(c)
    BY <2>1, <2>2, NamesAssumption DEF Kinds, LaunchKinds, StopKinds
  <2>3. CASE ~(c \in Stoppers /\ Busy(c)) /\ Busy(c)
    <3> DEFINE e == End(call[c].kind)
               w == [call[c] EXCEPT !.at = e, !.victim = None]
    <3>1. call[c].kind \in Kinds /\ e \in {3, 5, 11, 22} /\ call[c].id \in Ids
      BY <2>3, Ends DEF Busy, Kinds, LaunchKinds, StopKinds, Inv, Placed
    <3> HIDE DEF e
    <3>2. /\ w \in Move /\ w.kind = call[c].kind /\ w.id = call[c].id /\ w.at = e
      <4>1. PICK o : o = call[c]
        OBVIOUS
      <4>2. o \in Move /\ e \in 0 .. 30
        BY <2>1, <3>1, <4>1
      <4>3. w = [o EXCEPT !.at = e, !.victim = None]
        BY <4>1
      <4> HIDE DEF w
      <4> QED
        BY <4>1, <4>2, <4>3 DEF Move
    <3>3. e \in 1 .. e /\ ~(e < e)
      BY <3>1
    <3>4. next(c) = w
      BY <2>3 DEF e
    <3>5. c \in Launchers
      BY <2>3 DEF Calls
    <3> HIDE DEF w, next
    <3> QED
      BY <3>1, <3>2, <3>3, <3>4, <3>5 DEF e
  <2>4. CASE ~Busy(c)
    BY <2>4, Ends DEF Busy, Inv, Placed
  <2> QED
    BY <2>2, <2>3, <2>4
<1> HIDE DEF next
<1>3. Placed'
  BY <1>1, <1>2 DEF Inv, Placed, Calls
<1>4. Others'
  <2>1. proc' \in [Launchers -> Running \cup {"none", "exited", "reaped"}]
    BY DEF GoDown, Inv, Others, Running
  <2>2. compile' \in [Launchers -> Running \cup {"none", "exited", "reaped"}]
    BY DEF GoDown
  <2>3. downs' \in 0 .. MaxDowns
    <3>1. downs < MaxDowns /\ downs' = downs + 1 /\ downs \in 0 .. MaxDowns
      BY DEF GoDown, Inv, Others
    <3> QED
      BY <3>1, DownsAssumption
  <2>4. {running', builds', debug', live'} \subseteq [Ids -> Launchers \cup {None}]
    BY DEF GoDown
  <2>5. outcome' \in [Launchers -> {"none", "ended", "cancelled", "failed"}]
    BY DEF GoDown
  <2> QED
    BY <2>1, <2>2, <2>3, <2>4, <2>5 DEF GoDown, Inv, Others
<1>5. \A c \in Calls : ~Busy(c)'
  BY <1>1, <1>2, Ends DEF Busy
<1>6. Entered' /\ Reported' /\ Marked'
  BY DEF GoDown, Entered, Reported, Marked
<1>7. Victims'
  BY <1>5 DEF Victims, AtKill
<1> QED
  BY <1>3, <1>4, <1>6, <1>7 DEF Inv

LEMMA RestartStep == ASSUME Inv, Restart PROVE Inv'
<1>1. Others'
  BY DEF Restart, Inv, Others, processes, tables, history
<1> QED
  BY <1>1, StillStep DEF Restart, tables, history

-----------------------------------------------------------------------------
(* The invariant                                                           *)

LEMMA InitInv == Init => Inv
<1> SUFFICES ASSUME Init PROVE Inv
  OBVIOUS
<1>1. \A c \in Calls : call[c] = Idle
  BY DEF Init
<1>2. Idle \in Move /\ Idle.kind = "none"
  BY DEF Idle, Move
<1>3. Placed
  BY <1>1, <1>2 DEF Init, Placed, Kinds, LaunchKinds, StopKinds
<1>4. Others
  <2>1. proc \in [Launchers -> Running \cup {"none", "exited", "reaped"}]
    BY DEF Init
  <2>2. compile \in [Launchers -> Running \cup {"none", "exited", "reaped"}]
    BY <2>1 DEF Init
  <2>3. {running, builds, debug, live} \subseteq [Ids -> Launchers \cup {None}]
    BY DEF Init
  <2> QED
    BY <2>1, <2>2, <2>3, DownsAssumption DEF Init, Others
<1>5. Entered /\ Reported /\ Marked
  BY <1>1, <1>2 DEF Init, Entered, Reported, Marked, Calls
<1>6. Victims
  BY <1>1, <1>2, Ends DEF Victims, AtKill, Busy, Kinds, LaunchKinds, StopKinds
<1> QED
  BY <1>3, <1>4, <1>5, <1>6 DEF Inv

LEMMA NextInv == Inv /\ [Next]_vars => Inv'
<1> SUFFICES ASSUME Inv, [Next]_vars PROVE Inv'
  OBVIOUS
<1>1. ASSUME NEW c \in Calls, Task(c) PROVE Inv'
  <2>1. CASE Find(c) \/ FindBuild(c) \/ Drop(c) \/ Kill(c)
    BY <2>1, FindStep, FindBuildStep, DropStep, KillStep
  <2>2. CASE KillBuild(c)
    BY <2>2, ProcessStep
  <2>3. CASE c \in Launchers /\ (Spawn(c) \/ SpawnBuild(c) \/ RemoveBuild(c))
    BY <2>3, SpawnStep, SpawnBuildStep, RemoveBuildStep
  <2>4. CASE c \in Launchers /\ (Insert(c) \/ Enter(c) \/ Remove(c) \/ Finish(c))
    BY <2>4, InsertStep, EnterStep, RemoveStep, FinishStep
  <2>5. CASE c \in Launchers /\ (Wait(c) \/ WaitBuild(c) \/ StopSelf(c) \/ Reap(c))
    BY <2>5, ProcessStep
  <2>6. CASE c \in Launchers /\ (InsertBuild(c) \/ Record(c) \/ Persist(c) \/ Unrecord(c))
    BY <2>6, RegistryStep
  <2> QED
    BY <1>1, <2>1, <2>2, <2>3, <2>4, <2>5, <2>6 DEF Task
<1>2. ASSUME NEW c \in Calls, NEW i \in Ids, NEW k, Start(c, k, i) PROVE Inv'
  BY <1>2, StartStep
<1>3. ASSUME NEW c \in Launchers, Talk(c) \/ Exit(c) \/ ExitBuild(c) \/ KillOrphan(c) PROVE Inv'
  BY <1>3, RegistryStep, ExitStep
<1>4. CASE Crash \/ Quit
  BY <1>4, GoDownStep DEF Crash, Quit
<1>5. CASE Restart
  BY <1>5, RestartStep
<1>6. CASE UNCHANGED vars
  <2>1. Others'
    BY <1>6 DEF vars, processes, tables, store, history, Inv, Others
  <2> QED
    BY <1>6, <2>1, StillStep DEF vars, tables, history
<1> QED
  BY <1>1, <1>2, <1>3, <1>4, <1>5, <1>6 DEF Next

LEMMA InvHolds == Spec => []Inv
BY InitInv, NextInv, PTL DEF Spec

\* Every variable keeps its type, whatever is launched, stopped or restarted in what
\* order: in particular no table of the supervisor, of the debug sessions or of the
\* registry ever holds anything but a launch (process/mod.rs, state.rs, running/store.rs).
THEOREM LaunchesTypeCorrect == Spec => []TypeOK
<1>1. Inv => TypeOK
  BY DEF Inv, Placed, Move, Kinds, Others, TypeOK
<1> QED
  BY <1>1, InvHolds, PTL

\* A launch whose process another command killed never reports that it ended by
\* itself, for any number of launches and stops of a configuration and across crashes:
\* the mark, or the absence from the map, is there before the signal and stays until
\* the launch reports (process/mod.rs 334-346, state.rs 284-289).
THEOREM StoppedLaunchesSaySo == Spec => []StopsAreReportedAsStops
<1>1. Inv => StopsAreReportedAsStops
  BY DEF Inv, Marked, Taken, StopsAreReportedAsStops
<1> QED
  BY <1>1, InvHolds, PTL

-----------------------------------------------------------------------------
(* The steps of a launch, place by place                                   *)

RunPlace(s, n) ==
    /\ s = "drop" <=> n = 1
    /\ s = "kill" <=> n \in {2, 4}
    /\ s = "find" <=> n = 3
    /\ s = "spawn" <=> n = 5
    /\ s = "insert" <=> n = 6
    /\ s = "record" <=> n = 7
    /\ s = "persist" <=> n = 8
    /\ s = "wait" <=> n = 9
    /\ s = "remove" <=> n = 10

DebugPlace(s, n) ==
    /\ s = "find" <=> n = 1
    /\ s = "kill" <=> n \in {2, 4, 13}
    /\ s = "drop" <=> n \in {3, 12}
    /\ s = "findBuild" <=> n = 5
    /\ s = "spawn" <=> n = 11
    /\ s = "enter" <=> n = 14
    /\ s = "record" <=> n = 15
    /\ s = "persist" <=> n = 16
    /\ s = "talk" <=> n = 17
    /\ s = "finish" <=> n = 18
    /\ s = "stop" <=> n = 19
    /\ s = "reap" <=> n = 20
    /\ s = "unrecord" <=> n = 21
    /\ s \in {"spawnBuild", "removeBuild"} => n \in {7, 10}

LEMMA Places ==
    /\ \A n \in 1 .. 10 : RunPlace(Program["run"][n], n)
    /\ \A n \in 1 .. 21 : DebugPlace(Program["debug"][n], n)
BY SMTT(90) DEF Program, RunPlace, DebugPlace

\* A launch at a step is at one of its places.
LEMMA LaunchAt ==
    ASSUME Inv, NEW c \in Launchers, NEW s, Step(c, s)
    PROVE  /\ c \in Calls /\ call[c].id \in Ids /\ call[c].at \in Nat
           /\ \/ call[c].kind = "run" /\ call[c].at \in 1 .. 10 /\ RunPlace(s, call[c].at)
              \/ call[c].kind = "debug" /\ call[c].at \in 1 .. 21 /\ DebugPlace(s, call[c].at)
<1>1. c \in Calls
  BY DEF Calls
<1>2. /\ call[c].id \in Ids /\ call[c].at \in 1 .. End(call[c].kind) - 1
      /\ Program[call[c].kind][call[c].at] = s /\ call[c].kind \in Kinds
  BY <1>1, StepAt
<1>3. call[c].kind \in LaunchKinds
  BY <1>1, <1>2 DEF Inv, Placed, Kinds, LaunchKinds, StopKinds
<1>4. CASE call[c].kind = "run"
  BY <1>1, <1>2, <1>4, Places, Ends
<1>5. CASE call[c].kind = "debug"
  BY <1>1, <1>2, <1>5, Places, Ends
<1> QED
  BY <1>3, <1>4, <1>5 DEF LaunchKinds

-----------------------------------------------------------------------------
(* One generation of a configuration                                       *)

Alive(c) == proc[c] = "alive"
Is(c, k, places) == call[c].kind = k /\ call[c].at \in places

\* A launch that is in the table of its kind, or was until somebody picked it.
InRun(c) == Is(c, "run", 7 .. 10)
InDebug(c) == Is(c, "debug", 15 .. 18)

\* A launch whose record is still to be written to the file; it races with another.
Young(c) == Is(c, "run", 1 .. 8) \/ Is(c, "debug", 1 .. 16)
PastFind(c) == Is(c, "run", 4 .. 8) \/ Is(c, "debug", 2 .. 16)
PastDrop(c) == Is(c, "run", 2 .. 8) \/ Is(c, "debug", 4 .. 16)

Rivals(c, d) == c # d /\ call[c].id = call[d].id /\ call[c].id \notin raced

\* No command is under way while the application is down.
Downed == ~up => \A c \in Calls : ~Busy(c)

\* A launch has no process before it spawns one, and a run none that lives once it is reaped.
Spawned ==
    \A c \in Launchers :
        /\ call[c].kind = "none" \/ Is(c, "run", 1 .. 5) \/ Is(c, "debug", 1 .. 11) => proc[c] = "none"
        /\ Is(c, "run", {10}) => ~Alive(c)

\* Only what has been in a table is picked.
Picked == \A v \in picked : Is(v, "run", 7 .. 11) \/ Is(v, "debug", 15 .. 22)

\* Whoever set out to kill a launch is about to, or has.
Hunted ==
    \A v \in picked :
        Busy(v) /\ Alive(v) =>
            \/ Is(v, "debug", {19})
            \/ \E d \in Calls : AtKill(d) /\ call[d].victim = v

\* An adapter that has finished is about to kill itself.
Finished == \A c \in Launchers : Is(c, "debug", 19 .. 21) => c \in picked

\* A launch that nobody picked is in the table of its kind.
Registered ==
    \A c \in Launchers :
        call[c].id \notin raced /\ c \notin picked =>
            /\ InRun(c) => running[call[c].id] = c
            /\ InDebug(c) => debug[call[c].id] = c

\* Of launches that do not race only one is young, and once it has looked into a table it
\* has picked what it found there.
Alone == \A c, d \in Launchers : Rivals(c, d) => ~(Young(c) /\ Young(d))
Cleared ==
    \A c, d \in Launchers : Rivals(c, d) =>
        /\ PastFind(c) /\ InRun(d) => d \in picked
        /\ PastDrop(c) /\ InDebug(d) => d \in picked

\* Between its two looks for an adapter there is none.
Vacant ==
    \A c \in Launchers :
        call[c].id \notin raced /\ Is(c, "debug", 4 .. 14) => debug[call[c].id] = None /\ call[c].at # 13

\* Of two launches in the tables one was picked.
Succeeded ==
    \A c, d \in Launchers : Rivals(c, d) =>
        ~((InRun(c) \/ InDebug(c)) /\ (InRun(d) \/ InDebug(d)) /\ {c, d} \cap picked = {})

Generations ==
    /\ Downed /\ Spawned /\ Picked /\ Hunted /\ Finished
    /\ Registered /\ Alone /\ Cleared /\ Vacant /\ Succeeded


-----------------------------------------------------------------------------
(* What a step of a command means for the launches                         *)

\* Where a step of a launch leads.
Leads(c, n) ==
    LET p == call[c].at IN
    /\ call'[c].kind = call[c].kind /\ call'[c].id = call[c].id /\ call'[c].at = n
    /\ \/ /\ call[c].kind = "run" /\ p \in 1 .. 10
          /\ n = p + 1 \/ (p \in {1, 3} /\ n = p + 2) \/ (p = 5 /\ n = 11)
       \/ /\ call[c].kind = "debug" /\ p \in 1 .. 21
          /\ \/ n = p + 1 \/ (p \in {1, 3, 5, 12} /\ n = p + 2) \/ (p = 5 /\ n = 11)
             \/ p \in {7, 10, 11} /\ n = 22
          /\ p = 12 /\ debug[call[c].id] = None => n = 14

Path(c, n) ==
    /\ Busy(c) /\ call[c].id \in Ids /\ up /\ up' /\ raced' = raced
    /\ \A d \in Calls : d # c => call'[d] = call[d]
    /\ c \in Launchers => Leads(c, n)

\* What it does to the tables, and whom it picks.
Looks(c) ==
    LET i == call[c].id IN
    /\ Is(c, "run", {3}) \/ Is(c, "debug", {1}) => running[i] \in picked' \cup {None}
    /\ Is(c, "run", {1}) \/ Is(c, "debug", {3}) => /\ debug[i] \in picked' \cup {None}
                                                   /\ debug'[i] = None
Picks(c) ==
    /\ picked \subseteq picked'
    /\ \A v \in picked' \ picked :
          \/ /\ \E i \in Ids : v = running[i] \/ v = debug[i]
             /\ AtKill(c)' /\ call'[c].victim = v
          \/ v = c /\ Is(c, "debug", {18})
    /\ c \in Launchers /\ Is(c, "debug", {18}) => c \in picked'
Enters(c) ==
    \A i \in Ids :
        /\ \/ running'[i] = running[i]
           \/ running[i] = c /\ Is(c, "run", {10})
           \/ running'[i] = c /\ Is(c, "run", {6}) /\ i = call[c].id
        /\ \/ debug'[i] = debug[i]
           \/ debug'[i] = None /\ debug[i] \in picked'
           \/ debug'[i] = c /\ Is(c, "debug", {14}) /\ i = call[c].id
        /\ c \in Launchers /\ i = call[c].id => /\ Is(c, "run", {6}) => running'[i] = c
                                                /\ Is(c, "debug", {14}) => debug'[i] = c

\* What it does to the processes.
Spawns(c) == c \in Launchers /\ (Is(c, "run", {5}) \/ Is(c, "debug", {11}))
Lives(c) ==
    /\ \A v \in Launchers : Alive(v)' => Alive(v) \/ (v = c /\ Spawns(c))
    /\ \A v \in Launchers : proc[v] = "none" => proc'[v] = "none" \/ (v = c /\ Spawns(c))
    /\ AtKill(c) => proc'[call[c].victim] # "alive"
    /\ c \in Launchers /\ (Is(c, "run", {9}) \/ Is(c, "debug", {19})) => ~Alive(c)'

Course(c, n) == Path(c, n) /\ Looks(c) /\ Picks(c) /\ Enters(c) /\ Lives(c)

LEMMA IsPlace ==
    ASSUME Inv, NEW c \in Launchers
    PROVE  c \in Calls /\ call[c] \in Move /\ call[c].at \in Nat
           /\ (call[c].kind = "none" \/ (call[c].kind = "run" /\ call[c].at \in 1 .. 11)
                                     \/ (call[c].kind = "debug" /\ call[c].at \in 1 .. 22))
<1>1. c \in Calls
  BY DEF Calls
<1> QED
  BY <1>1, Ends DEF Inv, Placed, Move, Kinds, LaunchKinds

\* How a launch's places change.
LEMMA Advance ==
    ASSUME Inv, NEW c \in Calls, NEW n, Path(c, n), NEW v \in Launchers
    PROVE  /\ call'[v].kind = call[v].kind /\ call'[v].id = call[v].id
           /\ v # c => call'[v] = call[v]
           /\ v = c => Leads(v, n)
           /\ Young(v)' => Young(v)
           /\ PastFind(v)' => PastFind(v) \/ (v = c /\ (Is(v, "run", {3}) \/ Is(v, "debug", {1})))
           /\ PastDrop(v)' => PastDrop(v) \/ (v = c /\ (Is(v, "run", {1}) \/ Is(v, "debug", {3})))
           /\ InRun(v)' => InRun(v) \/ (v = c /\ Is(v, "run", {6}))
           /\ InDebug(v)' => InDebug(v) \/ (v = c /\ Is(v, "debug", {14}))
<1>1. v \in Calls /\ call[v].at \in Nat
  BY IsPlace
<1>2. CASE v # c
  <2>1. call'[v] = call[v]
    BY <1>1, <1>2 DEF Path
  <2> QED
    BY <1>2, <2>1 DEF Young, PastFind, PastDrop, InRun, InDebug, Is
<1>3. CASE v = c
  <2>1. Leads(v, n)
    BY <1>3 DEF Path
  <2>2. PICK p \in Nat : p = call[v].at
    BY <1>1
  <2>3. CASE call[v].kind = "run"
    BY <1>3, <2>1, <2>2, <2>3 DEF Leads, Young, PastFind, PastDrop, InRun, InDebug, Is
  <2>4. CASE call[v].kind = "debug"
    BY <1>3, <2>1, <2>2, <2>4 DEF Leads, Young, PastFind, PastDrop, InRun, InDebug, Is
  <2> QED
    BY <2>1, <2>3, <2>4 DEF Leads
<1> QED
  BY <1>2, <1>3

-----------------------------------------------------------------------------
(* A step of a command keeps one generation                                *)

LEMMA SpawnedStep ==
    ASSUME Inv, Generations, NEW c \in Calls, NEW n, Course(c, n)
    PROVE  Spawned'
<1> SUFFICES ASSUME NEW v \in Launchers
             PROVE  /\ (call[v].kind = "none" \/ Is(v, "run", 1 .. 5) \/ Is(v, "debug", 1 .. 11))'
                          => proc'[v] = "none"
                    /\ Is(v, "run", {10})' => ~Alive(v)'
    BY DEF Spawned
<1>1. CASE v # c
  <2>1. call'[v] = call[v]
    BY <1>1, Advance DEF Course
  <2> QED
    BY <1>1, <2>1 DEF Generations, Spawned, Is, Course, Lives, Alive
<1>2. CASE v = c
  <2>1. Leads(v, n)
    BY <1>2, Advance DEF Course
  <2>2. PICK p \in Nat : p = call[v].at
    BY IsPlace
  <2>3. CASE call[v].kind = "run"
    <3>1. Is(v, "run", {10})' => ~Alive(v)'
      BY <1>2, <2>1, <2>2, <2>3 DEF Leads, Is, Course, Lives
    <3>2. n <= 5 => proc'[v] = "none"
      BY <1>2, <2>1, <2>2, <2>3 DEF Leads, Is, Generations, Spawned, Course, Lives, Spawns
    <3> QED
      BY <2>1, <2>2, <2>3, <3>1, <3>2 DEF Leads, Is
  <2>4. CASE call[v].kind = "debug"
    <3>1. n <= 11 => proc'[v] = "none"
      BY <1>2, <2>1, <2>2, <2>4 DEF Leads, Is, Generations, Spawned, Course, Lives, Spawns
    <3> QED
      BY <2>1, <2>2, <2>4, <3>1 DEF Leads, Is
  <2> QED
    BY <2>1, <2>3, <2>4 DEF Leads
<1> QED
  BY <1>1, <1>2

LEMMA PickedStep ==
    ASSUME Inv, Inv', Generations, NEW c \in Calls, NEW n, Course(c, n)
    PROVE  Picked'
<1> SUFFICES ASSUME NEW v \in picked'
             PROVE  Is(v, "run", 7 .. 11)' \/ Is(v, "debug", 15 .. 22)'
    BY DEF Picked
<1>1. v \in Launchers
  BY DEF Inv, Others
<1>2. Is(v, "run", 7 .. 11) \/ Is(v, "debug", 15 .. 22)
  <2>1. CASE v \in picked
    BY <2>1 DEF Generations, Picked
  <2>2. CASE \E i \in Ids : v = running[i] \/ v = debug[i]
    BY <1>1, <2>2, NamesAssumption DEF Inv, Entered, Is
  <2>3. CASE v = c /\ Is(c, "debug", {18})
    BY <2>3 DEF Is
  <2> QED
    BY <2>1, <2>2, <2>3 DEF Course, Picks
<1>3. CASE v # c
  <2>1. call'[v] = call[v]
    BY <1>1, <1>3, Advance DEF Course
  <2> QED
    BY <1>2, <2>1 DEF Is
<1>4. CASE v = c
  <2>1. Leads(v, n)
    BY <1>1, <1>4, Advance DEF Course
  <2>2. PICK p \in Nat : p = call[v].at
    BY <1>1, IsPlace
  <2> QED
    BY <1>2, <2>1, <2>2 DEF Is, Leads
<1> QED
  BY <1>3, <1>4

LEMMA HuntedStep ==
    ASSUME Inv, Inv', Generations, NEW c \in Calls, NEW n, Course(c, n)
    PROVE  Hunted'
<1> SUFFICES ASSUME NEW v \in picked', Busy(v)', Alive(v)'
             PROVE  Is(v, "debug", {19})' \/ \E d \in Calls : AtKill(d)' /\ call'[d].victim = v
    BY DEF Hunted
<1>1. v \in Launchers /\ v \in Calls
  BY DEF Inv, Others, Calls
<1>2. CASE v \in picked
  <2>1. Alive(v)
    <3>1. Is(v, "run", 7 .. 11) \/ Is(v, "debug", 15 .. 22)
      BY <1>2 DEF Generations, Picked
    <3>2. ~(v = c /\ Spawns(c))
      BY <3>1 DEF Spawns, Is
    <3> QED
      BY <1>1, <3>2 DEF Course, Lives
  <2>2. Busy(v)
    <3>1. v # c => call'[v] = call[v]
      BY <1>1 DEF Course, Path
    <3> QED
      BY <3>1 DEF Course, Path, Busy
  <2>3. CASE Is(v, "debug", {19})
    <3>1. v # c
      BY <1>1, <2>3 DEF Course, Lives
    <3>2. call'[v] = call[v]
      BY <1>1, <3>1 DEF Course, Path
    <3> QED
      BY <2>3, <3>2 DEF Is
  <2>4. CASE \E d \in Calls : AtKill(d) /\ call[d].victim = v
    <3>1. PICK d \in Calls : AtKill(d) /\ call[d].victim = v
      BY <2>4
    <3>2. d # c
      BY <3>1 DEF Course, Lives, Alive
    <3>3. call'[d] = call[d]
      BY <3>2 DEF Course, Path
    <3> QED
      BY <3>1, <3>3 DEF AtKill, Busy
  <2> QED
    BY <1>2, <2>1, <2>2, <2>3, <2>4 DEF Generations, Hunted
<1>3. CASE v \notin picked
  <2>1. CASE AtKill(c)' /\ call'[c].victim = v
    BY <2>1
  <2>2. CASE v = c /\ Is(c, "debug", {18})
    <3>1. Leads(v, n) /\ call[v].kind = "debug" /\ call[v].at = 18
      BY <1>1, <2>2, Advance DEF Course, Is
    <3>2. call'[v].kind = "debug" /\ call'[v].at = 19
      BY <3>1 DEF Leads
    <3> QED
      BY <3>2 DEF Is
  <2> QED
    BY <1>3, <2>1, <2>2 DEF Course, Picks
<1> QED
  BY <1>2, <1>3

LEMMA FinishedStep ==
    ASSUME Inv, Generations, NEW c \in Calls, NEW n, Course(c, n)
    PROVE  Finished'
<1> SUFFICES ASSUME NEW v \in Launchers, Is(v, "debug", 19 .. 21)' PROVE v \in picked'
    BY DEF Finished
<1>1. CASE v # c
  <2>1. call'[v] = call[v]
    BY <1>1, Advance DEF Course
  <2> QED
    BY <2>1 DEF Generations, Finished, Is, Course, Picks
<1>2. CASE v = c
  <2>1. Leads(v, n)
    BY <1>2, Advance DEF Course
  <2>2. PICK p \in Nat : p = call[v].at
    BY IsPlace
  <2>3. Is(v, "debug", 18 .. 21)
    BY <2>1, <2>2 DEF Leads, Is
  <2>4. CASE call[v].at = 18
    BY <1>2, <2>3, <2>4 DEF Is, Course, Picks
  <2>5. CASE call[v].at # 18
    BY <2>2, <2>3, <2>5 DEF Is, Generations, Finished, Course, Picks
  <2> QED
    BY <2>4, <2>5
<1> QED
  BY <1>1, <1>2

\* Who rivals afterwards did so before.
LEMMA SameRivals ==
    ASSUME Inv, NEW c \in Calls, NEW n, Course(c, n), NEW v \in Launchers, NEW w \in Launchers
    PROVE  Rivals(v, w)' => Rivals(v, w)
<1>1. call'[v].id = call[v].id /\ call'[w].id = call[w].id
  BY Advance DEF Course
<1> QED
  BY <1>1 DEF Rivals, Course, Path

LEMMA AloneStep ==
    ASSUME Inv, Generations, NEW c \in Calls, NEW n, Course(c, n)
    PROVE  Alone'
<1>1. \A v \in Launchers : Young(v)' => Young(v)
  BY Advance DEF Course
<1> QED
  BY <1>1, SameRivals DEF Generations, Alone

LEMMA RegisteredStep ==
    ASSUME Inv, Inv', Generations, NEW c \in Calls, NEW n, Course(c, n)
    PROVE  Registered'
<1> SUFFICES ASSUME NEW v \in Launchers, call'[v].id \notin raced', v \notin picked'
             PROVE  /\ InRun(v)' => running'[call'[v].id] = v
                    /\ InDebug(v)' => debug'[call'[v].id] = v
    BY DEF Registered
<1>1. /\ call'[v].id = call[v].id /\ call[v].id \notin raced /\ v \notin picked /\ v # None
      /\ v \in Calls
  BY Advance, NamesAssumption, IsPlace DEF Course, Path, Picks
<1>2. ASSUME InRun(v)' PROVE running'[call[v].id] = v
  <2>1. call[v].id \in Ids
    BY <1>1, <1>2 DEF Inv, Placed, InRun, Is, Kinds, LaunchKinds
  <2>2. CASE v = c /\ Is(c, "run", {6})
    BY <2>1, <2>2 DEF Course, Enters
  <2>3. CASE InRun(v)
    <3>1. running[call[v].id] = v
      BY <1>1, <2>3 DEF Generations, Registered
    <3>2. CASE running'[call[v].id] = running[call[v].id]
      BY <3>1, <3>2
    <3>3. CASE running[call[v].id] = c /\ Is(c, "run", {10})
      <4>1. v = c /\ call[v].at = 10 /\ call[v].kind = "run"
        BY <3>1, <3>3 DEF Is
      <4>2. call'[v].at = 11
        BY <4>1, Advance DEF Course, Leads
      <4> QED
        BY <1>2, <4>2 DEF InRun, Is
    <3>4. CASE running'[call[v].id] = c /\ Is(c, "run", {6}) /\ call[v].id = call[c].id
      <4>1. CASE v = c
        BY <3>4, <4>1
      <4>2. CASE v # c
        <5>1. c \in Launchers
          BY <3>4 DEF Is, Inv, Placed, LaunchKinds
        <5>2. Rivals(c, v) /\ PastFind(c)
          BY <1>1, <3>4, <4>2 DEF Rivals, PastFind, Is
        <5> QED
          BY <1>1, <2>3, <5>1, <5>2 DEF Generations, Cleared
      <4> QED
        BY <4>1, <4>2
    <3> QED
      BY <2>1, <3>2, <3>3, <3>4 DEF Course, Enters
  <2> QED
    BY <1>2, <2>2, <2>3, Advance DEF Course
<1>3. ASSUME InDebug(v)' PROVE debug'[call[v].id] = v
  <2>1. call[v].id \in Ids
    BY <1>1, <1>3 DEF Inv, Placed, InDebug, Is, Kinds, LaunchKinds
  <2>2. CASE v = c /\ Is(c, "debug", {14})
    BY <2>1, <2>2 DEF Course, Enters
  <2>3. CASE InDebug(v)
    <3>1. debug[call[v].id] = v
      BY <1>1, <2>3 DEF Generations, Registered
    <3>2. CASE debug'[call[v].id] = debug[call[v].id]
      BY <3>1, <3>2
    <3>3. CASE debug[call[v].id] \in picked'
      BY <3>1, <3>3
    <3>4. CASE debug'[call[v].id] = c /\ Is(c, "debug", {14}) /\ call[v].id = call[c].id
      <4>1. CASE v = c
        BY <3>4, <4>1
      <4>2. CASE v # c
        <5>1. c \in Launchers
          BY <3>4 DEF Is, Inv, Placed, LaunchKinds
        <5>2. Rivals(c, v) /\ PastDrop(c)
          BY <1>1, <3>4, <4>2 DEF Rivals, PastDrop, Is
        <5> QED
          BY <1>1, <2>3, <5>1, <5>2 DEF Generations, Cleared
      <4> QED
        BY <4>1, <4>2
    <3> QED
      BY <2>1, <3>2, <3>3, <3>4 DEF Course, Enters
  <2> QED
    BY <1>3, <2>2, <2>3, Advance DEF Course
<1> QED
  BY <1>1, <1>2, <1>3

LEMMA ClearedStep ==
    ASSUME Inv, Generations, NEW c \in Calls, NEW n, Course(c, n)
    PROVE  Cleared'
<1> SUFFICES ASSUME NEW v \in Launchers, NEW w \in Launchers, Rivals(v, w)', w \notin picked'
             PROVE  ~(PastFind(v)' /\ InRun(w)') /\ ~(PastDrop(v)' /\ InDebug(w)')
    BY DEF Cleared
<1>1. /\ Rivals(v, w) /\ w \notin picked /\ v # w /\ w # None
      /\ call[v].id = call[w].id /\ call[w].id \notin raced
  BY SameRivals, NamesAssumption DEF Rivals, Course, Picks
<1>2. ~(Young(v) /\ Young(w))
  BY <1>1 DEF Generations, Alone
<1>3. ASSUME PastFind(v)', InRun(w)' PROVE FALSE
  <2>1. PastFind(v) \/ (v = c /\ (Is(v, "run", {3}) \/ Is(v, "debug", {1})))
    BY <1>3, Advance DEF Course
  <2>2. Young(v)
    BY <2>1 DEF PastFind, Young, Is
  <2>3. InRun(w)
    <3>1. ~(w = c /\ Is(w, "run", {6}))
      BY <1>2, <2>2 DEF Young, Is
    <3> QED
      BY <1>3, <3>1, Advance DEF Course
  <2>4. CASE PastFind(v)
    BY <1>1, <2>3, <2>4 DEF Generations, Cleared
  <2>5. CASE v = c /\ (Is(v, "run", {3}) \/ Is(v, "debug", {1}))
    <3>1. running[call[v].id] = w
      BY <1>1, <2>3 DEF Generations, Registered
    <3>2. running[call[v].id] \in picked' \cup {None}
      BY <2>5 DEF Course, Looks
    <3> QED
      BY <1>1, <3>1, <3>2
  <2> QED
    BY <2>1, <2>4, <2>5
<1>4. ASSUME PastDrop(v)', InDebug(w)' PROVE FALSE
  <2>1. PastDrop(v) \/ (v = c /\ (Is(v, "run", {1}) \/ Is(v, "debug", {3})))
    BY <1>4, Advance DEF Course
  <2>2. Young(v)
    BY <2>1 DEF PastDrop, Young, Is
  <2>3. InDebug(w)
    <3>1. ~(w = c /\ Is(w, "debug", {14}))
      BY <1>2, <2>2 DEF Young, Is
    <3> QED
      BY <1>4, <3>1, Advance DEF Course
  <2>4. CASE PastDrop(v)
    BY <1>1, <2>3, <2>4 DEF Generations, Cleared
  <2>5. CASE v = c /\ (Is(v, "run", {1}) \/ Is(v, "debug", {3}))
    <3>1. debug[call[v].id] = w
      BY <1>1, <2>3 DEF Generations, Registered
    <3>2. debug[call[v].id] \in picked' \cup {None}
      BY <2>5 DEF Course, Looks
    <3> QED
      BY <1>1, <3>1, <3>2
  <2> QED
    BY <2>1, <2>4, <2>5
<1> QED
  BY <1>3, <1>4

LEMMA VacantStep ==
    ASSUME Inv, Generations, NEW c \in Calls, NEW n, Course(c, n)
    PROVE  Vacant'
<1> SUFFICES ASSUME NEW v \in Launchers, call'[v].id \notin raced', Is(v, "debug", 4 .. 14)'
             PROVE  debug'[call'[v].id] = None /\ call'[v].at # 13
    BY DEF Vacant
<1>1. /\ call'[v].id = call[v].id /\ call[v].id \notin raced /\ v \in Calls /\ call[v].id \in Ids
      /\ call'[v].kind = call[v].kind
  <2>1. call[v].kind = "debug"
    BY Advance DEF Course, Is
  <2> QED
    BY <2>1, Advance, IsPlace DEF Course, Path, Inv, Placed, Kinds, LaunchKinds
<1>2. CASE v = c
  <2>1. Leads(v, n)
    BY <1>2, Advance DEF Course
  <2>2. PICK p \in Nat : p = call[v].at
    BY IsPlace
  <2>3. CASE p = 3
    <3>1. debug'[call[v].id] = None
      BY <1>1, <1>2, <2>1, <2>2, <2>3 DEF Course, Looks, Is
    <3> QED
      BY <1>1, <2>1, <2>2, <2>3, <3>1 DEF Leads, Is
  <2>4. CASE p # 3
    <3>1. Is(v, "debug", 4 .. 13)
      BY <1>1, <2>1, <2>2, <2>4 DEF Leads, Is
    <3>2. debug[call[v].id] = None /\ call[v].at # 13
      BY <1>1, <3>1 DEF Generations, Vacant, Is
    <3>3. call'[v].at # 13
      BY <2>1, <2>2, <3>1, <3>2 DEF Leads, Is
    <3>4. debug'[call[v].id] = None
      BY <1>1, <1>2, <3>1, <3>2 DEF Course, Enters, Is
    <3> QED
      BY <1>1, <3>3, <3>4
  <2> QED
    BY <2>3, <2>4
<1>3. CASE v # c
  <2>1. call'[v] = call[v]
    BY <1>1, <1>3 DEF Course, Path
  <2>2. debug[call[v].id] = None /\ call[v].at # 13
    BY <1>1, <2>1 DEF Generations, Vacant, Is
  <2>3. ~(Is(c, "debug", {14}) /\ call[v].id = call[c].id)
    <3> SUFFICES ASSUME Is(c, "debug", {14}), call[v].id = call[c].id PROVE FALSE
        OBVIOUS
    <3>1. c \in Launchers
      BY DEF Is, Inv, Placed, LaunchKinds
    <3>2. Rivals(c, v) /\ Young(c) /\ Young(v)
      BY <1>1, <1>3, <2>1 DEF Rivals, Young, Is
    <3> QED
      BY <3>1, <3>2 DEF Generations, Alone
  <2>4. debug'[call[v].id] = None
    BY <1>1, <2>2, <2>3 DEF Course, Enters
  <2> QED
    BY <1>1, <2>1, <2>2, <2>4
<1> QED
  BY <1>2, <1>3

LEMMA SucceededStep ==
    ASSUME Inv, Generations, NEW c \in Calls, NEW n, Course(c, n)
    PROVE  Succeeded'
<1> SUFFICES ASSUME NEW v \in Launchers, NEW w \in Launchers, Rivals(v, w)',
                    InRun(v)' \/ InDebug(v)', InRun(w)' \/ InDebug(w)',
                    v \notin picked', w \notin picked'
             PROVE  FALSE
    BY DEF Succeeded
<1>1. Rivals(v, w) /\ Rivals(w, v) /\ v # w /\ v \notin picked /\ w \notin picked
  BY SameRivals DEF Rivals, Course, Picks
<1>2. ASSUME NEW x \in Launchers, NEW y \in Launchers, Rivals(x, y), y \notin picked,
             Is(x, "run", {6}) \/ Is(x, "debug", {14}), InRun(y) \/ InDebug(y)
      PROVE  FALSE
  <2>1. PastFind(x) /\ PastDrop(x)
    BY <1>2 DEF PastFind, PastDrop, Is
  <2> QED
    BY <1>2, <2>1 DEF Generations, Cleared
<1>3. ASSUME NEW x \in Launchers, InRun(x)' \/ InDebug(x)'
      PROVE  InRun(x) \/ InDebug(x) \/ (x = c /\ (Is(x, "run", {6}) \/ Is(x, "debug", {14})))
  BY <1>3, Advance DEF Course
<1>4. CASE (InRun(v) \/ InDebug(v)) /\ (InRun(w) \/ InDebug(w))
  BY <1>1, <1>4 DEF Generations, Succeeded
<1>5. CASE ~(InRun(v) \/ InDebug(v))
  <2>1. v = c /\ (Is(v, "run", {6}) \/ Is(v, "debug", {14}))
    BY <1>3, <1>5
  <2>2. InRun(w) \/ InDebug(w)
    BY <1>1, <1>3, <2>1
  <2> QED
    BY <1>1, <1>2, <2>1, <2>2
<1>6. CASE ~(InRun(w) \/ InDebug(w))
  <2>1. w = c /\ (Is(w, "run", {6}) \/ Is(w, "debug", {14}))
    BY <1>3, <1>6
  <2>2. InRun(v) \/ InDebug(v)
    BY <1>1, <1>3, <2>1
  <2> QED
    BY <1>1, <1>2, <2>1, <2>2
<1> QED
  BY <1>4, <1>5, <1>6

LEMMA CourseStep ==
    ASSUME Inv, Inv', Generations, NEW c \in Calls, NEW n, Course(c, n)
    PROVE  Generations'
<1>1. Downed'
  BY DEF Course, Path, Downed
<1> QED
  BY <1>1, SpawnedStep, PickedStep, HuntedStep, FinishedStep, RegisteredStep, AloneStep,
     ClearedStep, VacantStep, SucceededStep DEF Generations

-----------------------------------------------------------------------------
(* The actions, seen from the launches                                     *)

\* The places a step may lead to.
Next1(c, s, n) ==
    \/ n = call[c].at + 1
    \/ s \in {"find", "drop", "findBuild"} /\ n = call[c].at + 2
    \/ s = "findBuild" /\ c \in Launchers /\ n = call[c].at + 6
    \/ s \in {"spawn", "spawnBuild", "removeBuild"} /\ n = End(call[c].kind)
    \/ c \notin Launchers /\ n = End(call[c].kind)

LEMMA PathTo ==
    ASSUME Inv, NEW c \in Calls, NEW s, Step(c, s), NEW n, Next1(c, s, n),
           s = "drop" /\ debug[call[c].id] = None => n = call[c].at + 2,
           NEW x \in Launchers \cup {None}, GoTo(c, n, x), UNCHANGED <<raced, up>>
    PROVE  Path(c, n) /\ Moved(c, n, x) /\ n \in call[c].at + 1 .. End(call[c].kind)
<1>1. /\ Busy(c) /\ call[c].kind \in Kinds /\ call[c].id \in Ids
      /\ End(call[c].kind) \in {3, 5, 11, 22} /\ call[c].at \in 1 .. End(call[c].kind) - 1
      /\ Program[call[c].kind][call[c].at] = s
      /\ Followed(call[c].kind, call[c].at)
  BY StepAt
<1>2. n \in call[c].at + 1 .. End(call[c].kind)
  <2>1. CASE n = call[c].at + 1
    BY <1>1, <2>1
  <2>2. CASE n = End(call[c].kind)
    BY <1>1, <2>2
  <2>3. CASE s \in {"find", "drop", "findBuild"} /\ n = call[c].at + 2
    <3>1. n \in 1 .. End(call[c].kind)
      BY <1>1, <2>3 DEF Followed, NotKill
    <3> QED
      BY <1>1, <2>3, <3>1
  <2>4. CASE s = "findBuild" /\ c \in Launchers /\ n = call[c].at + 6
    BY <1>1, <2>4, LaunchAt, Ends DEF RunPlace, DebugPlace
  <2> QED
    BY <2>1, <2>2, <2>3, <2>4 DEF Next1
<1>3. Moved(c, n, x)
  BY <1>1, <1>2, Movement DEF Inv
<1>4. c \in Launchers => Leads(c, n)
  <2> SUFFICES ASSUME c \in Launchers PROVE Leads(c, n)
      OBVIOUS
  <2>1. call'[c].kind = call[c].kind /\ call'[c].id = call[c].id /\ call'[c].at = n
    BY <1>3 DEF Moved
  <2>2. PICK p \in Nat : p = call[c].at
    BY <1>1
  <2>3. CASE call[c].kind = "run"
    <3>1. p \in 1 .. 10 /\ RunPlace(s, p)
      BY <2>2, <2>3, LaunchAt
    <3>2. /\ s \in {"find", "drop"} => p \in {1, 3}
          /\ s # "findBuild" /\ s # "spawnBuild" /\ s # "removeBuild"
      <4>1. s = Program["run"][p]
        BY <1>1, <2>2, <2>3
      <4> QED
        BY <3>1, <4>1, SMTT(30) DEF Program, RunPlace
    <3>3. s = "spawn" => p = 5
      BY <3>1 DEF RunPlace
    <3>4. n = p + 1 \/ (p \in {1, 3} /\ n = p + 2) \/ (p = 5 /\ n = 11)
      BY <2>2, <2>3, <3>2, <3>3, Ends DEF Next1
    <3> QED
      BY <2>1, <2>2, <2>3, <3>1, <3>4 DEF Leads
  <2>4. CASE call[c].kind = "debug"
    <3>1. p \in 1 .. 21 /\ DebugPlace(s, p)
      BY <2>2, <2>4, LaunchAt
    <3>2. \/ n = p + 1 \/ (p \in {1, 3, 5, 12} /\ n = p + 2) \/ (p = 5 /\ n = 11)
          \/ p \in {7, 10, 11} /\ n = 22
      BY <2>2, <2>4, <3>1, Ends DEF Next1, DebugPlace
    <3>3. p = 12 /\ debug[call[c].id] = None => n = 14
      BY <2>2, <3>1 DEF DebugPlace
    <3> QED
      BY <2>1, <2>2, <2>4, <3>1, <3>2, <3>3 DEF Leads
  <2>5. call[c].kind \in LaunchKinds
    BY <1>1 DEF Inv, Placed, Kinds, LaunchKinds, StopKinds
  <2> QED
    BY <2>3, <2>4, <2>5 DEF LaunchKinds
<1>5. \A d \in Calls : d # c => call'[d] = call[d]
  BY <1>3 DEF Moved
<1>6. up /\ up'
  BY DEF Step
<1> QED
  BY <1>1, <1>2, <1>3, <1>4, <1>5, <1>6 DEF Path

\* Where the steps that look, pick, enter and spawn are.
LEMMA StepOf ==
    ASSUME Inv, NEW c \in Calls, NEW s, Step(c, s)
    PROVE  /\ Is(c, "run", {3}) \/ Is(c, "debug", {1}) => s = "find"
           /\ Is(c, "run", {1}) \/ Is(c, "debug", {3}) => s = "drop"
           /\ Is(c, "run", {5}) \/ Is(c, "debug", {11}) => s = "spawn"
           /\ Is(c, "run", {6}) <=> s = "insert"
           /\ Is(c, "run", {9}) <=> s = "wait"
           /\ Is(c, "run", {10}) <=> s = "remove"
           /\ Is(c, "debug", {14}) <=> s = "enter"
           /\ Is(c, "debug", {18}) <=> s = "finish"
           /\ Is(c, "debug", {19}) <=> s = "stop"
           /\ s = "spawn" /\ c \in Launchers => Spawns(c)
           /\ AtKill(c) <=> s = "kill"
<1>1. /\ call[c].kind \in Kinds /\ call[c].at \in 1 .. End(call[c].kind) - 1
      /\ Busy(c) /\ s = Program[call[c].kind][call[c].at]
  BY StepAt
<1>2. AtKill(c) <=> s = "kill"
  BY <1>1 DEF AtKill
<1>3. PICK p : p = call[c].at
  OBVIOUS
<1>4. CASE call[c].kind = "run"
  <2>1. p \in 1 .. 10 /\ RunPlace(s, p)
    BY <1>1, <1>3, <1>4, Places, Ends
  <2>2. s # "enter" /\ s # "finish" /\ s # "stop"
    BY <1>1, <1>3, <1>4, <2>1, SMTT(30) DEF Program, RunPlace
  <2> QED
    BY <1>2, <1>3, <1>4, <2>1, <2>2 DEF Is, RunPlace, Spawns
<1>5. CASE call[c].kind = "debug"
  <2>1. p \in 1 .. 21 /\ DebugPlace(s, p)
    BY <1>1, <1>3, <1>5, Places, Ends
  <2>2. s # "insert" /\ s # "wait" /\ s # "remove"
    BY <1>1, <1>3, <1>5, <2>1, SMTT(60) DEF Program, DebugPlace
  <2> QED
    BY <1>2, <1>3, <1>5, <2>1, <2>2 DEF Is, DebugPlace, Spawns
<1>6. CASE call[c].kind \in StopKinds
  <2>1. s \in {"find", "kill", "drop", "findBuild", "killBuild"}
    BY <1>1, <1>6, Ends, SMTT(30) DEF StopKinds, Program
  <2>2. c \notin Launchers
    BY <1>6 DEF Inv, Placed, LaunchKinds, StopKinds
  <2> QED
    BY <1>2, <1>6, <2>1, <2>2 DEF Is, StopKinds
<1> QED
  BY <1>1, <1>4, <1>5, <1>6 DEF Kinds, LaunchKinds

\* A step that neither looks for a launch nor changes a table of them.
LEMMA QuietCourse ==
    ASSUME Inv, NEW c \in Calls, NEW s, Step(c, s), NEW n, Next1(c, s, n),
           s \notin {"find", "drop", "insert", "enter", "remove", "finish"},
           NEW x \in Launchers \cup {None}, GoTo(c, n, x),
           UNCHANGED <<running, debug, picked, raced, up>>, Lives(c)
    PROVE  Course(c, n)
<1>1. Path(c, n)
  BY PathTo
<1>2. Looks(c) /\ Picks(c) /\ Enters(c)
  BY StepOf DEF Looks, Picks, Enters
<1> QED
  BY <1>1, <1>2 DEF Course

LEMMA SameLives ==
    ASSUME Inv, NEW c \in Calls, NEW s, Step(c, s), s \notin {"kill", "wait", "stop"}, UNCHANGED proc
    PROVE  Lives(c)
BY StepOf DEF Lives, Alive

\* The launch whose process is replaced by another state does not live on.
LEMMA FewerLives ==
    ASSUME Inv, NEW c \in Calls, NEW s, Step(c, s), NEW v \in Launchers, NEW p, p # "alive",
           proc' = [proc EXCEPT ![v] = p], p = "none" <=> proc[v] = "none",
           \/ s \in {"wait", "stop", "reap"} /\ v = c
           \/ s = "kill" /\ v = call[c].victim
    PROVE  Lives(c)
<1>1. \A w \in Launchers : proc'[w] = IF w = v THEN p ELSE proc[w]
  BY DEF Inv, Others
<1> QED
  BY <1>1, StepOf DEF Lives, Alive

LEMMA BusinessCourse ==
    ASSUME Inv, NEW c \in Calls,
           \/ KillBuild(c) \/ FindBuild(c)
           \/ c \in Launchers /\ (\/ SpawnBuild(c) \/ InsertBuild(c) \/ Record(c) \/ Persist(c)
                                  \/ WaitBuild(c) \/ RemoveBuild(c) \/ Talk(c) \/ Unrecord(c))
    PROVE  \E n : Course(c, n)
<1>1. PICK s \in {"killBuild", "findBuild", "spawnBuild", "insertBuild", "record", "persist",
                  "waitBuild", "removeBuild", "talk", "unrecord"} : Step(c, s)
  BY DEF KillBuild, FindBuild, SpawnBuild, InsertBuild, Record, Persist, WaitBuild, RemoveBuild, Talk,
         Unrecord
<1>2. UNCHANGED <<proc, running, debug, picked, raced, up>>
  BY DEF KillBuild, FindBuild, SpawnBuild, InsertBuild, Record, Persist, WaitBuild, RemoveBuild, Talk,
         Unrecord, processes, tables, history
<1>3. Lives(c)
  BY <1>1, <1>2, SameLives
<1>4. \E n : \E x \in Launchers \cup {None} : Next1(c, s, n) /\ GoTo(c, n, x)
  <2>1. CASE FindBuild(c)
    <3>1. s = "findBuild"
      <4>1. Program[call[c].kind][call[c].at] = s /\ Program[call[c].kind][call[c].at] = "findBuild"
        BY <1>1, <2>1 DEF FindBuild, Step
      <4> QED
        BY <4>1
    <3>2. call[c].id \in Ids
      BY <1>1, StepAt
    <3>3. PICK x \in Launchers \cup {None} : x = builds[call[c].id]
      BY <3>2 DEF Inv, Others
    <3>4. CASE Target(c, x)
      BY <3>1, <3>4 DEF Target, Next1
    <3>5. CASE c \in Launchers /\ GoTo(c, call[c].at + 6, None)
      BY <3>1, <3>5 DEF Next1
    <3> QED
      BY <2>1, <3>3, <3>4, <3>5 DEF FindBuild
  <2>2. CASE Proceed(c)
    BY <2>2 DEF Proceed, Next1
  <2>3. CASE GiveUp(c) /\ (SpawnBuild(c) \/ RemoveBuild(c))
    <3>1. s \in {"spawnBuild", "removeBuild"}
      <4>1. /\ Program[call[c].kind][call[c].at] = s
            /\ Program[call[c].kind][call[c].at] \in {"spawnBuild", "removeBuild"}
        BY <1>1, <2>3 DEF SpawnBuild, RemoveBuild, Step
      <4> QED
        BY <4>1
    <3> QED
      BY <2>3, <3>1 DEF GiveUp, Next1
  <2> QED
    BY <2>1, <2>2, <2>3 DEF KillBuild, SpawnBuild, InsertBuild, Record, Persist, WaitBuild,
                            RemoveBuild, Talk, Unrecord
<1> QED
  BY <1>1, <1>2, <1>3, <1>4, QuietCourse

LEMMA ProcessCourse ==
    ASSUME Inv, NEW c \in Launchers, Wait(c) \/ StopSelf(c) \/ Reap(c)
    PROVE  \E n : Course(c, n)
<1>1. c \in Calls
  BY DEF Calls
<1>2. PICK s \in {"wait", "stop", "reap"} : Step(c, s)
  BY DEF Wait, StopSelf, Reap
<1>3. UNCHANGED <<running, debug, picked, raced, up>> /\ Proceed(c)
  BY DEF Wait, StopSelf, Reap, tables, history
<1>4. Lives(c)
  <2>1. CASE proc' = [proc EXCEPT ![c] = "reaped"] /\ proc[c] = "exited"
    BY <1>1, <1>2, <2>1, FewerLives
  <2>2. CASE proc' = Signal(proc, c)
    <3>1. CASE proc[c] \in Running
      <4>1. proc' = [proc EXCEPT ![c] = "doomed"] /\ proc[c] # "none"
        BY <2>2, <3>1 DEF Signal, Running, Inv, Others
      <4> QED
        BY <1>1, <1>2, <4>1, FewerLives
    <3>2. CASE proc[c] \notin Running
      <4>1. proc' = proc /\ ~Alive(c)
        BY <2>2, <3>2 DEF Signal, Running, Inv, Others, Alive
      <4>2. ~AtKill(c)
        BY <1>1, <1>2, StepOf
      <4> QED
        BY <4>1, <4>2 DEF Lives, Alive
    <3> QED
      BY <3>1, <3>2
  <2> QED
    BY <2>1, <2>2 DEF Wait, StopSelf, Reap
<1>5. Next1(c, s, call[c].at + 1) /\ GoTo(c, call[c].at + 1, None)
  BY <1>3 DEF Next1, Proceed
<1> QED
  BY <1>1, <1>2, <1>3, <1>4, <1>5, QuietCourse

LEMMA SpawnCourse == ASSUME Inv, NEW c \in Launchers, Spawn(c) PROVE \E n : Course(c, n)
<1>1. c \in Calls /\ Step(c, "spawn") /\ UNCHANGED <<running, debug, picked, raced, up>>
  BY DEF Spawn, Calls, tables, history
<1>2. Lives(c)
  <2>1. CASE UNCHANGED proc
    BY <1>1, <2>1, SameLives
  <2>2. CASE proc' = [proc EXCEPT ![c] = "alive"]
    <3>1. \A v \in Launchers : proc'[v] = IF v = c THEN "alive" ELSE proc[v]
      BY <2>2 DEF Inv, Others
    <3> QED
      BY <1>1, <3>1, StepOf DEF Lives, Alive
  <2> QED
    BY <2>1, <2>2 DEF Spawn
<1>3. \E n : Next1(c, "spawn", n) /\ GoTo(c, n, None)
  BY DEF Spawn, Next1, Proceed, GiveUp
<1> QED
  BY <1>1, <1>2, <1>3, QuietCourse

\* A kill sends what the command has found its signal.
LEMMA KillCourse == ASSUME Inv, NEW c \in Calls, Kill(c) PROVE \E n : Course(c, n)
<1>1. Step(c, "kill") /\ UNCHANGED <<running, debug, picked, raced, up>>
  BY DEF Kill, tables
<1>2. PICK v \in Launchers : v = call[c].victim
  BY <1>1, StepOf DEF Inv, Victims
<1>3. Lives(c)
  <2>1. proc' = Signal(proc, v)
    BY <1>2 DEF Kill
  <2>2. CASE proc[v] \in Running
    <3>1. proc' = [proc EXCEPT ![v] = "doomed"] /\ proc[v] # "none"
      BY <2>1, <2>2 DEF Signal, Running, Inv, Others
    <3> QED
      BY <1>1, <1>2, <3>1, FewerLives
  <2>3. CASE proc[v] \notin Running
    <3>1. proc' = proc /\ ~Alive(v)
      BY <2>1, <2>3 DEF Signal, Running, Inv, Others, Alive
    <3>2. ~(c \in Launchers /\ (Is(c, "run", {9}) \/ Is(c, "debug", {19})))
      BY <1>1, StepOf
    <3> QED
      BY <1>2, <3>1, <3>2 DEF Lives, Alive
  <2> QED
    BY <2>2, <2>3
<1>4. \E n : Next1(c, "kill", n) /\ GoTo(c, n, None)
  <2>1. call[c].kind = "panel" => c \notin Launchers
    BY DEF Inv, Placed, LaunchKinds, Calls
  <2> QED
    BY <2>1 DEF Kill, Next1, Proceed, GiveUp
<1> QED
  BY <1>1, <1>3, <1>4, QuietCourse

\* Who looks for a launch kills what is found in the next step.
LEMMA KillFollows ==
    ASSUME Inv, NEW c \in Calls, NEW s \in {"find", "drop"}, Step(c, s)
    PROVE  /\ call[c].at + 1 < End(call[c].kind)
           /\ Program[call[c].kind][call[c].at + 1] = "kill"
<1>1. /\ call[c].kind \in Kinds /\ call[c].at \in 1 .. End(call[c].kind) - 1
      /\ Program[call[c].kind][call[c].at] = s
  BY StepAt
<1>2. PICK k, p : k = call[c].kind /\ p = call[c].at
  OBVIOUS
<1>3. CASE k = "run"
  <2>1. p \in {1, 3}
    BY <1>1, <1>2, <1>3, Places, Ends DEF RunPlace
  <2> QED
    BY <1>2, <1>3, <2>1, Ends, Places DEF RunPlace
<1>4. CASE k = "debug"
  <2>1. p \in {1, 3, 12}
    BY <1>1, <1>2, <1>4, Places, Ends DEF DebugPlace
  <2> QED
    BY <1>2, <1>4, <2>1, Ends, Places DEF DebugPlace
<1>5. CASE k \in StopKinds
  BY <1>1, <1>2, <1>5, Ends, SMTT(30) DEF StopKinds, Program
<1> QED
  BY <1>1, <1>2, <1>3, <1>4, <1>5 DEF Kinds, LaunchKinds

LEMMA LookCourse ==
    ASSUME Inv, NEW c \in Calls, NEW s \in {"find", "drop"}, Step(c, s),
           NEW x \in Launchers \cup {None}, Target(c, x),
           x = IF s = "find" THEN running[call[c].id] ELSE debug[call[c].id],
           UNCHANGED <<proc, running, raced, up>>,
           picked' = picked \cup ({x} \ {None}),
           debug' = IF s = "find" THEN debug ELSE [debug EXCEPT ![call[c].id] = None]
    PROVE  \E n : Course(c, n)
<1>1. /\ Busy(c) /\ call[c].kind \in Kinds /\ call[c].id \in Ids /\ call[c].at \in Nat
      /\ call[c].at + 1 < End(call[c].kind)
  <2>1. End(call[c].kind) \in {3, 5, 11, 22}
    BY StepAt
  <2> QED
    BY <2>1, KillFollows, StepAt
<1>2. PICK n : GoTo(c, n, x) /\ n = IF x = None THEN call[c].at + 2 ELSE call[c].at + 1
  BY DEF Target
<1>3. Path(c, n)
  BY <1>2, PathTo DEF Next1
<1>4. x # None => AtKill(c)' /\ call'[c].victim = x
  <2> SUFFICES ASSUME x # None PROVE AtKill(c)' /\ call'[c].victim = x
      OBVIOUS
  <2>1. PICK o : o = call[c]
    OBVIOUS
  <2>2. call \in [Calls -> Move] /\ o \in Move
    BY <2>1 DEF Inv, Placed
  <2>3. ~(n >= End(o.kind))
    BY <1>1, <1>2, <2>1, Ends DEF Kinds, LaunchKinds, StopKinds
  <2>4. call'[c] = [o EXCEPT !.at = n, !.victim = x]
    BY <1>2, <2>1, <2>2, <2>3 DEF GoTo
  <2>5. call'[c].kind = o.kind /\ call'[c].at = n /\ call'[c].victim = x
    BY <2>2, <2>4 DEF Move
  <2> QED
    BY <1>1, <1>2, <2>1, <2>5, KillFollows DEF AtKill, Busy
<1>5. Looks(c)
  BY <1>1, StepOf DEF Looks, Inv, Others
<1>6. Picks(c)
  <2>1. ~Is(c, "debug", {18})
    BY StepOf
  <2> QED
    BY <1>1, <1>4, <2>1 DEF Picks
<1>7. Enters(c)
  <2>1. ~Is(c, "run", {6}) /\ ~Is(c, "debug", {14})
    BY StepOf
  <2>2. \A i \in Ids : debug'[i] = debug[i] \/ (debug'[i] = None /\ debug[i] \in picked')
    BY <1>1 DEF Inv, Others
  <2> QED
    BY <2>1, <2>2 DEF Enters
<1>8. Lives(c)
  BY SameLives
<1> QED
  BY <1>3, <1>5, <1>6, <1>7, <1>8 DEF Course

\* Only a look for a run marks one, and it picks what is marked.
Chosen == flagged \subseteq picked

LEMMA FindCourse == ASSUME Inv, Chosen, NEW c \in Calls, Find(c) PROVE \E n : Course(c, n)
<1>1. Step(c, "find") /\ UNCHANGED <<proc, running, debug, raced, up>>
  BY DEF Find, processes, tables
<1>2. PICK x \in Launchers \cup {None} : x = running[call[c].id]
  BY <1>1, StepAt DEF Inv, Others
<1>3. Target(c, x) /\ picked' = picked \cup ({x} \ {None})
  BY <1>2 DEF Find, Chosen
<1> QED
  BY <1>1, <1>2, <1>3, LookCourse

LEMMA DropCourse == ASSUME Inv, NEW c \in Calls, Drop(c) PROVE \E n : Course(c, n)
<1>1. /\ Step(c, "drop") /\ UNCHANGED <<proc, running, raced, up>>
      /\ debug' = [debug EXCEPT ![call[c].id] = None]
  BY DEF Drop, processes
<1>2. PICK x \in Launchers \cup {None} : x = debug[call[c].id]
  BY <1>1, StepAt DEF Inv, Others
<1>3. Target(c, x) /\ picked' = picked \cup ({x} \ {None})
  BY <1>2 DEF Drop
<1> QED
  BY <1>1, <1>2, <1>3, LookCourse

\* The steps that change a table by themselves.
LEMMA TableCourse ==
    ASSUME Inv, NEW c \in Launchers, Insert(c) \/ Enter(c) \/ Remove(c) \/ Finish(c)
    PROVE  \E n : Course(c, n)
<1>1. PICK s \in {"insert", "enter", "remove", "finish"} : Step(c, s)
  BY DEF Insert, Enter, Remove, Finish
<1>2. c \in Calls /\ Proceed(c) /\ UNCHANGED <<proc, raced, up>>
  BY DEF Insert, Enter, Remove, Finish, Calls, processes, history
<1>3. Path(c, call[c].at + 1)
  BY <1>1, <1>2, PathTo DEF Next1, Proceed
<1>4. Lives(c)
  BY <1>1, <1>2, SameLives
<1>5. Looks(c)
  BY <1>1, <1>2, StepOf DEF Looks
<1>6. call[c].id \in Ids /\ {running, debug} \subseteq [Ids -> Launchers \cup {None}]
  BY <1>1, <1>2, StepAt DEF Inv, Others
<1>7. Picks(c) /\ Enters(c)
  <2>1. CASE Insert(c)
    <3>1. Step(c, "insert") /\ UNCHANGED <<debug, picked>> /\ running' = [running EXCEPT ![call[c].id] = c]
      BY <2>1 DEF Insert, history
    <3>2. Is(c, "run", {6}) /\ ~Is(c, "debug", {18}) /\ ~Is(c, "debug", {14})
      BY <1>2, <3>1, StepOf
    <3> QED
      BY <1>6, <3>1, <3>2 DEF Picks, Enters
  <2>2. CASE Enter(c)
    <3>1. Step(c, "enter") /\ UNCHANGED <<running, picked>> /\ debug' = [debug EXCEPT ![call[c].id] = c]
      BY <2>2 DEF Enter, history
    <3>2. Is(c, "debug", {14}) /\ ~Is(c, "debug", {18}) /\ ~Is(c, "run", {6})
      BY <1>2, <3>1, StepOf
    <3> QED
      BY <1>6, <3>1, <3>2 DEF Picks, Enters
  <2>3. CASE Remove(c)
    <3>1. Step(c, "remove") /\ UNCHANGED <<debug, picked>>
      BY <2>3 DEF Remove, history
    <3>2. Is(c, "run", {10}) /\ ~Is(c, "debug", {18}) /\ ~Is(c, "run", {6}) /\ ~Is(c, "debug", {14})
      BY <1>2, <3>1, StepOf
    <3>3. \A i \in Ids : running'[i] = running[i] \/ running[i] = c
      BY <1>6, <2>3 DEF Remove
    <3> QED
      BY <3>1, <3>2, <3>3 DEF Picks, Enters
  <2>4. CASE Finish(c)
    <3>1. Step(c, "finish") /\ UNCHANGED running /\ picked' = picked \cup {c}
      BY <2>4 DEF Finish
    <3>2. Is(c, "debug", {18}) /\ ~Is(c, "run", {6}) /\ ~Is(c, "debug", {14})
      BY <1>2, <3>1, StepOf
    <3>3. \A i \in Ids : debug'[i] = debug[i] \/ (debug'[i] = None /\ debug[i] = c)
      BY <1>6, <2>4 DEF Finish
    <3> QED
      BY <3>1, <3>2, <3>3 DEF Picks, Enters
  <2> QED
    BY <2>1, <2>2, <2>3, <2>4
<1> QED
  BY <1>3, <1>4, <1>5, <1>7 DEF Course

LEMMA TaskCourse ==
    ASSUME Inv, Chosen, NEW c \in Calls, Task(c) \/ (c \in Launchers /\ Talk(c))
    PROVE  \E n : Course(c, n)
<1>1. CASE Find(c) \/ FindBuild(c) \/ Drop(c) \/ Kill(c) \/ KillBuild(c)
  BY <1>1, FindCourse, DropCourse, KillCourse, BusinessCourse
<1>2. CASE c \in Launchers /\ (Spawn(c) \/ Wait(c) \/ StopSelf(c) \/ Reap(c))
  BY <1>2, SpawnCourse, ProcessCourse
<1>3. CASE c \in Launchers /\ (Insert(c) \/ Enter(c) \/ Remove(c) \/ Finish(c))
  BY <1>3, TableCourse
<1>4. CASE c \in Launchers /\ (\/ SpawnBuild(c) \/ InsertBuild(c) \/ Record(c) \/ Persist(c)
                               \/ WaitBuild(c) \/ RemoveBuild(c) \/ Talk(c) \/ Unrecord(c))
  BY <1>4, BusinessCourse
<1> QED
  BY <1>1, <1>2, <1>3, <1>4 DEF Task

-----------------------------------------------------------------------------
(* The environment keeps one generation                                    *)

\* What keeps the commands and the tables, and brings no process to life.
LEMMA StillCourse ==
    ASSUME Inv, Generations, UNCHANGED <<call, running, debug, picked, raced>>,
           \A v \in Launchers : Alive(v)' => Alive(v),
           \A v \in Launchers : proc[v] = "none" => proc'[v] = "none",
           up' \/ ~up
    PROVE  Generations'
<1>1. Downed' /\ Spawned' /\ Picked' /\ Finished'
  BY DEF Generations, Downed, Spawned, Picked, Finished, Is, Busy
<1>2. Hunted'
  BY DEF Generations, Hunted, Is, Busy, AtKill, Inv, Others
<1>3. Registered' /\ Vacant'
  BY DEF Generations, Registered, Vacant, InRun, InDebug, Is
<1>4. Alone' /\ Cleared' /\ Succeeded'
  BY DEF Generations, Alone, Cleared, Succeeded, Rivals, Young, PastFind, PastDrop, InRun, InDebug, Is
<1> QED
  BY <1>1, <1>2, <1>3, <1>4 DEF Generations

LEMMA EnvironmentStep ==
    ASSUME Inv, Generations,
           \/ \E c \in Launchers : Exit(c) \/ ExitBuild(c) \/ KillOrphan(c)
           \/ Restart
           \/ UNCHANGED vars
    PROVE  Generations'
<1>1. UNCHANGED <<call, running, debug, picked, raced>>
  BY DEF Exit, ExitBuild, KillOrphan, Restart, vars, tables, history
<1>2. up' \/ ~up
  BY DEF Exit, ExitBuild, KillOrphan, Restart, vars
<1>3. ASSUME NEW v \in Launchers
      PROVE  (Alive(v)' => Alive(v)) /\ (proc[v] = "none" => proc'[v] = "none")
  BY DEF Exit, ExitBuild, KillOrphan, Restart, vars, processes, Signal, Running, Alive, Inv, Others
<1> QED
  BY <1>1, <1>2, <1>3, StillCourse

\* A launch that is on its way has its record still to be written.
LEMMA YoungAhead ==
    ASSUME Inv, NEW d \in Launchers, Young(d)
    PROVE  Ahead(d, "persist")
<1>1. d \in Calls /\ call[d].at \in Nat
  BY IsPlace
<1>2. CASE Is(d, "run", 1 .. 8)
  <2>1. Busy(d) /\ Len(Program["run"]) = 10 /\ Program["run"][8] = "persist"
    BY <1>1, <1>2, Ends, Places DEF Is, Busy, End, Kinds, LaunchKinds, RunPlace, Program
  <2>2. 8 \in call[d].at .. Len(Program[call[d].kind])
    BY <1>1, <1>2, <2>1 DEF Is
  <2> QED
    BY <1>2, <2>1, <2>2 DEF Ahead, Is
<1>3. CASE Is(d, "debug", 1 .. 16)
  <2>1. Busy(d) /\ Len(Program["debug"]) = 21 /\ Program["debug"][16] = "persist"
    BY <1>1, <1>3, Ends, Places DEF Is, Busy, End, Kinds, LaunchKinds, DebugPlace, Program
  <2>2. 16 \in call[d].at .. Len(Program[call[d].kind])
    BY <1>1, <1>3, <2>1 DEF Is
  <2> QED
    BY <1>3, <2>1, <2>2 DEF Ahead, Is
<1> QED
  BY <1>2, <1>3 DEF Young

\* A new launch is young, in no table, and has looked into none.
LEMMA StartCourse ==
    ASSUME Inv, Generations, NEW c \in Calls, NEW i \in Ids, NEW k, Start(c, k, i)
    PROVE  Generations'
<1>1. /\ call[c].kind = "none" /\ UNCHANGED <<proc, running, debug, up, picked>> /\ up
      /\ raced \subseteq raced'
  BY DEF Start, Idle, processes, tables
<1>2. /\ call'[c].kind = k /\ call'[c].id = i /\ call'[c].at = 1
      /\ \A d \in Calls : d # c => call'[d] = call[d]
  BY DEF Start, Inv, Placed
<1>3. \A v \in Launchers : v # c => call'[v] = call[v]
  BY <1>2 DEF Calls
<1>4. \A places : ~Is(c, "run", places) /\ ~Is(c, "debug", places)
  BY <1>1 DEF Is
<1>5. \A places : 1 \notin places => ~Is(c, "run", places)' /\ ~Is(c, "debug", places)'
  BY <1>2 DEF Is
<1>6. ASSUME NEW v \in Launchers
      PROVE  /\ InRun(v)' => InRun(v) /\ v # c
             /\ InDebug(v)' => InDebug(v) /\ v # c
             /\ PastFind(v)' => PastFind(v) /\ v # c
             /\ PastDrop(v)' => PastDrop(v) /\ v # c
             /\ v # c => (Young(v)' <=> Young(v))
  <2>1. CASE v = c
    BY <1>2, <2>1 DEF InRun, InDebug, PastFind, PastDrop, Is
  <2>2. CASE v # c
    BY <1>3, <2>2 DEF InRun, InDebug, PastFind, PastDrop, Young, Is
  <2> QED
    BY <2>1, <2>2
<1>7. ASSUME NEW v \in Launchers, NEW w \in Launchers, v # c, w # c
      PROVE  Rivals(v, w)' => Rivals(v, w)
  BY <1>1, <1>3, <1>7 DEF Rivals
<1>8. Downed'
  BY <1>1 DEF Downed
<1>9. Spawned'
  <2> SUFFICES ASSUME NEW v \in Launchers
               PROVE  /\ (call[v].kind = "none" \/ Is(v, "run", 1 .. 5) \/ Is(v, "debug", 1 .. 11))'
                            => proc'[v] = "none"
                      /\ Is(v, "run", {10})' => ~Alive(v)'
      BY DEF Spawned
  <2>1. CASE v = c
    BY <1>1, <1>5, <2>1 DEF Generations, Spawned
  <2>2. CASE v # c
    BY <1>1, <1>3, <2>2 DEF Generations, Spawned, Is, Alive
  <2> QED
    BY <2>1, <2>2
<1>10. Picked'
  <2> SUFFICES ASSUME NEW v \in picked PROVE Is(v, "run", 7 .. 11)' \/ Is(v, "debug", 15 .. 22)'
      BY <1>1 DEF Picked
  <2>1. v \in Launchers /\ v # c
    BY <1>4 DEF Generations, Picked, Inv, Others
  <2> QED
    BY <1>3, <2>1 DEF Generations, Picked, Is
<1>11. Hunted'
  <2> SUFFICES ASSUME NEW v \in picked, Busy(v)', Alive(v)'
               PROVE  Is(v, "debug", {19})' \/ \E d \in Calls : AtKill(d)' /\ call'[d].victim = v
      BY <1>1 DEF Hunted
  <2>1. v \in Launchers /\ v # c
    BY <1>4 DEF Generations, Picked, Inv, Others
  <2>2. call'[v] = call[v] /\ Busy(v) /\ Alive(v)
    BY <1>1, <1>3, <2>1 DEF Busy, Alive
  <2>3. CASE Is(v, "debug", {19})
    BY <2>2, <2>3 DEF Is
  <2>4. CASE \E d \in Calls : AtKill(d) /\ call[d].victim = v
    <3>1. PICK d \in Calls : AtKill(d) /\ call[d].victim = v
      BY <2>4
    <3>2. d # c
      BY <1>1, <3>1, Ends DEF AtKill, Busy, Kinds, LaunchKinds, StopKinds
    <3> QED
      BY <1>2, <3>1, <3>2 DEF AtKill, Busy
  <2> QED
    BY <2>2, <2>3, <2>4 DEF Generations, Hunted
<1>12. Finished'
  <2> SUFFICES ASSUME NEW v \in Launchers, Is(v, "debug", 19 .. 21)' PROVE v \in picked'
      BY DEF Finished
  <2>1. v # c
    BY <1>5
  <2> QED
    BY <1>1, <1>3, <2>1 DEF Generations, Finished, Is
<1>13. Registered'
  <2> SUFFICES ASSUME NEW v \in Launchers, call'[v].id \notin raced', v \notin picked
               PROVE  /\ InRun(v)' => running'[call'[v].id] = v
                      /\ InDebug(v)' => debug'[call'[v].id] = v
      BY <1>1 DEF Registered
  <2> QED
    BY <1>1, <1>3, <1>6 DEF Generations, Registered
<1>14. Alone'
  <2> SUFFICES ASSUME NEW v \in Launchers, NEW w \in Launchers, Rivals(v, w)', Young(v)', Young(w)'
               PROVE  FALSE
      BY DEF Alone
  <2>1. ASSUME NEW d \in Launchers, d # c, Young(d)', c \in Launchers PROVE call'[d].id = i => i \in raced'
    <3>1. call'[d] = call[d] /\ Young(d)
      BY <1>3, <1>6, <2>1
    <3>2. Ahead(d, "persist")
      BY <3>1, YoungAhead
    <3> QED
      BY <2>1, <3>1, <3>2 DEF Start
  <2>2. CASE v = c
    BY <1>2, <2>1, <2>2 DEF Rivals
  <2>3. CASE w = c
    BY <1>2, <2>1, <2>3 DEF Rivals
  <2>4. CASE v # c /\ w # c
    BY <1>6, <1>7, <2>4 DEF Generations, Alone
  <2> QED
    BY <2>2, <2>3, <2>4
<1>15. Cleared'
  BY <1>1, <1>6, <1>7 DEF Generations, Cleared
<1>16. Vacant'
  <2> SUFFICES ASSUME NEW v \in Launchers, call'[v].id \notin raced', Is(v, "debug", 4 .. 14)'
               PROVE  debug'[call'[v].id] = None /\ call'[v].at # 13
      BY DEF Vacant
  <2>1. v # c
    BY <1>5
  <2> QED
    BY <1>1, <1>3, <2>1 DEF Generations, Vacant, Is
<1>17. Succeeded'
  BY <1>1, <1>6, <1>7 DEF Generations, Succeeded
<1> QED
  BY <1>8, <1>9, <1>10, <1>11, <1>12, <1>13, <1>14, <1>15, <1>16, <1>17 DEF Generations

\* When the application goes down every launch is over.
LEMMA DownPlaces ==
    ASSUME Inv, NEW swept, GoDown(swept), NEW v \in Launchers
    PROVE  /\ call'[v].kind = call[v].kind /\ call'[v].id = call[v].id
           /\ call'[v] = call[v] \/ Busy(v)
           /\ call[v].kind = "run" => call'[v].at = 11
           /\ call[v].kind = "debug" => call'[v].at = 22
           /\ Alive(v)' => Alive(v)
           /\ proc[v] = "none" => proc'[v] = "none"
<1>1. /\ v \in Calls /\ call[v] \in Move /\ v \notin Stoppers
      /\ (call[v].kind = "none" \/ (call[v].kind = "run" /\ call[v].at \in 1 .. 11)
                                \/ (call[v].kind = "debug" /\ call[v].at \in 1 .. 22))
  BY IsPlace, NamesAssumption
<1>2. PICK o, e : o = call[v] /\ e = End(call[v].kind)
  OBVIOUS
<1>3. CASE Busy(v)
  <2>1. call'[v] = [o EXCEPT !.at = e, !.victim = None]
    BY <1>1, <1>2, <1>3 DEF GoDown
  <2>2. call'[v].kind = o.kind /\ call'[v].id = o.id /\ call'[v].at = e
    BY <1>1, <1>2, <2>1 DEF Move
  <2>3. /\ Alive(v)' => Alive(v)
        /\ proc[v] = "none" => proc'[v] = "none"
    BY DEF GoDown, Alive, Running
  <2> QED
    BY <1>2, <1>3, <2>2, <2>3, Ends
<1>4. CASE ~Busy(v)
  <2>1. call'[v] = call[v]
    BY <1>1, <1>4 DEF GoDown
  <2>2. /\ Alive(v)' => Alive(v)
        /\ proc[v] = "none" => proc'[v] = "none"
    BY DEF GoDown, Alive, Running
  <2> QED
    BY <1>1, <1>4, <2>1, <2>2, Ends DEF Busy, Kinds, LaunchKinds
<1> QED
  BY <1>3, <1>4

LEMMA GoDownCourse ==
    ASSUME Inv, Inv', Generations, NEW swept, GoDown(swept)
    PROVE  Generations'
<1>1. UNCHANGED picked /\ ~up'
  BY DEF GoDown
<1>2. \A v \in Launchers : /\ ~InRun(v)' /\ ~InDebug(v)' /\ ~Young(v)' /\ ~PastFind(v)' /\ ~PastDrop(v)'
                           /\ ~Is(v, "debug", 19 .. 21)' /\ ~Is(v, "run", {10})'
                           /\ ~Is(v, "debug", 4 .. 14)' /\ ~Is(v, "run", 1 .. 5)'
                           /\ ~Is(v, "debug", 1 .. 11)'
  BY DownPlaces DEF InRun, InDebug, Young, PastFind, PastDrop, Is
<1>3. \A c \in Calls : ~Busy(c)'
  <2> SUFFICES ASSUME NEW c \in Calls PROVE ~Busy(c)'
      OBVIOUS
  <2>1. CASE c \in Launchers
    BY <2>1, DownPlaces, IsPlace, Ends DEF Busy, Kinds, LaunchKinds, StopKinds
  <2>2. CASE c \notin Launchers
    <3>1. c \in Stoppers
      BY <2>2 DEF Calls
    <3>2. call'[c] = IF Busy(c) THEN Over ELSE call[c]
      BY <3>1 DEF GoDown
    <3>3. Over.kind = "over"
      BY DEF Over, Idle
    <3> QED
      BY <3>2, <3>3, Ends DEF Busy, Kinds, LaunchKinds, StopKinds
  <2> QED
    BY <2>1, <2>2
<1>4. Downed' /\ Finished' /\ Registered' /\ Alone' /\ Cleared' /\ Vacant' /\ Succeeded'
  BY <1>2, <1>3 DEF Downed, Finished, Registered, Alone, Cleared, Vacant, Succeeded
<1>5. Spawned'
  BY <1>2, DownPlaces DEF Generations, Spawned
<1>6. Picked'
  <2> SUFFICES ASSUME NEW v \in picked PROVE Is(v, "run", 7 .. 11)' \/ Is(v, "debug", 15 .. 22)'
      BY <1>1 DEF Picked
  <2>1. v \in Launchers /\ (call[v].kind = "run" \/ call[v].kind = "debug")
    BY DEF Generations, Picked, Is, Inv, Others
  <2> QED
    BY <2>1, DownPlaces DEF Is
<1>7. Hunted'
  <2>1. \A v \in picked' : v \in Calls
    BY DEF Inv, Others, Calls
  <2> QED
    BY <1>3, <2>1 DEF Hunted
<1> QED
  BY <1>4, <1>5, <1>6, <1>7 DEF Generations

-----------------------------------------------------------------------------
(* One generation, and a stop for it                                       *)

LEMMA ChosenStep == ASSUME Chosen, [Next]_vars PROVE Chosen'
<1>1. ASSUME NEW c \in Calls, Task(c) PROVE Chosen'
  BY <1>1 DEF Chosen, Task, Find, FindBuild, Drop, Kill, KillBuild, Spawn, SpawnBuild, Insert, InsertBuild,
              Enter, Record, Persist, Wait, WaitBuild, Remove, RemoveBuild, Finish, StopSelf, Reap,
              Unrecord, history
<1>2. ASSUME NEW c \in Calls, NEW i \in Ids, NEW k, Start(c, k, i) PROVE Chosen'
  BY <1>2 DEF Chosen, Start
<1>3. ASSUME NEW c \in Launchers, Talk(c) \/ Exit(c) \/ ExitBuild(c) \/ KillOrphan(c) PROVE Chosen'
  BY <1>3 DEF Chosen, Talk, Exit, ExitBuild, KillOrphan, history
<1>4. CASE Crash \/ Quit \/ Restart \/ UNCHANGED vars
  BY <1>4 DEF Chosen, Crash, Quit, GoDown, Restart, vars, history
<1> QED
  BY <1>1, <1>2, <1>3, <1>4 DEF Next

LEMMA NextGenerations == ASSUME Inv, Inv', Chosen, Generations, [Next]_vars PROVE Generations'
<1>1. ASSUME NEW c \in Calls, Task(c) PROVE Generations'
  BY <1>1, TaskCourse, CourseStep
<1>2. ASSUME NEW c \in Calls, NEW i \in Ids, NEW k, Start(c, k, i) PROVE Generations'
  BY <1>2, StartCourse
<1>3. ASSUME NEW c \in Launchers, Talk(c) PROVE Generations'
  BY <1>3, TaskCourse, CourseStep DEF Calls
<1>4. CASE \/ \E c \in Launchers : Exit(c) \/ ExitBuild(c) \/ KillOrphan(c)
           \/ Restart
           \/ UNCHANGED vars
  BY <1>4, EnvironmentStep
<1>5. CASE Crash \/ Quit
  BY <1>5, GoDownCourse DEF Crash, Quit
<1> QED
  BY <1>1, <1>2, <1>3, <1>4, <1>5 DEF Next

LEMMA InitGenerations == Init => Chosen /\ Generations
<1> SUFFICES ASSUME Init PROVE Chosen /\ Generations
  OBVIOUS
<1>1. \A c \in Calls : call[c].kind = "none" /\ c \in Launchers => proc[c] = "none"
  BY DEF Init, Idle, Calls
<1>2. \A c \in Launchers : \A places : ~Is(c, "run", places) /\ ~Is(c, "debug", places)
  BY DEF Init, Idle, Calls, Is
<1>3. Chosen /\ Downed /\ Picked /\ Hunted
  BY DEF Init, Chosen, Downed, Picked, Hunted
<1>4. Spawned
  BY <1>2 DEF Init, Spawned
<1>5. Finished /\ Registered /\ Vacant
  BY <1>2 DEF Finished, Registered, Vacant, InRun, InDebug
<1>6. Alone /\ Cleared /\ Succeeded
  BY <1>2 DEF Alone, Cleared, Succeeded, Young, PastFind, PastDrop, InRun, InDebug
<1> QED
  BY <1>3, <1>4, <1>5, <1>6 DEF Generations

LEMMA GenerationsHold == Spec => [](Inv /\ Chosen /\ Generations)
<1>1. Init => Inv /\ Chosen /\ Generations
  BY InitInv, InitGenerations
<1>2. Inv /\ Chosen /\ Generations /\ [Next]_vars => (Inv /\ Chosen /\ Generations)'
  BY NextInv, ChosenStep, NextGenerations
<1> QED
  BY <1>1, <1>2, PTL DEF Spec

\* Where a launch is whose process is the current one of its configuration.
LEMMA CurrentAt ==
    ASSUME Inv, Generations, NEW c \in Launchers, Current(c)
    PROVE  up /\ c \notin picked /\ (Is(c, "run", 6 .. 9) \/ Is(c, "debug", 12 .. 17))
<1>1. c \in Calls /\ Busy(c) /\ Alive(c) /\ up
  BY IsPlace DEF Current, Generations, Downed, Alive
<1>2. c \notin picked
  <2> SUFFICES ASSUME c \in picked PROVE FALSE
      OBVIOUS
  <2>1. CASE Is(c, "debug", {19})
    BY <1>1, <2>1, Places DEF Current, Step, Is, DebugPlace
  <2>2. CASE \E d \in Calls : AtKill(d) /\ call[d].victim = c
    BY <1>1, <2>2 DEF Current, Step, AtKill
  <2> QED
    BY <1>1, <2>1, <2>2 DEF Generations, Hunted
<1>3. proc[c] # "none"
  BY <1>1 DEF Alive
<1>4. CASE call[c].kind = "run"
  <2>1. call[c].at \in 1 .. 10
    BY <1>1, <1>4, IsPlace, Ends DEF Busy
  <2> QED
    BY <1>1, <1>2, <1>3, <1>4, <2>1 DEF Generations, Spawned, Is
<1>5. CASE call[c].kind = "debug"
  <2>1. call[c].at \in 1 .. 21
    BY <1>1, <1>5, IsPlace, Ends DEF Busy
  <2>2. call[c].at # 18
    BY <1>1, <1>5, Places DEF Current, Step, DebugPlace
  <2> QED
    BY <1>1, <1>2, <1>3, <1>5, <2>1, <2>2 DEF Generations, Spawned, Finished, Is
<1> QED
  BY <1>1, <1>2, <1>3, <1>4, <1>5, IsPlace DEF Generations, Spawned

\* At any moment a configuration has at most one process that nobody has set out to
\* stop, for any number of Run and Debug launches, stops and crashes, unless two of its
\* launches were on their way at once: a launch finds the earlier one in the supervisor's
\* map or in that of the debug sessions before it has a process of its own
\* (run.rs 54-56, debug.rs 690-691, state.rs 264).
THEOREM OneGeneration == Spec => []OneGenerationUnlessRaced
<1>1. ASSUME Inv, Generations PROVE OneGenerationUnlessRaced
  <2> SUFFICES ASSUME NEW c \in Launchers, NEW d \in Launchers, c # d, Current(c), Current(d),
                      call[c].id = call[d].id, call[c].id \notin raced
               PROVE  FALSE
      BY DEF OneGenerationUnlessRaced
  <2>1. Rivals(c, d) /\ Rivals(d, c) /\ {c, d} \cap picked = {}
    BY <1>1, CurrentAt DEF Rivals
  <2>2. ASSUME NEW v \in Launchers, Current(v)
        PROVE  InRun(v) \/ InDebug(v) \/ (Young(v) /\ PastFind(v) /\ PastDrop(v))
    <3>1. Is(v, "run", 6 .. 9) \/ Is(v, "debug", 12 .. 17)
      BY <1>1, <2>2, CurrentAt
    <3> QED
      BY <1>1, <3>1, IsPlace DEF InRun, InDebug, Young, PastFind, PastDrop, Is
  <2> QED
    BY <1>1, <2>1, <2>2 DEF Generations, Alone, Cleared, Succeeded
<1> QED
  BY <1>1, GenerationsHold, PTL

\* Once a launch has registered its process, the map that its stop command looks in
\* leads to it for as long as nobody has set out to stop it, whatever other launches,
\* stops and ends of the same configuration do in between; launches that raced are
\* exempt (process/mod.rs 286-288 and 334-346, state.rs 264-289).
THEOREM CurrentLaunchesAreFound == Spec => []EverythingRunningCanBeStopped
<1>1. ASSUME Inv, Generations PROVE EverythingRunningCanBeStopped
  <2> SUFFICES ASSUME NEW c \in Launchers, Current(c), call[c].id \notin raced
               PROVE  \/ running[call[c].id] = c
                      \/ debug[call[c].id] = c
                      \/ \E s \in {"insert", "drop", "enter"} : Step(c, s)
      BY DEF EverythingRunningCanBeStopped
  <2>1. /\ up /\ c \notin picked /\ Busy(c)
        /\ Is(c, "run", 6 .. 9) \/ Is(c, "debug", 12 .. 17)
    BY <1>1, CurrentAt DEF Current
  <2>2. (InRun(c) => running[call[c].id] = c) /\ (InDebug(c) => debug[call[c].id] = c)
    BY <1>1, <2>1 DEF Generations, Registered
  <2>3. ~Is(c, "debug", {13})
    BY <1>1 DEF Generations, Vacant, Is
  <2>4. CASE Is(c, "run", 6 .. 9)
    BY <1>1, <2>1, <2>2, <2>4, IsPlace, Places DEF Is, InRun, Step, RunPlace
  <2>5. CASE Is(c, "debug", 12 .. 17)
    BY <1>1, <2>1, <2>2, <2>3, <2>5, IsPlace, Places DEF Is, InDebug, Step, DebugPlace
  <2> QED
    BY <2>1, <2>4, <2>5
<1> QED
  BY <1>1, GenerationsHold, PTL

-----------------------------------------------------------------------------
(* What is listed                                                          *)

\* The launches that running.json lists once they have come to be recorded.
Lists(c) ==
    /\ Alive(c) /\ c \notin picked /\ call[c].id \notin raced
    /\ call[c].kind = "debug" => \A r \in picked : ~(call[r].kind = "run" /\ call[r].id = call[c].id)

Settled == \A c \in settled : Is(c, "run", 9 .. 11) \/ Is(c, "debug", 17 .. 22)
Booked ==
    \A c \in Launchers : Lists(c) =>
        /\ Is(c, "run", {8}) \/ Is(c, "debug", {16}) => live[call[c].id] = c
        /\ c \in settled => /\ c \in file
                            /\ up => c \in orphans \/ (Busy(c) /\ live[call[c].id] = c)

Books == Settled /\ Booked

Recording(c) == c \in Launchers /\ (Is(c, "run", {7}) \/ Is(c, "debug", {15}))
Persisting(c) == c \in Launchers /\ (Is(c, "run", {8}) \/ Is(c, "debug", {16}))

\* What a step of a command does to the registry.
Keeps(c) ==
    /\ orphans' = orphans
    /\ \A v \in settled' : v \in settled \/ (v = c /\ Persisting(c))
    /\ \A i \in Ids : \/ live'[i] = live[i]
                      \/ live'[i] = c /\ Recording(c) /\ i = call[c].id
                      \/ live'[i] = None /\ live[i] = c /\ Is(c, "debug", {21})
                      \/ live'[i] = None /\ running[i] = c /\ Is(c, "run", {10})
    /\ Recording(c) => live'[call[c].id] = c
    /\ file' = file \/ file' = OnDisk(live', orphans')
    /\ Persisting(c) => file' = OnDisk(live', orphans')

LEMMA BookPlaces ==
    ASSUME Inv, NEW c \in Launchers, NEW s, Step(c, s)
    PROVE  /\ Recording(c) <=> s = "record"
           /\ Persisting(c) <=> s = "persist"
           /\ s = "remove" => Is(c, "run", {10})
           /\ s = "unrecord" => Is(c, "debug", {21})
<1>1. /\ c \in Calls /\ call[c].kind \in Kinds /\ s = Program[call[c].kind][call[c].at]
  BY StepAt DEF Calls
<1>2. PICK p : p = call[c].at
  OBVIOUS
<1>3. CASE call[c].kind = "run"
  <2>1. p \in 1 .. 10 /\ RunPlace(s, p)
    BY <1>2, <1>3, LaunchAt
  <2>2. s # "unrecord"
    BY <1>1, <1>2, <1>3, <2>1, SMTT(30) DEF Program, RunPlace
  <2> QED
    BY <1>2, <1>3, <2>1, <2>2 DEF Recording, Persisting, Is, RunPlace
<1>4. CASE call[c].kind = "debug"
  <2>1. p \in 1 .. 21 /\ DebugPlace(s, p)
    BY <1>2, <1>4, LaunchAt
  <2>2. s # "remove"
    BY <1>1, <1>4, StepAt DEF Located
  <2> QED
    BY <1>2, <1>4, <2>1, <2>2 DEF Recording, Persisting, Is, DebugPlace
<1> QED
  BY <1>3, <1>4, LaunchAt

\* The store and the history of what it wrote are left alone by every other step.
LEMMA IdleKeeps ==
    ASSUME Inv, NEW c \in Calls, NEW s, Step(c, s), s \notin {"record", "persist"},
           UNCHANGED <<live, orphans, file, settled>>
    PROVE  Keeps(c)
<1>1. ~Recording(c) /\ ~Persisting(c)
  BY BookPlaces DEF Recording, Persisting
<1> QED
  BY <1>1 DEF Keeps

LEMMA TaskKeeps ==
    ASSUME Inv, NEW c \in Calls, Task(c) \/ (c \in Launchers /\ Talk(c))
    PROVE  Keeps(c)
<1>1. CASE \/ Find(c) \/ FindBuild(c) \/ Drop(c) \/ Kill(c) \/ KillBuild(c)
           \/ c \in Launchers /\
                (\/ Spawn(c) \/ SpawnBuild(c) \/ Insert(c) \/ InsertBuild(c) \/ Enter(c)
                 \/ Wait(c) \/ WaitBuild(c) \/ RemoveBuild(c) \/ Finish(c) \/ StopSelf(c) \/ Reap(c)
                 \/ Talk(c))
  <2>1. UNCHANGED <<live, orphans, file, settled>>
    BY <1>1 DEF Find, FindBuild, Drop, Kill, KillBuild, Spawn, SpawnBuild, Insert, InsertBuild, Enter,
                Wait, WaitBuild, RemoveBuild, Finish, StopSelf, Reap, Talk, store, history
  <2>2. PICK s \in {"find", "findBuild", "drop", "kill", "killBuild", "spawn", "spawnBuild", "insert",
                    "insertBuild", "enter", "wait", "waitBuild", "removeBuild", "finish", "stop", "reap",
                    "talk"} : Step(c, s)
    BY <1>1 DEF Find, FindBuild, Drop, Kill, KillBuild, Spawn, SpawnBuild, Insert, InsertBuild, Enter,
                Wait, WaitBuild, RemoveBuild, Finish, StopSelf, Reap, Talk
  <2> QED
    BY <2>1, <2>2, IdleKeeps
<1>2. CASE c \in Launchers /\ (Record(c) \/ Persist(c) \/ Remove(c) \/ Unrecord(c))
  <2>0. call[c].id \in Ids /\ live \in [Ids -> Launchers \cup {None}]
    BY <1>2, StepAt DEF Record, Persist, Remove, Unrecord, Inv, Others
  <2>1. CASE Record(c)
    <3>1. Recording(c) /\ ~Persisting(c)
      BY <1>2, <2>1, BookPlaces DEF Record
    <3>2. live' = [live EXCEPT ![call[c].id] = c] /\ UNCHANGED <<orphans, file, settled>>
      BY <2>1 DEF Record, history
    <3> QED
      BY <2>0, <3>1, <3>2 DEF Keeps
  <2>2. CASE Persist(c)
    <3>1. ~Recording(c) /\ Persisting(c)
      BY <1>2, <2>2, BookPlaces DEF Persist
    <3> QED
      BY <2>2, <3>1 DEF Keeps, Persist
  <2>3. CASE Remove(c)
    <3>1. Is(c, "run", {10}) /\ ~Recording(c) /\ ~Persisting(c)
      BY <1>2, <2>3, BookPlaces DEF Remove
    <3>2. \A i \in Ids : live'[i] = live[i] \/ (live'[i] = None /\ running[i] = c)
      BY <2>0, <2>3 DEF Remove
    <3>3. UNCHANGED <<orphans, settled>> /\ (file' = file \/ file' = OnDisk(live', orphans'))
      BY <2>3 DEF Remove, history
    <3> QED
      BY <3>1, <3>2, <3>3 DEF Keeps
  <2>4. CASE Unrecord(c)
    <3>1. Is(c, "debug", {21}) /\ ~Recording(c) /\ ~Persisting(c)
      BY <1>2, <2>4, BookPlaces DEF Unrecord
    <3>2. \A i \in Ids : live'[i] = live[i] \/ (live'[i] = None /\ live[i] = c)
      BY <2>0, <2>4 DEF Unrecord
    <3>3. UNCHANGED <<orphans, settled>> /\ (file' = file \/ file' = OnDisk(live', orphans'))
      BY <2>4 DEF Unrecord, history
    <3> QED
      BY <3>1, <3>2, <3>3 DEF Keeps
  <2> QED
    BY <1>2, <2>1, <2>2, <2>3, <2>4
<1> QED
  BY <1>1, <1>2 DEF Task

\* No other launch takes the record of one that nobody picked.
LEMMA RecordStays ==
    ASSUME Inv, Generations, NEW c \in Calls, NEW n, Course(c, n), Keeps(c),
           NEW v \in Launchers, Lists(v), Is(v, "run", 8 .. 9) \/ Is(v, "debug", 16 .. 18),
           live[call[v].id] = v
    PROVE  live'[call[v].id] = v
<1>1. /\ v \in Calls /\ v # None /\ call[v].at \in Nat /\ call[v].id \in Ids
      /\ v \notin picked /\ call[v].id \notin raced
  BY IsPlace, NamesAssumption DEF Lists, Is, Inv, Placed, Kinds, LaunchKinds
<1>2. InRun(v) \/ InDebug(v)
  BY <1>1 DEF InRun, InDebug, Is
<1>3. CASE live'[call[v].id] = c /\ Recording(c) /\ call[v].id = call[c].id
  <2>1. CASE c = v
    BY <1>3, <2>1
  <2>2. CASE c # v
    <3>1. c \in Launchers /\ Rivals(c, v) /\ Young(c) /\ PastFind(c) /\ PastDrop(c)
      BY <1>1, <1>3, <2>2 DEF Recording, Rivals, Young, PastFind, PastDrop, Is
    <3> QED
      BY <1>1, <1>2, <3>1 DEF Generations, Cleared
  <2> QED
    BY <2>1, <2>2
<1>4. CASE live[call[v].id] = c /\ Is(c, "debug", {21})
  BY <1>4 DEF Is
<1>5. CASE running[call[v].id] = c /\ Is(c, "run", {10})
  <2>1. v # c
    BY <1>5 DEF Is
  <2>2. c \in Launchers /\ call[c].id = call[v].id
    BY <1>1, <1>5, NamesAssumption DEF Is, Inv, Placed, LaunchKinds, Entered, Others
  <2>3. Rivals(c, v) /\ InRun(c)
    BY <1>1, <1>5, <2>1, <2>2 DEF Rivals, InRun, Is
  <2>4. ~InRun(v)
    BY <1>1, <1>5, <2>1 DEF Generations, Registered
  <2>5. c \in picked
    BY <1>1, <1>2, <2>2, <2>3 DEF Generations, Succeeded
  <2> QED
    BY <1>2, <1>5, <2>2, <2>4, <2>5 DEF Lists, InDebug, Is
<1> QED
  BY <1>1, <1>3, <1>4, <1>5 DEF Keeps

LEMMA SettledStep ==
    ASSUME Inv, Inv', Books, NEW c \in Calls, NEW n, Course(c, n), Keeps(c)
    PROVE  Settled'
<1> SUFFICES ASSUME NEW v \in settled' PROVE Is(v, "run", 9 .. 11)' \/ Is(v, "debug", 17 .. 22)'
    BY DEF Settled
<1>1. v \in Launchers
  BY DEF Inv, Others
<1>2. CASE v # c
  <2>1. v \in settled /\ call'[v] = call[v]
    BY <1>1, <1>2, Advance DEF Keeps, Course
  <2> QED
    BY <2>1 DEF Books, Settled, Is
<1>3. CASE v = c
  <2>1. Is(v, "run", 8 .. 11) \/ Is(v, "debug", 16 .. 22)
    BY <1>3 DEF Keeps, Persisting, Books, Settled, Is
  <2>2. PICK p \in Nat : p = call[v].at
    BY <1>1, IsPlace
  <2>3. Leads(v, n)
    BY <1>1, <1>3, Advance DEF Course
  <2> QED
    BY <2>1, <2>2, <2>3 DEF Leads, Is
<1> QED
  BY <1>2, <1>3

LEMMA OnDiskHolds ==
    ASSUME NEW v \in Launchers, NEW i \in Ids, NEW l, NEW o, l[i] = v \/ v \in o
    PROVE  v \in OnDisk(l, o)
BY NamesAssumption DEF OnDisk

LEMMA BookedStep ==
    ASSUME Inv, Inv', Generations, Books, NEW c \in Calls, NEW n, Course(c, n), Keeps(c)
    PROVE  Booked'
<1> SUFFICES ASSUME NEW v \in Launchers, Lists(v)'
             PROVE  /\ Is(v, "run", {8})' \/ Is(v, "debug", {16})' => live'[call'[v].id] = v
                    /\ v \in settled' => /\ v \in file'
                                         /\ v \in orphans' \/ (Busy(v)' /\ live'[call'[v].id] = v)
    BY DEF Booked
<1>1. /\ v \in Calls /\ call[v].at \in Nat /\ call'[v].id = call[v].id /\ call'[v].kind = call[v].kind
      /\ v = c => Leads(c, n)
      /\ v # c => call'[v] = call[v]
  BY IsPlace, Advance DEF Course
<1>2. CASE v = c /\ Spawns(c)
  <2>1. PICK p \in Nat : p = call[v].at
    BY <1>1
  <2>2. ~Is(v, "run", {8})' /\ ~Is(v, "debug", {16})'
    BY <1>1, <1>2, <2>1 DEF Spawns, Leads, Is
  <2>3. v \notin settled'
    BY <1>2 DEF Spawns, Is, Keeps, Persisting, Books, Settled
  <2> QED
    BY <2>2, <2>3
<1>3. CASE ~(v = c /\ Spawns(c))
  <2>1. Lists(v)
    <3>1. Alive(v) /\ v \notin picked /\ call[v].id \notin raced
      BY <1>1, <1>3 DEF Lists, Course, Path, Picks, Lives
    <3>2. ASSUME NEW r \in picked PROVE /\ r \in picked'
                                        /\ call'[r].kind = call[r].kind /\ call'[r].id = call[r].id
      BY Advance DEF Course, Picks, Inv, Others
    <3> QED
      BY <1>1, <3>1, <3>2 DEF Lists
  <2>2. ASSUME Is(v, "run", {8})' \/ Is(v, "debug", {16})' PROVE live'[call'[v].id] = v
    <3>1. CASE v = c
      <4>1. PICK p \in Nat : p = call[v].at
        BY <1>1
      <4>2. Recording(c)
        BY <1>1, <2>2, <3>1, <4>1 DEF Leads, Is, Recording
      <4> QED
        BY <1>1, <3>1, <4>2 DEF Keeps
    <3>2. CASE v # c
      <4>1. Is(v, "run", {8}) \/ Is(v, "debug", {16})
        BY <1>1, <2>2, <3>2 DEF Is
      <4>2. live[call[v].id] = v /\ (Is(v, "run", 8 .. 9) \/ Is(v, "debug", 16 .. 18))
        BY <2>1, <4>1 DEF Books, Booked, Is
      <4> QED
        BY <1>1, <2>1, <4>2, RecordStays
    <3> QED
      BY <3>1, <3>2
  <2>3. ASSUME v \in settled', v \notin settled
        PROVE  v \in file' /\ Busy(v)' /\ live'[call'[v].id] = v
    <3>1. v = c /\ Persisting(c)
      BY <2>3 DEF Keeps
    <3>2. call[v].id \in Ids /\ (Is(v, "run", 8 .. 9) \/ Is(v, "debug", 16 .. 18))
      BY <1>1, <3>1 DEF Persisting, Is, Inv, Placed, Kinds, LaunchKinds
    <3>3. live[call[v].id] = v
      BY <2>1, <3>1 DEF Books, Booked, Persisting
    <3>4. live'[call[v].id] = v
      BY <2>1, <3>2, <3>3, RecordStays
    <3>5. file' = OnDisk(live', orphans')
      BY <3>1 DEF Keeps
    <3>6. v \in file'
      BY <3>2, <3>4, <3>5, OnDiskHolds
    <3>7. Busy(v)'
      BY <1>1, <3>1, Ends DEF Persisting, Is, Leads, Busy, Kinds, LaunchKinds
    <3> QED
      BY <1>1, <3>4, <3>6, <3>7
  <2>4. ASSUME v \in settled
        PROVE  v \in file' /\ (v \in orphans' \/ (Busy(v)' /\ live'[call'[v].id] = v))
    <3>1. v \in file /\ (v \in orphans \/ (Busy(v) /\ live[call[v].id] = v))
      BY <2>1, <2>4 DEF Books, Booked, Course, Path
    <3>2. call[v].id \in Ids
      BY <1>1, <2>4 DEF Books, Settled, Is, Inv, Placed, Kinds, LaunchKinds
    <3>3. CASE v \in orphans
      BY <3>1, <3>2, <3>3, OnDiskHolds DEF Keeps
    <3>4. CASE Busy(v) /\ live[call[v].id] = v
      <4>1. Is(v, "run", {9}) \/ Is(v, "debug", 17 .. 18)
        <5>1. call[v].kind = "run" => call[v].at # 11 /\ call[v].at # 10
          BY <2>1, <3>4, Ends DEF Busy, Lists, Generations, Spawned, Is
        <5>2. call[v].kind = "debug" => call[v].at # 22 /\ call[v].at \notin 19 .. 21
          BY <2>1, <3>4, Ends DEF Busy, Lists, Generations, Finished, Is
        <5> QED
          BY <1>1, <2>4, <5>1, <5>2 DEF Books, Settled, Is
      <4>2. Is(v, "run", 8 .. 9) \/ Is(v, "debug", 16 .. 18)
        BY <4>1 DEF Is
      <4>3. live'[call[v].id] = v
        BY <2>1, <3>4, <4>2, RecordStays
      <4>4. v \in file'
        BY <3>1, <3>2, <4>3, OnDiskHolds DEF Keeps
      <4>5. Busy(v)'
        <5>1. CASE v # c
          BY <1>1, <3>4, <5>1 DEF Busy
        <5>2. CASE v = c
          <6>1. ~Is(v, "run", {9}) /\ ~Is(v, "debug", {18})
            BY <5>2 DEF Lists, Course, Lives, Picks
          <6>2. Is(v, "debug", {17})
            BY <4>1, <6>1 DEF Is
          <6>3. call'[v].kind = "debug" /\ call'[v].at = 18
            BY <1>1, <5>2, <6>2 DEF Leads, Is
          <6> QED
            BY <6>3, Ends DEF Busy, Kinds, LaunchKinds
        <5> QED
          BY <5>1, <5>2
      <4> QED
        BY <1>1, <4>3, <4>4, <4>5
    <3> QED
      BY <3>1, <3>3, <3>4
  <2> QED
    BY <2>2, <2>3, <2>4
<1> QED
  BY <1>2, <1>3

-----------------------------------------------------------------------------
(* The environment keeps the list                                          *)

LEMMA StartBooks ==
    ASSUME Inv, Generations, Books, NEW c \in Calls, NEW i \in Ids, NEW k, Start(c, k, i)
    PROVE  Books'
<1>1. /\ call[c].kind = "none" /\ UNCHANGED <<proc, live, orphans, file, settled, picked, up>> /\ up
      /\ raced \subseteq raced'
  BY DEF Start, Idle, processes, store
<1>2. /\ call'[c].at = 1 /\ \A d \in Calls : d # c => call'[d] = call[d]
  BY DEF Start, Inv, Placed
<1>3. \A v \in settled : v \in Calls /\ v # c
  BY <1>1 DEF Books, Settled, Is, Inv, Others, Calls
<1>4. \A r \in picked : r \in Calls /\ r # c
  BY <1>1 DEF Generations, Picked, Is, Inv, Others, Calls
<1>5. Settled'
  BY <1>1, <1>2, <1>3 DEF Books, Settled, Is
<1>6. ASSUME NEW v \in Launchers, Lists(v)', v # c PROVE Lists(v) /\ call'[v] = call[v]
  BY <1>1, <1>2, <1>4, <1>6 DEF Lists, Alive, Calls
<1>7. Booked'
  <2> SUFFICES ASSUME NEW v \in Launchers, Lists(v)'
               PROVE  /\ Is(v, "run", {8})' \/ Is(v, "debug", {16})' => live'[call'[v].id] = v
                      /\ v \in settled' => /\ v \in file'
                                           /\ v \in orphans' \/ (Busy(v)' /\ live'[call'[v].id] = v)
      BY DEF Booked
  <2>1. CASE v = c
    BY <1>1, <1>2, <1>3, <2>1 DEF Is
  <2>2. CASE v # c
    BY <1>1, <1>6, <2>2 DEF Books, Booked, Is, Busy
  <2> QED
    BY <2>1, <2>2
<1> QED
  BY <1>5, <1>7 DEF Books

LEMMA EnvironmentBooks ==
    ASSUME Inv, Books,
           \/ \E c \in Launchers : Exit(c) \/ ExitBuild(c) \/ KillOrphan(c)
           \/ Restart
           \/ UNCHANGED vars
    PROVE  Books'
<1>1. UNCHANGED <<call, live, picked, raced, settled>>
  BY DEF Exit, ExitBuild, KillOrphan, Restart, vars, tables, history, store
<1>2. ASSUME NEW v \in Launchers, Alive(v)' PROVE Alive(v)
  BY <1>2 DEF Exit, ExitBuild, KillOrphan, Restart, vars, processes, Signal, Running, Alive, Inv, Others
<1>3. ASSUME NEW v \in Launchers, Lists(v)' PROVE Lists(v)
  BY <1>1, <1>2, <1>3 DEF Lists
<1>4. Settled'
  BY <1>1 DEF Books, Settled, Is
<1>5. ASSUME NEW v \in Launchers, Lists(v)', v \in settled
      PROVE  /\ v \in file'
             /\ up' => v \in orphans' \/ (Busy(v)' /\ live'[call'[v].id] = v)
  <2>1. v \in file /\ (up => v \in orphans \/ (Busy(v) /\ live[call[v].id] = v)) /\ Alive(v)
    BY <1>3, <1>5 DEF Books, Booked, Lists
  <2>2. Busy(v)' <=> Busy(v)
    BY <1>1 DEF Busy
  <2>3. call[v].id \in Ids
    BY <1>5 DEF Books, Settled, Is, Inv, Placed, Kinds, LaunchKinds, Calls
  <2>4. CASE UNCHANGED <<orphans, file, up>>
    BY <1>1, <2>1, <2>2, <2>4
  <2>5. CASE Restart
    BY <2>1, <2>5 DEF Restart, Alive, Running
  <2>6. CASE \E c \in Launchers : KillOrphan(c)
    <3>1. PICK c \in Launchers : KillOrphan(c)
      BY <2>6
    <3>2. v # c
      BY <1>5, <3>1 DEF KillOrphan, Signal, Running, Lists, Alive, Inv, Others
    <3>3. v \in orphans => v \in orphans'
      BY <3>1, <3>2 DEF KillOrphan
    <3>4. file' = OnDisk(live, orphans') /\ up /\ up'
      BY <3>1 DEF KillOrphan
    <3> QED
      BY <1>1, <2>1, <2>2, <2>3, <3>3, <3>4, OnDiskHolds
  <2> QED
    BY <2>4, <2>5, <2>6 DEF Exit, ExitBuild, vars, store
<1>6. Booked'
  BY <1>1, <1>3, <1>5 DEF Books, Booked, Is
<1> QED
  BY <1>4, <1>6 DEF Books

LEMMA GoDownBooks ==
    ASSUME Inv, Books, NEW swept, GoDown(swept)
    PROVE  Books'
<1>1. UNCHANGED <<file, picked, raced>> /\ ~up' /\ settled' \subseteq settled
  BY DEF GoDown
<1>2. settled \subseteq Launchers /\ picked \subseteq Launchers
  BY DEF Inv, Others
<1>3. Settled'
  <2> SUFFICES ASSUME NEW v \in settled' PROVE Is(v, "run", 9 .. 11)' \/ Is(v, "debug", 17 .. 22)'
      BY DEF Settled
  <2>1. v \in Launchers /\ (call[v].kind = "run" \/ call[v].kind = "debug")
    BY <1>1, <1>2 DEF Books, Settled, Is
  <2> QED
    BY <2>1, DownPlaces DEF Is
<1>4. Booked'
  <2> SUFFICES ASSUME NEW v \in Launchers, Lists(v)'
               PROVE  /\ ~Is(v, "run", {8})' /\ ~Is(v, "debug", {16})'
                      /\ v \in settled' => v \in file'
      BY <1>1 DEF Booked
  <2>1. Lists(v)
    BY <1>1, <1>2, DownPlaces DEF Lists
  <2>2. ~Is(v, "run", {8})' /\ ~Is(v, "debug", {16})'
    BY DownPlaces DEF Is
  <2> QED
    BY <1>1, <2>1, <2>2 DEF Books, Booked
<1> QED
  BY <1>3, <1>4 DEF Books

LEMMA NextBooks == ASSUME Inv, Inv', Chosen, Generations, Books, [Next]_vars PROVE Books'
<1>1. ASSUME NEW c \in Calls, Task(c) \/ (c \in Launchers /\ Talk(c)) PROVE Books'
  BY <1>1, TaskCourse, TaskKeeps, SettledStep, BookedStep DEF Books
<1>2. ASSUME NEW c \in Calls, NEW i \in Ids, NEW k, Start(c, k, i) PROVE Books'
  BY <1>2, StartBooks
<1>3. CASE \/ \E c \in Launchers : Exit(c) \/ ExitBuild(c) \/ KillOrphan(c)
           \/ Restart
           \/ UNCHANGED vars
  BY <1>3, EnvironmentBooks
<1>4. CASE Crash \/ Quit
  BY <1>4, GoDownBooks DEF Crash, Quit
<1> QED
  BY <1>1, <1>2, <1>3, <1>4 DEF Next, Calls

\* Across any number of crashes and restarts, a process that has once been written to
\* running.json and that nobody has set out to kill is listed there, so the next start
\* can offer it (running/store.rs 72-108, 178-190); with the exemptions of the property:
\* a configuration whose launches raced, an adapter that replaced a run.
THEOREM RunningStaysListed == Spec => []ListedWhileRunning
<1>1. Init => Inv /\ Chosen /\ Generations /\ Books
  <2>1. Init => Books
    BY DEF Init, Books, Settled, Booked, Lists, Alive
  <2> QED
    BY <2>1, InitInv, InitGenerations
<1>2. /\ Inv /\ Chosen /\ Generations /\ Books /\ [Next]_vars
      => (Inv /\ Chosen /\ Generations /\ Books)'
  BY NextInv, ChosenStep, NextGenerations, NextBooks
<1>3. Inv /\ Books => ListedWhileRunning
  <2> SUFFICES ASSUME Inv, Books, NEW c \in settled, Lists(c) PROVE c \in file
      BY DEF ListedWhileRunning, Lists, Alive, Kind
  <2> QED
    BY DEF Books, Booked, Inv, Others
<1> QED
  BY <1>1, <1>2, <1>3, PTL DEF Spec

-----------------------------------------------------------------------------
(* What a state of rest leaves behind                                      *)

\* A launch whose process was started and is not reaped has one: it runs, is about to be
\* killed, or has exited.
Attended ==
    \A c \in Launchers :
        Is(c, "run", 6 .. 9) \/ Is(c, "debug", 12 .. 20) => proc[c] \in {"alive", "doomed", "exited"}

\* A run that has entered the supervisor's map is not replaced before it is recorded.
Inside == \A c \in Launchers : call[c].id \notin raced /\ Is(c, "run", 7 .. 8) => running[call[c].id] = c

\* A run that is in the map and not yet recorded.
Inserted(i) == \E c \in Launchers : Is(c, "run", {7}) /\ call[c].id = i

\* A record is of a launch that will still take it out, or is about to be replaced by the
\* record of the run that has taken the launch's place in the map.
Held ==
    \A i \in Ids \ raced : live[i] # None =>
        LET c == live[i] IN
        /\ call[c].id = i /\ call[c].kind \in LaunchKinds
        /\ Is(c, "run", 8 .. 10) \/ Is(c, "debug", 16 .. 21) \/ Inserted(i)
        /\ call[c].kind = "run" /\ running[i] # c => Inserted(i)

Rests == Attended /\ Inside /\ Held

\* What a step of a command does to processes, and who clears a record.
Tends(c) ==
    /\ \A v \in Launchers :
          \/ proc'[v] = proc[v] \/ proc'[v] = "doomed"
          \/ v = c /\ (Spawns(c) \/ Is(c, "run", {9}) \/ Is(c, "debug", {20}))
    /\ Spawns(c) /\ call'[c].at \in {6, 12} => proc'[c] = "alive"
    /\ Is(c, "run", {10}) /\ running[call[c].id] = c => live'[call[c].id] = None
    /\ Is(c, "debug", {21}) => \A i \in Ids : live'[i] # c

\* Where the steps are that end a process or a record.
LEMMA EndPlaces ==
    ASSUME Inv, NEW c \in Calls, NEW s, Step(c, s)
    PROVE  /\ Spawns(c) => s = "spawn"
           /\ Is(c, "run", {9}) => s = "wait"
           /\ Is(c, "run", {10}) => s = "remove"
           /\ Is(c, "debug", {21}) => s = "unrecord"
           /\ c \in Launchers => /\ s = "spawn" => Spawns(c)
                                 /\ s = "wait" => Is(c, "run", {9})
                                 /\ s = "reap" => Is(c, "debug", {20})
<1>1. CASE c \in Launchers
  <2>1. PICK p \in Nat : p = call[c].at
    BY <1>1, LaunchAt
  <2>2. CASE call[c].kind = "run" /\ p \in 1 .. 10 /\ RunPlace(s, p)
    BY <1>1, <2>1, <2>2 DEF RunPlace, Spawns, Is
  <2>3. CASE call[c].kind = "debug" /\ p \in 1 .. 21 /\ DebugPlace(s, p)
    <3>1. s # "wait" /\ s # "remove"
      BY <1>1, <2>1, <2>3, StepOf DEF Is
    <3> QED
      BY <1>1, <2>1, <2>3, <3>1 DEF DebugPlace, Spawns, Is
  <2> QED
    BY <1>1, <2>1, <2>2, <2>3, LaunchAt
<1>2. CASE c \notin Launchers
  BY <1>2 DEF Spawns, Is, Inv, Placed, LaunchKinds
<1> QED
  BY <1>1, <1>2

LEMMA IdleTends ==
    ASSUME Inv, NEW c \in Calls, NEW s, Step(c, s), s \notin {"spawn", "remove", "unrecord"},
           \A v \in Launchers : \/ proc'[v] = proc[v] \/ proc'[v] = "doomed"
                                \/ v = c /\ s \in {"wait", "reap"}
    PROVE  Tends(c)
<1>1. ~Spawns(c) /\ ~Is(c, "run", {10}) /\ ~Is(c, "debug", {21})
  BY EndPlaces
<1>2. \A v \in Launchers : v = c /\ s \in {"wait", "reap"} => Is(c, "run", {9}) \/ Is(c, "debug", {20})
  BY EndPlaces
<1> QED
  BY <1>1, <1>2 DEF Tends

LEMMA SignalTends ==
    ASSUME Inv, NEW x, proc' = Signal(proc, x)
    PROVE  \A v \in Launchers : proc'[v] = proc[v] \/ proc'[v] = "doomed"
BY DEF Signal, Inv, Others

LEMMA SpawnTends ==
    ASSUME Inv, NEW c \in Launchers, Spawn(c)
    PROVE  Tends(c)
<1>1. c \in Calls /\ Step(c, "spawn")
  BY DEF Spawn, Calls
<1>2. Spawns(c) /\ ~Is(c, "run", {10}) /\ ~Is(c, "debug", {21})
  BY <1>1, EndPlaces
<1>3. CASE proc' = [proc EXCEPT ![c] = "alive"]
  <2>1. \A v \in Launchers : proc'[v] = IF v = c THEN "alive" ELSE proc[v]
    BY <1>3 DEF Inv, Others
  <2> QED
    BY <1>2, <2>1 DEF Tends
<1>4. CASE GiveUp(c) /\ UNCHANGED proc
  <2>1. /\ Busy(c) /\ call[c].at \in 1 .. End(call[c].kind) - 1 /\ call[c].kind \in {"run", "debug"}
    BY <1>1, <1>2, StepAt DEF Spawns, Is
  <2>2. End(call[c].kind) \in {11, 22}
    BY <2>1, Ends
  <2>3. End(call[c].kind) \in call[c].at + 1 .. End(call[c].kind)
    BY <2>1, <2>2
  <2>4. Moved(c, End(call[c].kind), None)
    BY <1>1, <1>4, <2>1, <2>3, Movement DEF GiveUp, Inv
  <2>5. call'[c].at = End(call[c].kind)
    BY <2>4 DEF Moved
  <2>6. call'[c].at \notin {6, 12}
    BY <2>2, <2>5
  <2> QED
    BY <1>2, <1>4, <2>6 DEF Tends
<1> QED
  BY <1>3, <1>4 DEF Spawn

LEMMA TaskTends ==
    ASSUME Inv, NEW c \in Calls, Task(c) \/ (c \in Launchers /\ Talk(c))
    PROVE  Tends(c)
<1>1. CASE \/ Find(c) \/ FindBuild(c) \/ Drop(c) \/ KillBuild(c)
           \/ c \in Launchers /\
                (\/ SpawnBuild(c) \/ Insert(c) \/ InsertBuild(c) \/ Enter(c) \/ Record(c)
                 \/ Persist(c) \/ WaitBuild(c) \/ RemoveBuild(c) \/ Finish(c) \/ Talk(c))
  <2>1. UNCHANGED proc
    BY <1>1 DEF Find, FindBuild, Drop, KillBuild, SpawnBuild, Insert, InsertBuild, Enter, Record, Persist,
                WaitBuild, RemoveBuild, Finish, Talk, processes
  <2>2. PICK s \in {"find", "findBuild", "drop", "killBuild", "spawnBuild", "insert", "insertBuild",
                    "enter", "record", "persist", "waitBuild", "removeBuild", "finish", "talk"} : Step(c, s)
    BY <1>1 DEF Find, FindBuild, Drop, KillBuild, SpawnBuild, Insert, InsertBuild, Enter, Record, Persist,
                WaitBuild, RemoveBuild, Finish, Talk
  <2> QED
    BY <2>1, <2>2, IdleTends
<1>2. CASE Kill(c) \/ (c \in Launchers /\ StopSelf(c))
  <2>1. \A v \in Launchers : proc'[v] = proc[v] \/ proc'[v] = "doomed"
    BY <1>2, SignalTends DEF Kill, StopSelf
  <2>2. PICK s \in {"kill", "stop"} : Step(c, s)
    BY <1>2 DEF Kill, StopSelf
  <2> QED
    BY <2>1, <2>2, IdleTends
<1>3. CASE c \in Launchers /\ (Wait(c) \/ Reap(c))
  <2>1. \A v \in Launchers : v # c => proc'[v] = proc[v]
    BY <1>3 DEF Wait, Reap, Inv, Others
  <2>2. PICK s \in {"wait", "reap"} : Step(c, s)
    BY <1>3 DEF Wait, Reap
  <2> QED
    BY <2>1, <2>2, IdleTends
<1>4. CASE c \in Launchers /\ (Remove(c) \/ Unrecord(c))
  <2>1. /\ UNCHANGED proc /\ ~Spawns(c) /\ call[c].id \in Ids /\ c # None
        /\ live \in [Ids -> Launchers \cup {None}]
    BY <1>4, EndPlaces, StepAt, NamesAssumption DEF Remove, Unrecord, processes, Inv, Others
  <2>2. CASE Remove(c)
    <3>1. ~Is(c, "debug", {21})
      BY <1>4, <2>2, EndPlaces DEF Remove
    <3>2. running[call[c].id] = c => live'[call[c].id] = None
      BY <2>1, <2>2 DEF Remove
    <3> QED
      BY <2>1, <3>1, <3>2 DEF Tends
  <2>3. CASE Unrecord(c)
    <3>1. ~Is(c, "run", {10})
      BY <1>4, <2>3, EndPlaces DEF Unrecord
    <3>2. \A i \in Ids : live'[i] # c
      BY <2>1, <2>3 DEF Unrecord
    <3> QED
      BY <2>1, <3>1, <3>2 DEF Tends
  <2> QED
    BY <1>4, <2>2, <2>3
<1>5. CASE c \in Launchers /\ Spawn(c)
  BY <1>5, SpawnTends
<1> QED
  BY <1>1, <1>2, <1>3, <1>4, <1>5 DEF Task

LEMMA AttendedStep ==
    ASSUME Inv, Rests, NEW c \in Calls, NEW n, Course(c, n), Tends(c)
    PROVE  Attended'
<1> SUFFICES ASSUME NEW v \in Launchers, Is(v, "run", 6 .. 9)' \/ Is(v, "debug", 12 .. 20)'
             PROVE  proc'[v] \in {"alive", "doomed", "exited"}
    BY DEF Attended
<1>1. CASE v # c
  <2>1. call'[v] = call[v]
    BY <1>1, Advance DEF Course
  <2>2. proc[v] \in {"alive", "doomed", "exited"}
    BY <2>1 DEF Rests, Attended, Is
  <2> QED
    BY <1>1, <2>2 DEF Tends
<1>2. CASE v = c
  <2>1. Leads(v, n) /\ call'[v].kind = call[v].kind
    BY <1>2, Advance DEF Course
  <2>2. PICK p \in Nat : p = call[v].at
    BY IsPlace
  <2>3. CASE Spawns(c)
    <3>1. call'[v].at \in {6, 12}
      BY <1>2, <2>1, <2>2, <2>3 DEF Spawns, Leads, Is
    <3> QED
      BY <1>2, <2>3, <3>1 DEF Tends
  <2>4. CASE ~Spawns(c)
    <3>1. Is(v, "run", 6 .. 8) \/ Is(v, "debug", 12 .. 19)
      BY <1>2, <2>1, <2>2, <2>4 DEF Spawns, Leads, Is
    <3>2. proc[v] \in {"alive", "doomed", "exited"} /\ ~Is(v, "run", {9}) /\ ~Is(v, "debug", {20})
      BY <3>1 DEF Rests, Attended, Is
    <3> QED
      BY <1>2, <2>4, <3>2 DEF Tends
  <2> QED
    BY <2>3, <2>4
<1> QED
  BY <1>1, <1>2

LEMMA InsideStep ==
    ASSUME Inv, Generations, Rests, NEW c \in Calls, NEW n, Course(c, n)
    PROVE  Inside'
<1> SUFFICES ASSUME NEW v \in Launchers, call'[v].id \notin raced', Is(v, "run", 7 .. 8)'
             PROVE  running'[call'[v].id] = v
    BY DEF Inside
<1>1. /\ call'[v].id = call[v].id /\ call'[v].kind = call[v].kind /\ raced' = raced
      /\ v # c => call'[v] = call[v]
      /\ v = c => Leads(v, n)
  BY Advance DEF Course, Path
<1>2. call[v].kind = "run" /\ call[v].id \in Ids
  BY <1>1, IsPlace DEF Is, Inv, Placed, Kinds, LaunchKinds
<1>3. PICK p \in Nat : p = call[v].at
  BY IsPlace
<1>4. CASE v = c /\ p = 6
  BY <1>1, <1>2, <1>3, <1>4 DEF Course, Enters, Is
<1>5. CASE ~(v = c /\ p = 6)
  <2>1. Is(v, "run", 7 .. 8)
    BY <1>1, <1>2, <1>3, <1>5 DEF Leads, Is
  <2>2. running[call[v].id] = v
    BY <1>1, <2>1 DEF Rests, Inside
  <2>3. CASE running[call[v].id] = c /\ Is(c, "run", {10})
    BY <1>3, <2>1, <2>2, <2>3 DEF Is
  <2>4. CASE running'[call[v].id] = c /\ Is(c, "run", {6}) /\ call[v].id = call[c].id
    <3>1. CASE v = c
      BY <1>3, <2>1, <2>4, <3>1 DEF Is
    <3>2. CASE v # c
      <4>1. c \in Launchers
        BY <2>4 DEF Is, Inv, Placed, LaunchKinds
      <4>2. Rivals(c, v) /\ Young(c) /\ Young(v)
        BY <1>1, <2>1, <2>4, <3>2 DEF Rivals, Young, Is
      <4> QED
        BY <4>1, <4>2 DEF Generations, Alone
    <3> QED
      BY <3>1, <3>2
  <2> QED
    BY <1>1, <1>2, <2>2, <2>3, <2>4 DEF Course, Enters
<1> QED
  BY <1>4, <1>5

LEMMA HeldStep ==
    ASSUME Inv, Inv', Generations, Rests, Inside', NEW c \in Calls, NEW n, Course(c, n), Keeps(c), Tends(c)
    PROVE  Held'
<1> SUFFICES ASSUME NEW i \in Ids, i \notin raced', live'[i] # None, NEW w, w = live'[i]
             PROVE  /\ call'[w].id = i /\ call'[w].kind \in LaunchKinds
                    /\ Is(w, "run", 8 .. 10)' \/ Is(w, "debug", 16 .. 21)' \/ Inserted(i)'
                    /\ call'[w].kind = "run" /\ running'[i] # w => Inserted(i)'
    BY DEF Held
<1>1. w \in Launchers /\ i \notin raced
  BY DEF Inv, Others, Course, Path
<1>2. /\ w \in Calls /\ call'[w].id = call[w].id /\ call'[w].kind = call[w].kind
      /\ w # c => call'[w] = call[w]
      /\ w = c => Leads(w, n)
  BY <1>1, Advance, IsPlace DEF Course
<1>3. PICK p \in Nat : p = call[w].at
  BY <1>1, IsPlace
<1>4. CASE Recording(c) /\ call[c].id = i
  <2>1. w = c
    BY <1>4 DEF Keeps
  <2>2. Is(w, "run", {8})' \/ Is(w, "debug", {16})'
    BY <1>2, <1>3, <1>4, <2>1 DEF Recording, Leads, Is
  <2>3. call'[w].kind = "run" => running'[i] = w
    BY <1>1, <1>2, <1>4, <2>1, <2>2 DEF Inside, Is
  <2> QED
    BY <1>2, <1>4, <2>1, <2>2, <2>3 DEF Is, LaunchKinds
<1>5. CASE ~(Recording(c) /\ call[c].id = i)
  <2>1. live[i] = w
    BY <1>5 DEF Keeps
  <2>2. /\ call[w].id = i /\ call[w].kind \in LaunchKinds
        /\ Is(w, "run", 8 .. 10) \/ Is(w, "debug", 16 .. 21) \/ Inserted(i)
        /\ call[w].kind = "run" /\ running[i] # w => Inserted(i)
    BY <1>1, <2>1 DEF Rests, Held
  <2>3. Inserted(i) => Inserted(i)'
    <3> SUFFICES ASSUME NEW d \in Launchers, Is(d, "run", {7}), call[d].id = i PROVE Inserted(i)'
        BY DEF Inserted
    <3>1. d # c
      BY <1>5 DEF Recording
    <3>2. call'[d] = call[d]
      BY <3>1, Advance DEF Course
    <3> QED
      BY <3>2 DEF Inserted, Is
  <2>4. ASSUME w = c, Is(w, "run", {10}) PROVE Inserted(i)
    <3>1. running[i] # w
      BY <1>2, <2>2, <2>4 DEF Tends
    <3> QED
      BY <2>2, <2>4, <3>1 DEF Is
  <2>5. w = c => ~Is(w, "debug", {21})
    BY DEF Tends
  <2>6. Is(w, "run", 8 .. 10)' \/ Is(w, "debug", 16 .. 21)' \/ Inserted(i)'
    <3>1. CASE w # c
      BY <1>2, <2>2, <2>3, <3>1 DEF Is
    <3>2. CASE w = c
      <4>1. CASE Is(w, "run", 8 .. 10)
        BY <1>2, <1>3, <2>3, <2>4, <3>2, <4>1 DEF Leads, Is
      <4>2. CASE Is(w, "debug", 16 .. 21)
        BY <1>2, <1>3, <2>5, <3>2, <4>2 DEF Leads, Is
      <4> QED
        BY <2>2, <2>3, <4>1, <4>2
    <3> QED
      BY <3>1, <3>2
  <2>7. ASSUME call'[w].kind = "run", running'[i] # w PROVE Inserted(i)'
    <3>1. CASE running[i] # w
      BY <1>2, <2>2, <2>3, <2>7, <3>1
    <3>2. CASE running[i] = c /\ Is(c, "run", {10})
      BY <2>2, <2>3, <2>4, <3>1, <3>2
    <3>3. CASE running'[i] = c /\ Is(c, "run", {6}) /\ i = call[c].id
      <4>1. c \in Launchers
        BY <3>3 DEF Is, Inv, Placed, LaunchKinds
      <4>2. PICK q \in Nat : q = call[c].at
        BY <4>1, IsPlace
      <4>3. Leads(c, n)
        BY <4>1, Advance DEF Course
      <4>4. Is(c, "run", {7})' /\ call'[c].id = i
        BY <3>3, <4>2, <4>3 DEF Leads, Is
      <4> QED
        BY <4>1, <4>4 DEF Inserted
    <3> QED
      BY <2>7, <3>1, <3>2, <3>3 DEF Course, Enters
  <2> QED
    BY <1>2, <2>2, <2>6, <2>7
<1> QED
  BY <1>4, <1>5

LEMMA StartRests ==
    ASSUME Inv, Rests, NEW c \in Calls, NEW i \in Ids, NEW k, Start(c, k, i)
    PROVE  Rests'
<1>1. /\ call[c].kind = "none" /\ UNCHANGED <<proc, live, running>> /\ raced \subseteq raced'
  BY DEF Start, Idle, processes, store, tables
<1>2. /\ call'[c].at = 1 /\ \A d \in Calls : d # c => call'[d] = call[d]
  BY DEF Start, Inv, Placed
<1>3. Launchers \subseteq Calls
  BY DEF Calls
<1>4. Attended'
  BY <1>1, <1>2, <1>3 DEF Rests, Attended, Is
<1>5. Inside'
  BY <1>1, <1>2, <1>3 DEF Rests, Inside, Is
<1>6. \A j \in Ids : Inserted(j) => Inserted(j)'
  <2> SUFFICES ASSUME NEW j \in Ids, NEW d \in Launchers, Is(d, "run", {7}), call[d].id = j
               PROVE  Inserted(j)'
      BY DEF Inserted
  <2>1. call'[d] = call[d]
    BY <1>1, <1>2, <1>3 DEF Is
  <2> QED
    BY <2>1 DEF Inserted, Is
<1>7. ASSUME NEW j \in Ids, j \notin raced', live'[j] # None, NEW w, w = live'[j]
      PROVE  /\ call'[w].id = j /\ call'[w].kind \in LaunchKinds
             /\ Is(w, "run", 8 .. 10)' \/ Is(w, "debug", 16 .. 21)' \/ Inserted(j)'
             /\ call'[w].kind = "run" /\ running'[j] # w => Inserted(j)'
  <2>1. w \in Launchers /\ w = live[j] /\ live[j] # None /\ j \in Ids \ raced
    BY <1>1, <1>7 DEF Inv, Others
  <2>2. /\ call[w].id = j /\ call[w].kind \in LaunchKinds
        /\ Is(w, "run", 8 .. 10) \/ Is(w, "debug", 16 .. 21) \/ Inserted(j)
        /\ call[w].kind = "run" /\ running[j] # w => Inserted(j)
    BY <2>1 DEF Rests, Held
  <2>3. call'[w] = call[w]
    BY <1>1, <1>2, <1>3, <2>1, <2>2 DEF LaunchKinds
  <2> QED
    BY <1>1, <1>6, <2>2, <2>3 DEF Is
<1>8. Held'
  BY <1>7 DEF Held
<1> QED
  BY <1>4, <1>5, <1>8 DEF Rests

LEMMA EnvironmentRests ==
    ASSUME Inv, Rests,
           \/ \E c \in Launchers : Exit(c) \/ ExitBuild(c) \/ KillOrphan(c)
           \/ Restart
           \/ UNCHANGED vars
    PROVE  Rests'
<1>1. UNCHANGED <<call, live, running, raced>>
  BY DEF Exit, ExitBuild, KillOrphan, Restart, vars, tables, history, store
<1>2. \A v \in Launchers : proc'[v] = proc[v] \/ proc'[v] \in {"doomed", "exited"}
  BY SignalTends DEF Exit, ExitBuild, KillOrphan, Restart, vars, processes, Inv, Others
<1>3. Attended'
  BY <1>1, <1>2 DEF Rests, Attended, Is
<1>4. Inside' /\ Held'
  BY <1>1 DEF Rests, Inside, Held, Inserted, Is
<1> QED
  BY <1>3, <1>4 DEF Rests

LEMMA GoDownRests ==
    ASSUME Inv, NEW swept, GoDown(swept)
    PROVE  Rests'
<1>1. Attended' /\ Inside'
  BY DownPlaces DEF Attended, Inside, Is
<1>2. Held'
  BY DEF GoDown, Held
<1> QED
  BY <1>1, <1>2 DEF Rests

LEMMA NextRests == ASSUME Inv, Inv', Chosen, Generations, Rests, [Next]_vars PROVE Rests'
<1>1. ASSUME NEW c \in Calls, Task(c) \/ (c \in Launchers /\ Talk(c)) PROVE Rests'
  <2>1. PICK n : Course(c, n)
    BY <1>1, TaskCourse
  <2>2. Keeps(c) /\ Tends(c)
    BY <1>1, TaskKeeps, TaskTends
  <2>3. Attended' /\ Inside'
    BY <2>1, <2>2, AttendedStep, InsideStep
  <2>4. Held'
    BY <2>1, <2>2, <2>3, HeldStep
  <2> QED
    BY <2>3, <2>4 DEF Rests
<1>2. ASSUME NEW c \in Calls, NEW i \in Ids, NEW k, Start(c, k, i) PROVE Rests'
  BY <1>2, StartRests
<1>3. CASE \/ \E c \in Launchers : Exit(c) \/ ExitBuild(c) \/ KillOrphan(c)
           \/ Restart
           \/ UNCHANGED vars
  BY <1>3, EnvironmentRests
<1>4. CASE Crash \/ Quit
  BY <1>4, GoDownRests DEF Crash, Quit
<1> QED
  BY <1>1, <1>2, <1>3, <1>4 DEF Next, Calls

\* Where a launch waits, and for what.
LEMMA AwaitsAt ==
    ASSUME Inv, Rests, AtRest, NEW c \in Launchers, Busy(c), Is(c, "run", 7 .. 11) \/ Is(c, "debug", 15 .. 22)
    PROVE  /\ Is(c, "run", {9}) \/ Is(c, "debug", {17, 20})
           /\ proc[c] = "alive"
<1>1. Awaits(c) /\ proc[c] # "doomed"
  BY DEF AtRest, Calls
<1>2. PICK p \in Nat : p = call[c].at
  BY IsPlace
<1>3. PICK s \in {"wait", "talk", "reap", "waitBuild"} :
          Step(c, s) /\ (s \in {"wait", "talk", "reap"} => proc[c] # "exited")
  BY <1>1 DEF Awaits
<1>4. (Is(c, "run", {9}) \/ Is(c, "debug", {17, 20})) /\ s # "waitBuild"
  <2>1. CASE call[c].kind = "run" /\ p \in 1 .. 10 /\ RunPlace(s, p)
    BY <1>2, <1>3, <2>1 DEF RunPlace, Is
  <2>2. CASE call[c].kind = "debug" /\ p \in 1 .. 21 /\ DebugPlace(s, p)
    BY <1>2, <1>3, <2>2 DEF DebugPlace, Is
  <2> QED
    BY <1>2, <1>3, <2>1, <2>2, LaunchAt
<1>5. proc[c] \in {"alive", "doomed", "exited"}
  BY <1>4 DEF Rests, Attended, Is
<1> QED
  BY <1>1, <1>3, <1>4, <1>5

\* Stops take effect and leave nothing behind: whenever nothing is left that happens by
\* itself, whatever launches, stops, ends, crashes and restarts came before and in whatever
\* order, every launch that somebody set out to kill is over, and no record in the Running
\* panel is of a process that is gone; configurations whose launches raced are exempt from
\* the second part (process/mod.rs 286-298 and 334-346, debug.rs 728-770,
\* running/store.rs 135-176).
THEOREM StopsTakeEffect == Spec => []RestLeavesNothingBehind
<1>1. Init => Inv /\ Chosen /\ Generations /\ Books /\ Rests
  <2>1. Init => Books
    BY DEF Init, Books, Settled, Booked, Lists, Alive
  <2>2. Init => Rests
    <3> SUFFICES ASSUME Init PROVE Rests
        OBVIOUS
    <3>1. \A c \in Launchers : call[c].kind = "none"
      BY DEF Init, Idle, Calls
    <3>2. \A i \in Ids : live[i] = None
      BY DEF Init
    <3> QED
      BY <3>1, <3>2 DEF Rests, Attended, Inside, Held, Is
  <2> QED
    BY <2>1, <2>2, InitInv, InitGenerations
<1>2. /\ Inv /\ Chosen /\ Generations /\ Books /\ Rests /\ [Next]_vars
      => (Inv /\ Chosen /\ Generations /\ Books /\ Rests)'
  BY NextInv, ChosenStep, NextGenerations, NextBooks, NextRests
<1>3. ASSUME Inv, Generations, Rests PROVE RestLeavesNothingBehind
  <2> SUFFICES ASSUME up, AtRest
               PROVE  /\ \A c \in picked : ~Busy(c)
                      /\ \A i \in Ids \ raced : live[i] # None => proc[live[i]] \in Running
      BY DEF RestLeavesNothingBehind
  <2>1. \A d \in Calls : ~AtKill(d)
    <3> SUFFICES ASSUME NEW d \in Calls, AtKill(d) PROVE FALSE
        OBVIOUS
    <3>1. d \in Launchers /\ Awaits(d)
      BY DEF AtRest, AtKill
    <3> QED
      BY <3>1 DEF Awaits, Step, AtKill
  <2>2. ASSUME NEW c \in picked, Busy(c) PROVE FALSE
    <3>1. c \in Launchers /\ (Is(c, "run", 7 .. 11) \/ Is(c, "debug", 15 .. 22))
      BY <1>3, <2>2 DEF Generations, Picked, Inv, Others
    <3>2. Alive(c) /\ ~Is(c, "debug", {19})
      BY <1>3, <2>2, <3>1, AwaitsAt DEF Alive, Is
    <3> QED
      BY <1>3, <2>1, <2>2, <3>2 DEF Generations, Hunted
  <2>3. ASSUME NEW d \in Launchers, Is(d, "run", {7}) PROVE FALSE
    <3>1. Busy(d) /\ Is(d, "run", 7 .. 11)
      BY <2>3, Ends DEF Is, Busy, Kinds, LaunchKinds
    <3> QED
      BY <1>3, <2>3, <3>1, AwaitsAt DEF Is
  <2>4. ASSUME NEW i \in Ids \ raced, live[i] # None PROVE proc[live[i]] \in Running
    <3>1. PICK c \in Launchers : c = live[i]
      BY <1>3, <2>4 DEF Inv, Others
    <3>2. Is(c, "run", 8 .. 10) \/ Is(c, "debug", 16 .. 21)
      BY <1>3, <2>3, <2>4, <3>1 DEF Rests, Held, Inserted
    <3>3. Busy(c) /\ (Is(c, "run", 7 .. 11) \/ Is(c, "debug", 15 .. 22))
      BY <3>2, Ends DEF Is, Busy, Kinds, LaunchKinds
    <3> QED
      BY <1>3, <3>1, <3>3, AwaitsAt DEF Running
  <2> QED
    BY <2>2, <2>4
<1> QED
  BY <1>1, <1>2, <1>3, PTL DEF Spec
=============================================================================
