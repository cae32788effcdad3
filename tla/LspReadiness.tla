---------------------------- MODULE LspReadiness ----------------------------
(***************************************************************************)
(* When a language server's answers may be trusted: the readiness watch of *)
(* crates/core/src/lsp/client.rs and the sticky signal of transport.rs.    *)
(*                                                                         *)
(* A server says once that it has loaded the workspace, by ending a piece  *)
(* of work it began under a known title; the end names the work only by    *)
(* its token.  The reader records that message as state and then publishes *)
(* it on a bounded broadcast, the watcher turns either into readiness and  *)
(* gives up waiting at a ceiling, and callers ask their questions of       *)
(* whatever the readiness is.  The matcher is shared by the reader and the *)
(* watcher.  This is Readiness::ProgressTitle, the one stateful kind; in   *)
(* the others one notification is the signal.                              *)
(***************************************************************************)
EXTENDS Naturals, Sequences, FiniteSets

CONSTANTS
    Tokens,      \* the progress tokens the server mints, one for each piece of work
    NoToken,     \* not a token
    MaxTracked,  \* TitledProgress::MAX_TRACKED, 64 in the code
    Buffer       \* NOTIFICATION_BUFFER, 256 in the code

ASSUME TokensAssumption == NoToken \notin Tokens
ASSUME CapsAssumption == MaxTracked \in Nat \ {0} /\ Buffer \in Nat \ {0}

Loading == "Loading"
Ready == "Ready"
Caveat == "ReadyWithCaveat"

Note(k, t) == [kind |-> k, token |-> t]
Notes == {Note(k, t) : k \in {"beginTitled", "beginOther", "end"}, t \in Tokens}
Nothing == Note("none", NoToken)

VARIABLES
    work,      \* the server's work: new, then titled or other, then done
    first,     \* the first titled work it began
    loaded,    \* it has ended titled work: its index is complete
    exited,    \* its process is gone
    death,     \* the transport has published its death
    pipe,      \* notifications written and not read yet
    inHand,    \* the notification the reader has recorded and not published
    reader,    \* the reader runs, or has met EOF
    watching,  \* TitledProgress: tokens whose begin matched
    seen,      \* the sticky signal
    ring,      \* the broadcast, as far as the watcher has not read it
    watcher,   \* not spawned yet, running or ended
    caveated,  \* the watcher's ceiling has fired
    ready,     \* the readiness it has published
    held,      \* the Client exists
    asker,     \* how far one caller is
    note,      \* the readiness it read before it asked
    partial    \* the server answered it before it had loaded

serverVars == <<work, first, loaded, exited, death>>
readerVars == <<pipe, inHand, reader, watching, seen>>
watcherVars == <<watcher, caveated, ready>>
askerVars == <<held, asker, note, partial>>
vars == <<serverVars, readerVars, ring, watcherVars, askerVars>>

Init ==
    /\ work = [t \in Tokens |-> "new"]
    /\ first = NoToken
    /\ loaded = FALSE
    /\ exited = FALSE
    /\ death = FALSE
    /\ pipe = <<>>
    /\ inHand = Nothing
    /\ reader = "run"
    /\ watching = {}
    /\ seen = FALSE
    /\ ring = <<>>
    /\ watcher = "unborn"
    /\ caveated = FALSE
    /\ ready = Loading
    /\ held = TRUE
    /\ asker = "idle"
    /\ note = Loading
    /\ partial = FALSE

-----------------------------------------------------------------------------
(* The server, and the death of its process                                *)

Writes(n) == ~exited /\ pipe' = Append(pipe, n)

ServerBegins(t, kind) ==
    /\ work[t] = "new"
    /\ Writes(Note(kind, t))
    /\ work' = [work EXCEPT ![t] = kind]
    /\ first' = IF kind = "beginTitled" /\ first = NoToken THEN t ELSE first
    /\ UNCHANGED <<loaded, exited, death, inHand, reader, watching, seen, ring, watcherVars,
                   askerVars>>

ServerEnds(t) ==
    /\ work[t] \in {"beginTitled", "beginOther"}
    /\ Writes(Note("end", t))
    /\ work' = [work EXCEPT ![t] = "done"]
    /\ loaded' = (loaded \/ work[t] = "beginTitled")
    /\ UNCHANGED <<first, exited, death, inHand, reader, watching, seen, ring, watcherVars,
                   askerVars>>

ServerExits ==
    /\ ~exited
    /\ exited' = TRUE
    /\ UNCHANGED <<work, first, loaded, death, readerVars, ring, watcherVars, askerVars>>

\* The reaper publishes the death; frames already in the pipe are still read.
ReaperPublishes ==
    /\ exited /\ ~death
    /\ death' = TRUE
    /\ UNCHANGED <<work, first, loaded, exited, readerVars, ring, watcherVars, askerVars>>

-----------------------------------------------------------------------------
(* The matcher and the reader                                              *)

\* TitledProgress::matches: a begin is remembered while there is room, never the signal itself.
Remembers(n) ==
    IF n.kind = "beginTitled" /\ Cardinality(watching) < MaxTracked
    THEN watching \cup {n.token} ELSE watching

\* Mutated: any end is the signal.
MatchesAnyEnd(n) == n.kind = "end"
Matches(n) == n.kind = "end" /\ n.token \in watching

\* Mutated: the signal is left to the live stream.
ReaderForgets ==
    /\ reader = "run" /\ inHand = Nothing /\ pipe # <<>>
    /\ watching' = Remembers(Head(pipe))
    /\ inHand' = Head(pipe)
    /\ pipe' = Tail(pipe)
    /\ UNCHANGED <<reader, seen, serverVars, ring, watcherVars, askerVars>>

\* SignalSink::record, before the notification is published.
ReaderRecords ==
    /\ reader = "run" /\ inHand = Nothing /\ pipe # <<>>
    /\ seen' = (seen \/ Matches(Head(pipe)))
    /\ watching' = Remembers(Head(pipe))
    /\ inHand' = Head(pipe)
    /\ pipe' = Tail(pipe)
    /\ UNCHANGED <<reader, serverVars, ring, watcherVars, askerVars>>

\* The broadcast drops its oldest message when its one subscriber lags.
ReaderPublishes ==
    /\ inHand # Nothing
    /\ ring' = IF watcher = "end" THEN <<>>
               ELSE Append(IF Len(ring) = Buffer THEN Tail(ring) ELSE ring, inHand)
    /\ inHand' = Nothing
    /\ UNCHANGED <<pipe, reader, watching, seen, serverVars, watcherVars, askerVars>>

ReaderEof ==
    /\ reader = "run" /\ inHand = Nothing /\ pipe = <<>> /\ exited
    /\ reader' = "end"
    /\ UNCHANGED <<pipe, inHand, watching, seen, serverVars, ring, watcherVars, askerVars>>

-----------------------------------------------------------------------------
(* watch_readiness                                                         *)

\* The handshake is over: the watcher starts, behind a receiver as old as the process.
WatcherStarts ==
    /\ watcher = "unborn" /\ held
    /\ watcher' = "run"
    /\ UNCHANGED <<caveated, ready, serverVars, readerVars, ring, askerVars>>

Promotes == watcher' = "end" /\ ready' = Ready /\ ring' = <<>>
GivesUp == watcher' = "end" /\ ring' = <<>> /\ UNCHANGED ready

WatchSignal ==
    /\ watcher = "run" /\ seen
    /\ Promotes
    /\ UNCHANGED <<caveated, serverVars, readerVars, askerVars>>

\* The live stream goes through the same matcher, which the watcher feeds a second time.
WatchStream ==
    /\ watcher = "run" /\ ring # <<>>
    /\ watching' = Remembers(Head(ring))
    /\ \/ /\ Matches(Head(ring))
          /\ Promotes
       \/ /\ ~Matches(Head(ring))
          /\ ring' = Tail(ring)
          /\ UNCHANGED <<watcher, ready>>
    /\ UNCHANGED <<caveated, serverVars, pipe, inHand, reader, seen, askerVars>>

\* Both senders of the broadcast, the reader's and the Client's, are gone.
WatchClosed ==
    /\ watcher = "run" /\ ring = <<>> /\ ~held /\ reader = "end"
    /\ GivesUp
    /\ UNCHANGED <<caveated, serverVars, readerVars, askerVars>>

\* The ceiling: ready, with a caveat that a later signal withdraws.
WatchCeiling ==
    /\ watcher = "run" /\ ~caveated
    /\ caveated' = TRUE
    /\ ready' = Caveat
    /\ UNCHANGED <<watcher, serverVars, readerVars, ring, askerVars>>

WatchDeath ==
    /\ watcher = "run" /\ death
    /\ GivesUp
    /\ UNCHANGED <<caveated, serverVars, readerVars, askerVars>>

-----------------------------------------------------------------------------
(* One caller: Session::prepare, Client::ask, Client::wait_ready           *)

\* prepare refuses a server that is dead or loading and keeps what it read for the answer.
Prepare ==
    /\ asker = "idle" /\ held /\ watcher # "unborn"
    /\ note' = ready
    /\ asker' = IF death \/ ready = Loading THEN "refused" ELSE "waiting"
    /\ UNCHANGED <<held, partial, serverVars, readerVars, ring, watcherVars>>

\* A batch caller asks a client whose readiness it has not looked at.
AskUnprepared ==
    /\ asker = "idle" /\ held /\ watcher # "unborn"
    /\ asker' = "waiting"
    /\ UNCHANGED <<held, note, partial, serverVars, readerVars, ring, watcherVars>>

\* Mutated: a death does not end the wait.
WaitEndsWhenReady ==
    /\ asker = "waiting" /\ ready # Loading
    /\ asker' = "asked"
    /\ UNCHANGED <<held, note, partial, serverVars, readerVars, ring, watcherVars>>

\* wait_ready returns: readiness or a death lets the request go out.
WaitEnds ==
    /\ asker = "waiting" /\ (ready # Loading \/ death)
    /\ asker' = "asked"
    /\ UNCHANGED <<held, note, partial, serverVars, readerVars, ring, watcherVars>>

\* Its deadline passes: the caller is told StillLoading.
WaitExpires ==
    /\ asker = "waiting" /\ ready = Loading /\ ~death
    /\ asker' = "refused"
    /\ UNCHANGED <<held, note, partial, serverVars, readerVars, ring, watcherVars>>

\* The server answers from what it has loaded, or has died.
ServerAnswers ==
    /\ asker = "asked"
    /\ \/ ~exited /\ asker' = "answering" /\ partial' = ~loaded
       \/ death /\ asker' = "refused" /\ UNCHANGED partial
    /\ UNCHANGED <<held, note, serverVars, readerVars, ring, watcherVars>>

\* Mutated: the readiness is read when the answer is in, not before the question.
AnswerReread ==
    /\ asker = "answering"
    /\ asker' = "answered"
    /\ note' = IF note = Loading THEN note ELSE ready
    /\ UNCHANGED <<held, partial, serverVars, readerVars, ring, watcherVars>>

\* The answer reaches the caller some time after the server gave it.
AnswerArrives ==
    /\ asker = "answering"
    /\ asker' = "answered"
    /\ UNCHANGED <<held, note, partial, serverVars, readerVars, ring, watcherVars>>

\* The session drops the client, which nobody who is asking it still holds.
DropClient ==
    /\ held /\ asker \in {"idle", "refused", "answered"}
    /\ held' = FALSE
    /\ UNCHANGED <<asker, note, partial, serverVars, readerVars, ring, watcherVars>>

-----------------------------------------------------------------------------
Server ==
    \/ \E t \in Tokens : ServerEnds(t) \/ \E k \in {"beginTitled", "beginOther"} : ServerBegins(t, k)
    \/ ServerExits
Reader == ReaderRecords \/ ReaderPublishes \/ ReaderEof
Watcher == WatchSignal \/ WatchStream \/ WatchClosed \/ WatchDeath
Asker == Prepare \/ AskUnprepared \/ WaitExpires \/ ServerAnswers \/ AnswerArrives

Next ==
    \/ Server \/ ReaperPublishes \/ Reader
    \/ WatcherStarts \/ Watcher \/ WatchCeiling
    \/ Asker \/ WaitEnds \/ DropClient

Spec == Init /\ [][Next]_vars

\* The runtime polls the tasks, the ceiling's timer fires, a dropped client's process is killed;
\* nothing is assumed of the server nor of a caller's deadline.
Fairness ==
    /\ WF_vars(ReaperPublishes)
    /\ WF_vars(Reader)
    /\ WF_vars(WatcherStarts)
    /\ WF_vars(Watcher)
    /\ WF_vars(WatchCeiling)
    /\ WF_vars(WaitEnds)
    /\ WF_vars(~held /\ ServerExits)

FairSpec == Spec /\ Fairness

-----------------------------------------------------------------------------
(* Properties                                                              *)

\* The types of the variables; the matcher never tracks more than its cap.
TypeOK ==
    /\ work \in [Tokens -> {"new", "beginTitled", "beginOther", "done"}]
    /\ first \in Tokens \cup {NoToken}
    /\ {loaded, exited, death, seen, caveated, held, partial} \subseteq BOOLEAN
    /\ pipe \in Seq(Notes) /\ ring \in Seq(Notes) /\ Len(ring) <= Buffer
    /\ inHand \in Notes \cup {Nothing}
    /\ reader \in {"run", "end"}
    /\ watching \subseteq Tokens /\ Cardinality(watching) <= MaxTracked
    /\ watcher \in {"unborn", "run", "end"}
    /\ ready \in {Loading, Ready, Caveat} /\ note \in {Loading, Ready, Caveat}
    /\ asker \in {"idle", "waiting", "asked", "answering", "answered", "refused"}

\* A server is promoted without a caveat only after it has loaded the workspace, however the
\* matcher is shared, whatever ends first and whichever begins it had no room to remember.
PromotedOnlyWhenLoaded == ready = Ready => loaded

\* An answer computed before the server had loaded reaches the prepared caller with the caveat,
\* also when the caveat is withdrawn while the question is in flight.
PartialAnswersAreQualified ==
    asker = "answered" /\ partial /\ note # Loading => note = Caveat

\* The end of the work the server began first promotes it, also after the ceiling and when the
\* live stream has dropped it, unless the server dies or is dropped.
SignalIsNeverMissed ==
    (first # NoToken /\ work[first] = "done") ~> (ready = Ready \/ exited \/ ~held)

\* A caller that waits for readiness goes on without the help of its deadline.
WaitersGoOn == asker = "waiting" ~> asker # "waiting"

\* What is said about a server's readiness is not revised once its death is known.
DeathFreezesReadiness == [][death => UNCHANGED ready]_vars

=============================================================================
