------------------------- MODULE LspReadinessProofs -------------------------
(***************************************************************************)
(* The safety of the readiness watch for any progress tokens, any cap of   *)
(* the matcher and any size of the broadcast: whatever is believed about a *)
(* server can be traced back, through the matcher, the broadcast and the   *)
(* pipe, to something the server did.                                      *)
(***************************************************************************)
EXTENDS LspReadiness, SequenceTheorems, FiniteSetTheorems, TLAPS

\* Work under the known title, begun or ended: its end is the signal.
Titled(t) == work[t] = "beginTitled" \/ (work[t] = "done" /\ loaded)

\* A notification says what happened.
True(n) ==
    /\ n.kind = "beginTitled" => Titled(n.token)
    /\ n.kind = "end" => work[n.token] = "done"

\* Everything on its way to the matcher is true, and so is everything the matcher remembers.
TrueOnTheWay ==
    /\ \A i \in 1 .. Len(pipe) : True(pipe[i])
    /\ \A i \in 1 .. Len(ring) : True(ring[i])
    /\ inHand # Nothing => True(inHand)
    /\ \A t \in watching : Titled(t)

\* Nobody believes in a signal that the server did not give.
BelievedWhenLoaded == (seen \/ ready = Ready \/ note = Ready) => loaded

\* Who has a partial answer read the readiness before it was certain.
PartialAnswersWereUncertain == partial => note # Ready /\ asker \in {"answering", "answered"}

Inv == /\ TypeOK /\ IsFiniteSet(watching)
       /\ TrueOnTheWay /\ BelievedWhenLoaded /\ PartialAnswersWereUncertain

-----------------------------------------------------------------------------
(* Sequences of notifications.                                             *)

LEMMA AppendAdds ==
    ASSUME NEW s \in Seq(Notes), NEW n \in Notes
    PROVE  /\ Append(s, n) \in Seq(Notes) /\ Len(Append(s, n)) = Len(s) + 1
           /\ \A i \in 1 .. Len(s) + 1 : Append(s, n)[i] = IF i <= Len(s) THEN s[i] ELSE n
    BY AppendProperties

LEMMA TailDrops ==
    ASSUME NEW s \in Seq(Notes), s # <<>>
    PROVE  /\ Head(s) \in Notes /\ Head(s) = s[1] /\ Len(s) \in Nat /\ Len(s) >= 1
           /\ Tail(s) \in Seq(Notes) /\ Len(Tail(s)) = Len(s) - 1
           /\ \A i \in 1 .. Len(s) - 1 : i + 1 \in 1 .. Len(s) /\ Tail(s)[i] = s[i + 1]
    BY HeadTailProperties, LenProperties

LEMMA EndsAreTheSignal ==
    ASSUME Inv, NEW n \in Notes, True(n), Matches(n)
    PROVE  loaded
    BY DEF Inv, TypeOK, TrueOnTheWay, True, Titled, Matches

\* The matcher only ever adds true begins, and only while there is room.
LEMMA RemembersTruth ==
    ASSUME Inv, NEW n \in Notes, True(n)
    PROVE  /\ IsFiniteSet(Remembers(n)) /\ Remembers(n) \subseteq Tokens
           /\ Cardinality(Remembers(n)) <= MaxTracked
           /\ \A t \in Remembers(n) : Titled(t)
<1>1. n.token \in Tokens
  BY DEF Notes, Note
<1>2. CASE n.kind = "beginTitled" /\ Cardinality(watching) < MaxTracked
  <2>1. Remembers(n) = watching \cup {n.token}
    BY <1>2 DEF Remembers
  <2>2. IsFiniteSet(watching) /\ Cardinality(watching) \in Nat
    BY FS_CardinalityType DEF Inv
  <2>3. /\ IsFiniteSet(watching \cup {n.token})
        /\ Cardinality(watching \cup {n.token}) =
              IF n.token \in watching THEN Cardinality(watching) ELSE Cardinality(watching) + 1
    BY <2>2, FS_AddElement
  <2>4. Cardinality(Remembers(n)) <= MaxTracked
    BY <1>2, <2>1, <2>2, <2>3, CapsAssumption
  <2>5. \A t \in Remembers(n) : t \in Tokens /\ Titled(t)
    BY <1>1, <1>2, <2>1 DEF Inv, TypeOK, TrueOnTheWay, True
  <2> QED
    BY <2>1, <2>3, <2>4, <2>5
<1>3. CASE ~(n.kind = "beginTitled" /\ Cardinality(watching) < MaxTracked)
  BY <1>3 DEF Remembers, Inv, TypeOK, TrueOnTheWay
<1> QED
  BY <1>2, <1>3

-----------------------------------------------------------------------------

LEMMA InitInv == Init => Inv
<1> SUFFICES ASSUME Init PROVE Inv
    OBVIOUS
<1>1. <<>> \in Seq(Notes) /\ Len(<<>>) = 0
  BY EmptySeq
<1>2. IsFiniteSet(watching) /\ Cardinality(watching) = 0
  BY FS_EmptySet DEF Init
<1>3. TypeOK
  <2>1. /\ {loaded, exited, death, seen, caveated, held, partial} \subseteq BOOLEAN
        /\ work \in [Tokens -> {"new", "beginTitled", "beginOther", "done"}]
    BY DEF Init
  <2>2. pipe \in Seq(Notes) /\ ring \in Seq(Notes) /\ Len(ring) <= Buffer
    BY <1>1, CapsAssumption DEF Init
  <2>3. watching \subseteq Tokens /\ Cardinality(watching) <= MaxTracked
    BY <1>2, CapsAssumption DEF Init
  <2>4. ready \in {Loading, Ready, Caveat} /\ note \in {Loading, Ready, Caveat}
    BY DEF Init
  <2> QED
    BY <2>1, <2>2, <2>3, <2>4 DEF Init, TypeOK
<1> QED
  BY <1>1, <1>2, <1>3 DEF Init, Inv, TrueOnTheWay, BelievedWhenLoaded,
                          PartialAnswersWereUncertain, Loading, Ready, Caveat

\* What was true of a piece of work stays true while the server works on.
LEMMA WorkGoesOn ==
    ASSUME Inv, NEW t \in Tokens,
           (\E k \in {"beginTitled", "beginOther"} : ServerBegins(t, k)) \/ ServerEnds(t)
    PROVE  /\ \A u \in Tokens : Titled(u) => Titled(u)'
           /\ \A u \in Tokens : work[u] = "done" => work'[u] = "done"
           /\ loaded => loaded'
<1>1. CASE \E k \in {"beginTitled", "beginOther"} : ServerBegins(t, k)
  BY <1>1 DEF Inv, TypeOK, ServerBegins, Titled
<1>2. CASE ServerEnds(t)
  BY <1>2 DEF Inv, TypeOK, ServerEnds, Titled
<1> QED
  BY <1>1, <1>2

LEMMA ServerWorksInv ==
    ASSUME Inv, NEW t \in Tokens,
           (\E k \in {"beginTitled", "beginOther"} : ServerBegins(t, k)) \/ ServerEnds(t)
    PROVE  Inv'
<1>1. PICK n \in Notes : /\ pipe' = Append(pipe, n) /\ True(n)'
                         /\ work' \in [Tokens -> {"new", "beginTitled", "beginOther", "done"}]
                         /\ first' \in Tokens \cup {NoToken} /\ loaded' \in BOOLEAN
  <2>1. CASE \E k \in {"beginTitled", "beginOther"} : ServerBegins(t, k)
    <3>1. PICK k \in {"beginTitled", "beginOther"} : ServerBegins(t, k)
      BY <2>1
    <3>2. Note(k, t) \in Notes
      BY DEF Notes
    <3> QED
      BY <3>1, <3>2 DEF Inv, TypeOK, ServerBegins, Writes, Note, Notes, True, Titled
  <2>2. CASE ServerEnds(t)
    <3>1. Note("end", t) \in Notes
      BY DEF Notes
    <3> QED
      BY <2>2, <3>1 DEF Inv, TypeOK, ServerEnds, Writes, Note, Notes, True, Titled
  <2> QED
    BY <2>1, <2>2
<1>2. UNCHANGED <<exited, death, inHand, reader, watching, seen, ring, watcherVars, askerVars>>
  BY DEF ServerBegins, ServerEnds
<1>3. /\ pipe \in Seq(Notes) /\ ring \in Seq(Notes) /\ Len(pipe) \in Nat
      /\ \A i \in 1 .. Len(pipe) : pipe[i].token \in Tokens
      /\ \A i \in 1 .. Len(ring) : ring[i].token \in Tokens
      /\ inHand # Nothing => inHand.token \in Tokens
  BY ElementOfSeq, LenProperties DEF Inv, TypeOK, Notes, Note
<1>4. /\ \A u \in Tokens : Titled(u) => Titled(u)'
      /\ \A u \in Tokens : work[u] = "done" => work'[u] = "done"
      /\ loaded => loaded'
  BY WorkGoesOn
<1>5. TypeOK'
  BY <1>1, <1>2, <1>3, AppendAdds DEF Inv, TypeOK, watcherVars, askerVars
<1>6. TrueOnTheWay'
  <2>1. (\A i \in 1 .. Len(pipe) : True(pipe[i]))'
    <3> SUFFICES ASSUME NEW i \in 1 .. Len(pipe') PROVE True(pipe[i])'
      OBVIOUS
    <3>1. Len(pipe') = Len(pipe) + 1 /\ pipe'[i] = IF i <= Len(pipe) THEN pipe[i] ELSE n
      BY <1>1, <1>3, AppendAdds
    <3>2. CASE i <= Len(pipe)
      BY <3>1, <3>2, <1>3, <1>4 DEF Inv, TrueOnTheWay, True, Titled
    <3>3. CASE ~(i <= Len(pipe))
      BY <3>1, <3>3, <1>1 DEF True, Titled
    <3> QED
      BY <3>2, <3>3
  <2>2. (\A i \in 1 .. Len(ring) : True(ring[i]))'
    BY <1>2, <1>3, <1>4 DEF Inv, TrueOnTheWay, True, Titled
  <2>3. (inHand # Nothing => True(inHand))'
    BY <1>2, <1>3, <1>4 DEF Inv, TrueOnTheWay, True, Titled
  <2>4. (\A u \in watching : Titled(u))'
    BY <1>2, <1>4 DEF Inv, TypeOK, TrueOnTheWay, Titled
  <2> QED
    BY <2>1, <2>2, <2>3, <2>4 DEF TrueOnTheWay
<1> QED
  BY <1>2, <1>4, <1>5, <1>6 DEF Inv, BelievedWhenLoaded, PartialAnswersWereUncertain,
                                  watcherVars, askerVars

\* The steps that leave the work, the pipe, the broadcast and the matcher alone.
Apart == UNCHANGED <<work, first, loaded, pipe, inHand, watching, ring>>

LEMMA ApartOnTheWay ==
    ASSUME Inv, Apart
    PROVE  TrueOnTheWay' /\ IsFiniteSet(watching)'
    BY DEF Inv, Apart, TrueOnTheWay, True, Titled

LEMMA ReaderInv ==
    ASSUME Inv, Reader
    PROVE  Inv'
<1>1. CASE ReaderRecords
  <2> DEFINE n == Head(pipe)
  <2>1. /\ n \in Notes /\ n = pipe[1] /\ Len(pipe) \in Nat /\ Len(pipe) >= 1
        /\ Tail(pipe) \in Seq(Notes) /\ Len(Tail(pipe)) = Len(pipe) - 1
        /\ \A i \in 1 .. Len(pipe) - 1 : i + 1 \in 1 .. Len(pipe) /\ Tail(pipe)[i] = pipe[i + 1]
    BY <1>1, TailDrops DEF ReaderRecords, Inv, TypeOK
  <2>2. True(n)
    BY <2>1 DEF Inv, TrueOnTheWay
  <2>3. /\ IsFiniteSet(watching') /\ watching' \subseteq Tokens
        /\ Cardinality(watching') <= MaxTracked
        /\ \A t \in watching' : Titled(t)
    BY <1>1, <2>1, <2>2, RemembersTruth DEF ReaderRecords
  <2>4. UNCHANGED <<reader, serverVars, ring, watcherVars, askerVars>>
        /\ inHand' = n /\ pipe' = Tail(pipe)
    BY <1>1 DEF ReaderRecords
  <2>5. seen' \in BOOLEAN /\ (seen' => loaded)
    BY <1>1, <2>1, <2>2, EndsAreTheSignal DEF ReaderRecords, Inv, TypeOK, BelievedWhenLoaded
  <2>6. TypeOK'
    BY <2>1, <2>3, <2>4, <2>5 DEF Inv, TypeOK, serverVars, watcherVars, askerVars
  <2>7. (\A i \in 1 .. Len(pipe) : True(pipe[i]))'
    BY <2>1, <2>4 DEF Inv, TrueOnTheWay, True, Titled, serverVars
  <2>8. TrueOnTheWay'
    BY <2>2, <2>3, <2>4, <2>7 DEF Inv, TrueOnTheWay, True, Titled, serverVars
  <2> QED
    BY <2>3, <2>4, <2>5, <2>6, <2>8 DEF Inv, BelievedWhenLoaded, PartialAnswersWereUncertain,
                                        serverVars, watcherVars, askerVars
<1>2. CASE ReaderPublishes
  <2> DEFINE kept == IF Len(ring) = Buffer THEN Tail(ring) ELSE ring
  <2>1. inHand \in Notes /\ True(inHand) /\ Len(ring) \in Nat
    BY <1>2, LenProperties DEF ReaderPublishes, Inv, TypeOK, TrueOnTheWay
  <2>2. /\ kept \in Seq(Notes) /\ Len(kept) \in Nat /\ Len(kept) + 1 <= Buffer
        /\ \A i \in 1 .. Len(kept) : True(kept[i])
    <3>1. CASE Len(ring) = Buffer
      BY <3>1, <2>1, TailDrops, EmptySeq, CapsAssumption DEF Inv, TypeOK, TrueOnTheWay
    <3>2. CASE Len(ring) # Buffer
      BY <3>2, <2>1, CapsAssumption DEF Inv, TypeOK, TrueOnTheWay
    <3> QED
      BY <3>1, <3>2
  <2>3. /\ ring' \in Seq(Notes) /\ Len(ring') <= Buffer
        /\ \A i \in 1 .. Len(ring') : True(ring'[i])
    <3>1. CASE ring' = <<>>
      BY <3>1, EmptySeq, CapsAssumption
    <3>2. CASE ring' = Append(kept, inHand)
      BY <3>2, <2>1, <2>2, AppendAdds
    <3> QED
      BY <1>2, <3>1, <3>2 DEF ReaderPublishes
  <2>4. UNCHANGED <<pipe, reader, watching, seen, serverVars, watcherVars, askerVars>>
        /\ inHand' = Nothing
    BY <1>2 DEF ReaderPublishes
  <2>5. TypeOK'
    BY <2>3, <2>4 DEF Inv, TypeOK, serverVars, watcherVars, askerVars
  <2>6. TrueOnTheWay'
    BY <2>3, <2>4 DEF Inv, TrueOnTheWay, True, Titled, serverVars
  <2> QED
    BY <2>4, <2>5, <2>6 DEF Inv, BelievedWhenLoaded, PartialAnswersWereUncertain,
                            serverVars, watcherVars, askerVars
<1>3. CASE ReaderEof
  <2>1. Apart
    BY <1>3 DEF ReaderEof, Apart, serverVars
  <2> QED
    BY <1>3, <2>1, ApartOnTheWay DEF ReaderEof, Inv, TypeOK, BelievedWhenLoaded,
         PartialAnswersWereUncertain, serverVars, watcherVars, askerVars
<1> QED
  BY <1>1, <1>2, <1>3 DEF Reader

LEMMA WatchStreamInv ==
    ASSUME Inv, WatchStream
    PROVE  Inv'
<1> DEFINE n == Head(ring)
<1>1. /\ n \in Notes /\ n = ring[1] /\ Len(ring) \in Nat /\ Len(ring) >= 1
      /\ Tail(ring) \in Seq(Notes) /\ Len(Tail(ring)) = Len(ring) - 1
      /\ \A i \in 1 .. Len(ring) - 1 : i + 1 \in 1 .. Len(ring) /\ Tail(ring)[i] = ring[i + 1]
  BY TailDrops DEF WatchStream, Inv, TypeOK
<1>2. True(n)
  BY <1>1 DEF Inv, TrueOnTheWay
<1>3. /\ IsFiniteSet(watching') /\ watching' \subseteq Tokens
      /\ Cardinality(watching') <= MaxTracked
      /\ \A t \in watching' : Titled(t)
  BY <1>1, <1>2, RemembersTruth DEF WatchStream
<1>4. UNCHANGED <<caveated, serverVars, pipe, inHand, reader, seen, askerVars>>
  BY DEF WatchStream
<1>5. /\ watcher' \in {"run", "end"} /\ ready' \in {ready, Ready} /\ (ready' = Ready => loaded)
      /\ ring' \in {<<>>, Tail(ring)}
  BY <1>1, <1>2, EndsAreTheSignal
     DEF WatchStream, Promotes, Inv, TypeOK, BelievedWhenLoaded
<1>6. /\ ring' \in Seq(Notes) /\ Len(ring') <= Buffer
      /\ \A i \in 1 .. Len(ring') : True(ring'[i])
  <2>1. CASE ring' = <<>>
    BY <2>1, EmptySeq, CapsAssumption
  <2>2. CASE ring' = Tail(ring)
    BY <2>2, <1>1, CapsAssumption DEF Inv, TypeOK, TrueOnTheWay
  <2> QED
    BY <1>5, <2>1, <2>2
<1>7. TypeOK'
  BY <1>3, <1>4, <1>5, <1>6 DEF Inv, TypeOK, serverVars, askerVars
<1>8. TrueOnTheWay'
  BY <1>3, <1>4, <1>6 DEF Inv, TrueOnTheWay, True, Titled, serverVars
<1> QED
  BY <1>3, <1>4, <1>5, <1>7, <1>8 DEF Inv, BelievedWhenLoaded, PartialAnswersWereUncertain,
                                      serverVars, askerVars

\* The other steps of the watcher, which at most empty the broadcast.
LEMMA WatcherInv ==
    ASSUME Inv, WatchSignal \/ WatchClosed \/ WatchDeath \/ WatchCeiling \/ WatcherStarts
    PROVE  Inv'
<1>1. UNCHANGED <<serverVars, readerVars, askerVars>> /\ ring' \in {ring, <<>>}
  BY DEF WatchSignal, WatchClosed, WatchDeath, WatchCeiling, WatcherStarts, Promotes, GivesUp
<1>2. /\ watcher' \in {"run", "end"} /\ caveated' \in BOOLEAN
      /\ ready' \in {ready, Caveat, Ready} /\ (ready' = Ready => ready = Ready \/ seen)
  BY DEF WatchSignal, WatchClosed, WatchDeath, WatchCeiling, WatcherStarts, Promotes, GivesUp,
         Inv, TypeOK, Ready, Caveat
<1>3. /\ ring' \in Seq(Notes) /\ Len(ring') <= Buffer
      /\ \A i \in 1 .. Len(ring') : True(ring'[i])
  <2>1. CASE ring' = <<>>
    BY <2>1, EmptySeq, CapsAssumption
  <2>2. CASE ring' = ring
    BY <2>2 DEF Inv, TypeOK, TrueOnTheWay
  <2> QED
    BY <1>1, <2>1, <2>2
<1>4. TypeOK'
  BY <1>1, <1>2, <1>3 DEF Inv, TypeOK, serverVars, readerVars, askerVars
<1>5. TrueOnTheWay'
  BY <1>1, <1>3 DEF Inv, TrueOnTheWay, True, Titled, serverVars, readerVars
<1> QED
  BY <1>1, <1>2, <1>4, <1>5 DEF Inv, BelievedWhenLoaded, PartialAnswersWereUncertain,
                                serverVars, readerVars, askerVars

LEMMA OthersInv ==
    ASSUME Inv, Asker \/ WaitEnds \/ DropClient \/ ServerExits \/ ReaperPublishes
    PROVE  Inv'
<1>1. Apart /\ UNCHANGED <<reader, seen, watcherVars>>
  BY DEF Asker, Prepare, AskUnprepared, WaitExpires, ServerAnswers, AnswerArrives, WaitEnds,
         DropClient, ServerExits, ReaperPublishes, Apart, serverVars, readerVars
<1>2. ring' \in Seq(Notes) /\ Len(ring') <= Buffer /\ pipe' \in Seq(Notes)
  BY <1>1 DEF Apart, Inv, TypeOK
<1>3. exited' \in BOOLEAN /\ death' \in BOOLEAN /\ held' \in BOOLEAN
  BY DEF Asker, Prepare, AskUnprepared, WaitExpires, ServerAnswers, AnswerArrives, WaitEnds,
         DropClient, ServerExits, ReaperPublishes, Inv, TypeOK, serverVars, askerVars
<1>4. /\ note' \in {Loading, Ready, Caveat}
      /\ asker' \in {"idle", "waiting", "asked", "answering", "answered", "refused"}
  BY DEF Asker, Prepare, AskUnprepared, WaitExpires, ServerAnswers, AnswerArrives, WaitEnds,
         DropClient, ServerExits, ReaperPublishes, Inv, TypeOK, askerVars
<1>5. partial' \in BOOLEAN
  <2>1. CASE ServerAnswers
    BY <2>1 DEF ServerAnswers, Inv, TypeOK
  <2>2. CASE ~ServerAnswers
    BY <2>2 DEF Asker, Prepare, AskUnprepared, WaitExpires, AnswerArrives, WaitEnds, DropClient,
         ServerExits, ReaperPublishes, Inv, TypeOK, askerVars
  <2> QED
    BY <2>1, <2>2
<1>6. note' = Ready => loaded
  BY DEF Asker, Prepare, AskUnprepared, WaitExpires, ServerAnswers, AnswerArrives, WaitEnds,
         DropClient, ServerExits, ReaperPublishes, Inv, BelievedWhenLoaded, askerVars
<1>7. PartialAnswersWereUncertain'
  <2>1. CASE Prepare
    BY <2>1 DEF Prepare, Inv, TypeOK, PartialAnswersWereUncertain
  <2>2. CASE ServerAnswers
    BY <2>2 DEF ServerAnswers, Inv, TypeOK, BelievedWhenLoaded, PartialAnswersWereUncertain
  <2>3. CASE AskUnprepared \/ WaitExpires \/ AnswerArrives \/ WaitEnds \/ DropClient
             \/ ServerExits \/ ReaperPublishes
    BY <2>3 DEF AskUnprepared, WaitExpires, AnswerArrives, WaitEnds, DropClient, ServerExits,
         ReaperPublishes, Inv, PartialAnswersWereUncertain, askerVars
  <2> QED
    BY <2>1, <2>2, <2>3 DEF Asker
<1>8. TypeOK'
  BY <1>1, <1>2, <1>3, <1>4, <1>5 DEF Inv, TypeOK, Apart, watcherVars
<1>9. BelievedWhenLoaded'
  BY <1>1, <1>6 DEF Inv, BelievedWhenLoaded, Apart, watcherVars
<1> QED
  BY <1>1, <1>7, <1>8, <1>9, ApartOnTheWay DEF Inv

LEMMA NextInv == Inv /\ [Next]_vars => Inv'
<1> SUFFICES ASSUME Inv, [Next]_vars PROVE Inv'
    OBVIOUS
<1>1. CASE Server
  BY <1>1, ServerWorksInv, OthersInv DEF Server
<1>2. CASE Reader
  BY <1>2, ReaderInv
<1>3. CASE Watcher
  BY <1>3, WatcherInv, WatchStreamInv DEF Watcher
<1>4. CASE WatcherStarts \/ WatchCeiling
  BY <1>4, WatcherInv
<1>5. CASE ReaperPublishes \/ Asker \/ WaitEnds \/ DropClient
  BY <1>5, OthersInv
<1>6. CASE UNCHANGED vars
  BY <1>6 DEF Inv, TypeOK, TrueOnTheWay, True, Titled, BelievedWhenLoaded,
       PartialAnswersWereUncertain, vars, serverVars, readerVars, watcherVars, askerVars
<1> QED
  BY <1>1, <1>2, <1>3, <1>4, <1>5, <1>6 DEF Next

LEMMA Invariance == Spec => []Inv
  BY InitInv, NextInv, PTL DEF Spec

-----------------------------------------------------------------------------

\* The types hold and the matcher stays within its cap (client.rs, TitledProgress), for any
\* cap, any broadcast and any number of pieces of work.
THEOREM ReadinessTypeCorrect == Spec => []TypeOK
<1>1. Inv => TypeOK
  BY DEF Inv
<1> QED
  BY <1>1, Invariance, PTL

\* A server is called ready without a caveat only after it has ended work under the known
\* title, whichever notifications the broadcast dropped and the matcher had no room for.
THEOREM ReadyMeansLoaded == Spec => []PromotedOnlyWhenLoaded
<1>1. Inv => PromotedOnlyWhenLoaded
  BY DEF Inv, BelievedWhenLoaded, PromotedOnlyWhenLoaded
<1> QED
  BY <1>1, Invariance, PTL

\* Whoever gets an answer computed before the server had loaded, having looked at its
\* readiness first, holds the caveat.
THEOREM PartialAnswersCarryTheCaveat == Spec => []PartialAnswersAreQualified
<1>1. Inv => PartialAnswersAreQualified
  BY DEF Inv, TypeOK, PartialAnswersWereUncertain, PartialAnswersAreQualified
<1> QED
  BY <1>1, Invariance, PTL

-----------------------------------------------------------------------------
(* The signal that is given once                                           *)

\* The matcher has not met a begin of work under the known title.
NothingBegun ==
    /\ watching = {} /\ inHand.kind # "beginTitled"
    /\ \A i \in 1 .. Len(ring) : ring[i].kind # "beginTitled"

\* The i-th notification in the pipe is the first begin, and the end is behind it.
BeginsAt(i) ==
    /\ pipe[i] = Note("beginTitled", first)
    /\ \A j \in 1 .. (i - 1) : pipe[j].kind # "beginTitled" /\ pipe[j] # Note("end", first)

\* The matcher has room for the work that was begun first, and so never misses it.
FirstKept ==
    /\ first = NoToken =>
          NothingBegun /\ \A i \in 1 .. Len(pipe) : pipe[i].kind # "beginTitled"
    /\ first # NoToken =>
          first \in watching \/ (NothingBegun /\ \E i \in 1 .. Len(pipe) : BeginsAt(i))

\* Its end is recorded, or still to be read.
EndUnread == \E i \in 1 .. Len(pipe) : pipe[i] = Note("end", first)
EndKept == first # NoToken /\ work[first] = "done" => seen \/ EndUnread

\* The watcher gives up on nobody it could promote.
WatcherKept == watcher = "end" => ready = Ready \/ death \/ ~held

Kept == FirstKept /\ EndKept /\ WatcherKept

LEMMA InitKept == Init => Kept
  BY EmptySeq DEF Init, Kept, FirstKept, NothingBegun, EndKept, WatcherKept, Nothing, Note

\* What is appended to the pipe leaves what is in it where it is.
LEMMA AppendKeepsBegin ==
    ASSUME Inv, NEW n \in Notes, pipe' = Append(pipe, n), first' = first
    PROVE  /\ \A i \in 1 .. Len(pipe) : i \in 1 .. Len(pipe') /\ (BeginsAt(i) => BeginsAt(i)')
           /\ EndUnread => EndUnread'
           /\ Len(pipe') \in 1 .. Len(pipe') /\ pipe'[Len(pipe')] = n
<1>1. /\ Len(pipe) \in Nat /\ Len(pipe') = Len(pipe) + 1
      /\ \A i \in 1 .. Len(pipe) + 1 : pipe'[i] = IF i <= Len(pipe) THEN pipe[i] ELSE n
  BY AppendAdds, LenProperties DEF Inv, TypeOK
<1>2. \A i \in 1 .. Len(pipe) : i \in 1 .. Len(pipe') /\ pipe'[i] = pipe[i]
  BY <1>1
<1>3. ASSUME NEW i \in 1 .. Len(pipe), BeginsAt(i)
      PROVE  BeginsAt(i)'
  <2>1. \A j \in 1 .. (i - 1) : pipe'[j] = pipe[j]
    BY <1>1, <1>2
  <2> QED
    BY <1>2, <1>3, <2>1 DEF BeginsAt
<1>4. EndUnread => EndUnread'
  BY <1>2 DEF EndUnread
<1> QED
  BY <1>1, <1>2, <1>3, <1>4

LEMMA BeginsKept ==
    ASSUME Inv, Kept, NEW t \in Tokens, NEW k \in {"beginTitled", "beginOther"}, ServerBegins(t, k)
    PROVE  Kept'
<1>1. /\ Note(k, t) \in Notes /\ pipe' = Append(pipe, Note(k, t)) /\ work[t] = "new"
      /\ UNCHANGED <<inHand, watching, seen, ring, watcherVars, askerVars, death>>
      /\ work' = [work EXCEPT ![t] = k]
  BY DEF ServerBegins, Writes, Notes
<1>2. WatcherKept'
  BY <1>1 DEF Kept, WatcherKept, watcherVars, askerVars
<1>3. NothingBegun => NothingBegun'
  BY <1>1 DEF NothingBegun
<1>4. CASE first' = first
  <2>1. EndKept'
    BY <1>1, <1>4, AppendKeepsBegin DEF Kept, EndKept, Inv, TypeOK
  <2>2. first # NoToken => FirstKept'
    BY <1>1, <1>3, <1>4, AppendKeepsBegin DEF Kept, FirstKept
  <2>3. ASSUME first = NoToken
        PROVE  FirstKept'
    <3>1. k # "beginTitled"
      BY <1>4, <2>3, TokensAssumption DEF ServerBegins
    <3>2. /\ Len(pipe) \in Nat /\ Len(pipe') = Len(pipe) + 1
          /\ \A i \in 1 .. Len(pipe) + 1 : pipe'[i] = IF i <= Len(pipe) THEN pipe[i] ELSE Note(k, t)
      BY <1>1, AppendAdds, LenProperties DEF Inv, TypeOK
    <3>3. \A i \in 1 .. Len(pipe') : pipe'[i].kind # "beginTitled"
      BY <2>3, <3>1, <3>2 DEF Kept, FirstKept, Note
    <3> QED
      BY <1>3, <1>4, <2>3, <3>3 DEF Kept, FirstKept
  <2> QED
    BY <1>2, <2>1, <2>2, <2>3 DEF Kept
<1>5. CASE first' # first
  <2>1. first = NoToken /\ first' = t /\ k = "beginTitled"
    BY <1>5 DEF ServerBegins
  <2>2. /\ Len(pipe) \in Nat /\ Len(pipe') = Len(pipe) + 1
        /\ \A i \in 1 .. Len(pipe) + 1 : pipe'[i] = IF i <= Len(pipe) THEN pipe[i] ELSE Note(k, t)
    BY <1>1, AppendAdds, LenProperties DEF Inv, TypeOK
  <2>3. \A j \in 1 .. Len(pipe) : pipe[j].kind # "beginTitled" /\ pipe[j] # Note("end", t)
    <3>1. \A j \in 1 .. Len(pipe) : pipe[j].kind # "beginTitled" /\ True(pipe[j])
      BY <2>1 DEF Kept, FirstKept, Inv, TrueOnTheWay
    <3> QED
      BY <1>1, <3>1 DEF True, Note
  <2>4. PICK i \in 1 .. Len(pipe') : i = Len(pipe')
    BY <2>2
  <2>5. NothingBegun'
    BY <1>3, <2>1 DEF Kept, FirstKept
  <2>6. EndKept'
    BY <1>1, <2>1 DEF EndKept, Inv, TypeOK
  <2>7. FirstKept'
    <3>1. BeginsAt(i)'
      BY <2>1, <2>2, <2>3, <2>4 DEF BeginsAt
    <3> QED
      BY <2>1, <2>4, <2>5, <3>1, TokensAssumption DEF FirstKept
  <2> QED
    BY <1>2, <2>6, <2>7 DEF Kept
<1> QED
  BY <1>4, <1>5

LEMMA EndsKept ==
    ASSUME Inv, Kept, NEW t \in Tokens, ServerEnds(t)
    PROVE  Kept'
<1>1. /\ Note("end", t) \in Notes /\ pipe' = Append(pipe, Note("end", t))
      /\ UNCHANGED <<first, inHand, watching, seen, ring, watcherVars, askerVars, death>>
      /\ work' = [work EXCEPT ![t] = "done"]
  BY DEF ServerEnds, Writes, Notes
<1>2. WatcherKept' /\ (NothingBegun => NothingBegun')
  BY <1>1 DEF Kept, WatcherKept, watcherVars, askerVars, NothingBegun
<1>3. /\ Len(pipe) \in Nat /\ Len(pipe') = Len(pipe) + 1
      /\ \A i \in 1 .. Len(pipe) + 1 : pipe'[i] = IF i <= Len(pipe) THEN pipe[i] ELSE Note("end", t)
  BY <1>1, AppendAdds, LenProperties DEF Inv, TypeOK
<1>4. first = t => EndUnread'
  BY <1>1, <1>3 DEF EndUnread
<1>5. EndKept'
  BY <1>1, <1>4, AppendKeepsBegin DEF Kept, EndKept, Inv, TypeOK
<1>6. FirstKept'
  <2>1. CASE first # NoToken
    BY <1>1, <1>2, <2>1, AppendKeepsBegin DEF Kept, FirstKept
  <2>2. CASE first = NoToken
    <3>1. \A i \in 1 .. Len(pipe') : pipe'[i].kind # "beginTitled"
      BY <1>3, <2>2 DEF Kept, FirstKept, Note
    <3> QED
      BY <1>1, <1>2, <2>2, <3>1 DEF Kept, FirstKept
  <2> QED
    BY <2>1, <2>2
<1> QED
  BY <1>2, <1>5, <1>6 DEF Kept

LEMMA RecordsKept ==
    ASSUME Inv, Kept, ReaderRecords
    PROVE  Kept'
<1> DEFINE n == Head(pipe)
<1>1. /\ n = pipe[1] /\ n \in Notes /\ Len(pipe) \in Nat /\ Len(pipe) >= 1
      /\ Len(pipe') = Len(pipe) - 1
      /\ \A i \in 1 .. Len(pipe) - 1 : i + 1 \in 1 .. Len(pipe) /\ pipe'[i] = pipe[i + 1]
  BY TailDrops DEF ReaderRecords, Inv, TypeOK
<1>2. /\ seen' = (seen \/ Matches(n)) /\ watching' = Remembers(n) /\ inHand' = n
      /\ UNCHANGED <<first, work, ring, watcher, ready, death, held>>
  BY DEF ReaderRecords, serverVars, watcherVars, askerVars
<1>3. WatcherKept'
  BY <1>2 DEF Kept, WatcherKept
<1>4. \A i \in 1 .. Len(pipe) : i # 1 => i - 1 \in 1 .. Len(pipe') /\ pipe'[i - 1] = pipe[i]
  BY <1>1
<1>5. NothingBegun /\ n.kind # "beginTitled" => NothingBegun'
  BY <1>2 DEF NothingBegun, Remembers
<1>6. n = Note("beginTitled", first) /\ watching = {} => first \in watching'
  <2>1. Cardinality({}) = 0
    BY FS_EmptySet
  <2> QED
    BY <1>2, <2>1, CapsAssumption DEF Remembers, Note
<1>7. first \in watching => first \in watching'
  BY <1>2 DEF Remembers
<1>8. ASSUME NEW i \in 1 .. Len(pipe), i # 1, BeginsAt(i)
      PROVE  /\ BeginsAt(i - 1)' /\ i - 1 \in 1 .. Len(pipe')
             /\ n.kind # "beginTitled" /\ n # Note("end", first)
  <2>1. 1 \in 1 .. (i - 1)
    BY <1>8
  <2>2. n.kind # "beginTitled" /\ n # Note("end", first)
    BY <1>1, <1>8, <2>1 DEF BeginsAt
  <2>3. \A j \in 1 .. ((i - 1) - 1) : j + 1 \in 1 .. (i - 1) /\ pipe'[j] = pipe[j + 1]
    BY <1>1, <1>8
  <2>4. BeginsAt(i - 1)'
    BY <1>2, <1>4, <1>8, <2>3 DEF BeginsAt
  <2> QED
    BY <1>4, <1>8, <2>2, <2>4
<1>9. FirstKept'
  <2>1. CASE first = NoToken
    <3>1. n.kind # "beginTitled" /\ \A i \in 1 .. Len(pipe') : pipe'[i].kind # "beginTitled"
      BY <1>1, <2>1 DEF Kept, FirstKept
    <3> QED
      BY <1>2, <1>5, <2>1, <3>1 DEF Kept, FirstKept
  <2>2. CASE first # NoToken /\ first \in watching
    BY <1>2, <1>7, <2>2 DEF FirstKept
  <2>3. CASE first # NoToken /\ first \notin watching
    <3>1. PICK i \in 1 .. Len(pipe) : NothingBegun /\ BeginsAt(i)
      BY <2>3 DEF Kept, FirstKept
    <3>2. CASE i = 1
      BY <1>1, <1>2, <1>6, <2>3, <3>1, <3>2 DEF BeginsAt, NothingBegun, FirstKept
    <3>3. CASE i # 1
      <4>1. BeginsAt(i - 1)' /\ i - 1 \in 1 .. Len(pipe') /\ NothingBegun'
        BY <1>5, <1>8, <3>1, <3>3
      <4> QED
        BY <1>2, <2>3, <4>1 DEF FirstKept
    <3> QED
      BY <3>2, <3>3
  <2> QED
    BY <2>1, <2>2, <2>3
<1>10. EndKept'
  <2> SUFFICES ASSUME first # NoToken, work[first] = "done", ~seen, ~EndUnread'
               PROVE  Matches(n)
    BY <1>2 DEF EndKept
  <2>1. EndUnread
    BY DEF Kept, EndKept
  <2>2. n = Note("end", first)
    BY <1>1, <1>2, <1>4, <2>1 DEF EndUnread
  <2>3. first \in watching
    <3> SUFFICES ASSUME first \notin watching PROVE FALSE
      OBVIOUS
    <3>1. PICK i \in 1 .. Len(pipe) : BeginsAt(i)
      BY DEF Kept, FirstKept
    <3>2. i # 1
      BY <1>1, <2>2, <3>1 DEF BeginsAt, Note
    <3> QED
      BY <1>8, <2>2, <3>1, <3>2
  <2> QED
    BY <2>2, <2>3 DEF Matches, Note
<1> QED
  BY <1>3, <1>9, <1>10 DEF Kept

\* The broadcast and the matcher behind it; the pipe and what is recorded stay.
LEMMA BroadcastKept ==
    ASSUME Inv, Kept, UNCHANGED <<pipe, first, work, seen, death, held>>,
           watching \subseteq watching', NothingBegun => NothingBegun', WatcherKept'
    PROVE  Kept'
<1>1. \A i \in 1 .. Len(pipe) : BeginsAt(i) => BeginsAt(i)'
  BY DEF BeginsAt
<1>2. EndKept'
  BY DEF Kept, EndKept, EndUnread
<1>3. FirstKept'
  BY <1>1 DEF Kept, FirstKept
<1> QED
  BY <1>2, <1>3 DEF Kept

LEMMA PublishesKept ==
    ASSUME Inv, Kept, ReaderPublishes
    PROVE  Kept'
<1>1. /\ UNCHANGED <<pipe, first, work, seen, death, held, watching, watcher, ready>>
      /\ inHand' = Nothing /\ inHand \in Notes
      /\ \/ ring' = <<>> \/ ring' = Append(ring, inHand)
         \/ ring' = Append(Tail(ring), inHand) /\ Len(ring) = Buffer
  BY DEF ReaderPublishes, serverVars, watcherVars, askerVars, Inv, TypeOK
<1>2. ASSUME NothingBegun PROVE NothingBegun'
  <2>1. \A i \in 1 .. Len(ring') : ring'[i].kind # "beginTitled"
    <3>1. CASE ring' = <<>>
      BY <3>1, EmptySeq
    <3>2. CASE ring' = Append(ring, inHand)
      BY <1>1, <1>2, <3>2, AppendAdds, LenProperties DEF Inv, TypeOK, NothingBegun
    <3>3. CASE ring' = Append(Tail(ring), inHand) /\ Len(ring) = Buffer
      <4>1. ring # <<>>
        BY <3>3, EmptySeq, CapsAssumption
      <4>2. /\ Tail(ring) \in Seq(Notes) /\ Len(Tail(ring)) = Len(ring) - 1 /\ Len(ring) \in Nat
            /\ \A i \in 1 .. Len(ring) - 1 :
                  i + 1 \in 1 .. Len(ring) /\ Tail(ring)[i] = ring[i + 1]
        BY <4>1, TailDrops DEF Inv, TypeOK
      <4>3. \A i \in 1 .. Len(Tail(ring)) : Tail(ring)[i].kind # "beginTitled"
        BY <1>2, <4>2 DEF NothingBegun
      <4>4. inHand.kind # "beginTitled"
        BY <1>2 DEF NothingBegun
      <4> QED
        BY <1>1, <3>3, <4>2, <4>3, <4>4, AppendAdds
    <3> QED
      BY <1>1, <3>1, <3>2, <3>3
  <2> QED
    BY <1>1, <1>2, <2>1 DEF NothingBegun, Nothing, Note
<1>3. WatcherKept'
  BY <1>1 DEF Kept, WatcherKept
<1> QED
  BY <1>1, <1>2, <1>3, BroadcastKept

LEMMA WatchingKept ==
    ASSUME Inv, Kept, Watcher \/ WatchCeiling \/ WatcherStarts
    PROVE  Kept'
<1>1. UNCHANGED <<pipe, first, work, seen, death, held, inHand>>
  BY DEF Watcher, WatchSignal, WatchStream, WatchClosed, WatchDeath, WatchCeiling, WatcherStarts,
     serverVars, readerVars, askerVars
<1>2. WatcherKept'
  BY DEF Kept, WatcherKept, Watcher, WatchSignal, WatchStream, WatchClosed, WatchDeath,
     WatchCeiling, WatcherStarts, Promotes, GivesUp, serverVars, askerVars
<1>3. CASE WatchStream
  <2>1. watching' = Remembers(Head(ring)) /\ (ring' = <<>> \/ ring' = Tail(ring)) /\ ring # <<>>
    BY <1>3 DEF WatchStream, Promotes
  <2>2. /\ Head(ring) = ring[1] /\ Len(ring) \in Nat /\ Len(ring) >= 1
        /\ Len(Tail(ring)) = Len(ring) - 1
        /\ \A i \in 1 .. Len(ring) - 1 : i + 1 \in 1 .. Len(ring) /\ Tail(ring)[i] = ring[i + 1]
    BY <2>1, TailDrops DEF Inv, TypeOK
  <2>3. ASSUME NothingBegun PROVE NothingBegun'
    <3>1. Head(ring).kind # "beginTitled"
      BY <2>2, <2>3 DEF NothingBegun
    <3>2. \A i \in 1 .. Len(ring') : ring'[i].kind # "beginTitled"
      BY <2>1, <2>2, <2>3, EmptySeq DEF NothingBegun
    <3> QED
      BY <1>1, <2>1, <2>3, <3>1, <3>2 DEF NothingBegun, Remembers
  <2>4. watching \subseteq watching'
    BY <2>1 DEF Remembers
  <2> QED
    BY <1>1, <1>2, <2>3, <2>4, BroadcastKept
<1>4. CASE ~WatchStream
  <2>1. watching' = watching /\ (ring' = ring \/ ring' = <<>>)
    BY <1>4 DEF Watcher, WatchSignal, WatchClosed, WatchDeath, WatchCeiling, WatcherStarts,
       Promotes, GivesUp, readerVars
  <2>2. NothingBegun => NothingBegun'
    BY <1>1, <2>1, EmptySeq DEF NothingBegun
  <2> QED
    BY <1>1, <1>2, <2>1, <2>2, BroadcastKept
<1> QED
  BY <1>3, <1>4

LEMMA NextKept == Inv /\ Kept /\ [Next]_vars => Kept'
<1> SUFFICES ASSUME Inv, Kept, [Next]_vars PROVE Kept'
  OBVIOUS
<1>1. CASE Server /\ ~ServerExits
  BY <1>1, BeginsKept, EndsKept DEF Server
<1>2. CASE Reader /\ ~ReaderEof
  BY <1>2, RecordsKept, PublishesKept DEF Reader
<1>3. CASE Watcher \/ WatchCeiling \/ WatcherStarts
  BY <1>3, WatchingKept
<1>4. CASE ServerExits \/ ReaderEof \/ ReaperPublishes \/ Asker \/ WaitEnds \/ DropClient
           \/ UNCHANGED vars
  <2>1. UNCHANGED <<pipe, first, work, seen, inHand, watching, ring, watcher, ready>>
    BY <1>4 DEF ServerExits, ReaderEof, ReaperPublishes, Asker, Prepare, AskUnprepared,
       WaitExpires, ServerAnswers, AnswerArrives, WaitEnds, DropClient, vars, serverVars,
       readerVars, watcherVars
  <2>2. (death => death') /\ (held' => held)
    BY <1>4 DEF ServerExits, ReaderEof, ReaperPublishes, Asker, Prepare, AskUnprepared,
       WaitExpires, ServerAnswers, AnswerArrives, WaitEnds, DropClient, vars, serverVars,
       askerVars
  <2>3. WatcherKept'
    BY <2>1, <2>2 DEF Kept, WatcherKept
  <2>4. FirstKept'
    BY <2>1 DEF Kept, FirstKept, NothingBegun, BeginsAt
  <2>5. EndKept'
    BY <2>1 DEF Kept, EndKept, EndUnread
  <2> QED
    BY <2>3, <2>4, <2>5 DEF Kept
<1> QED
  BY <1>1, <1>2, <1>3, <1>4 DEF Next, Server, Reader

\* The signal is given once and is not lost: when the work the server began first has ended, the
\* server is promoted, or its end is recorded or still to be read and the watcher has not ended,
\* whatever other work there is, whatever the broadcast drops and however small the matcher, unless
\* the death is published or the client dropped (client.rs watch_readiness, transport.rs
\* SignalSink).  That the watcher acts on it is SignalIsNeverMissed, which needs fairness.
THEOREM TheSignalIsNotLost ==
    Spec => [](first # NoToken /\ work[first] = "done"
                  => \/ ready = Ready \/ death \/ ~held
                     \/ /\ watcher # "end"
                        /\ seen \/ \E i \in 1 .. Len(pipe) : pipe[i] = Note("end", first))
<1>1. Kept => (first # NoToken /\ work[first] = "done"
                  => \/ ready = Ready \/ death \/ ~held
                     \/ /\ watcher # "end"
                        /\ seen \/ \E i \in 1 .. Len(pipe) : pipe[i] = Note("end", first))
  BY DEF Kept, EndKept, EndUnread, WatcherKept
<1> QED
  BY <1>1, InitInv, InitKept, NextInv, NextKept, PTL DEF Spec

\* A caller waits for a client that is held, and the ceiling is the end of loading.
Attended ==
    /\ asker = "waiting" => held /\ watcher # "unborn"
    /\ caveated => ready # Loading

LEMMA NextAttended == Inv /\ Attended /\ [Next]_vars => Attended'
<1> SUFFICES ASSUME Inv, Attended, [Next]_vars PROVE Attended'
  OBVIOUS
<1>1. CASE Server \/ ReaperPublishes \/ Reader \/ UNCHANGED vars
  BY <1>1 DEF Attended, Server, ServerBegins, ServerEnds, ServerExits, ReaperPublishes, Reader,
     ReaderRecords, ReaderPublishes, ReaderEof, vars, watcherVars, askerVars
<1>2. CASE Watcher \/ WatchCeiling \/ WatcherStarts
  BY <1>2 DEF Attended, Watcher, WatchSignal, WatchStream, WatchClosed, WatchDeath, WatchCeiling,
     WatcherStarts, Promotes, GivesUp, askerVars, Loading, Caveat, Ready
<1>3. CASE Asker \/ WaitEnds \/ DropClient
  BY <1>3 DEF Attended, Asker, Prepare, AskUnprepared, WaitExpires, ServerAnswers, AnswerArrives,
     WaitEnds, DropClient, watcherVars
<1> QED
  BY <1>1, <1>2, <1>3 DEF Next

\* Nobody waits for what will not come: while a caller waits for readiness there is one, or the
\* death is published, or the ceiling of a watcher that runs is still to fire (client.rs
\* wait_ready).  That it fires is WaitersGoOn, which needs fairness.
THEOREM NobodyWaitsInVain ==
    Spec => [](asker = "waiting" => ready # Loading \/ death \/ (watcher = "run" /\ ~caveated))
<1>1. Init => Attended
  BY DEF Init, Attended
<1>2. Inv /\ Kept /\ Attended
         => (asker = "waiting" => ready # Loading \/ death \/ (watcher = "run" /\ ~caveated))
  BY DEF Inv, TypeOK, Kept, WatcherKept, Attended, Loading, Ready
<1> QED
  BY <1>1, <1>2, InitInv, InitKept, NextInv, NextKept, NextAttended, PTL DEF Spec

=============================================================================
