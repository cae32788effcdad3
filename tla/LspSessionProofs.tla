-------------------------- MODULE LspSessionProofs --------------------------
(***************************************************************************)
(* The safety of a session for any documents, requests, number of edits    *)
(* and number of restarts: the live server has been told what the mirror   *)
(* holds, in versions that only grow, a request is about the text its      *)
(* caller saw, and there is one server at a time.                          *)
(***************************************************************************)
EXTENDS LspSession, SequenceTheorems, FiniteSetTheorems, TLAPS

-----------------------------------------------------------------------------
(* Types, finer than TypeOK                                                *)

States == {"Idle", "Starting", "Up", "Failed", "Unavailable"}
Server == [state : States, epoch : 0..(MaxWindows + 2), recent : BOOLEAN]
Reports == {"Started", "StartFailed", "Died", "Readiness"}
EditKinds == {"Open", "Change", "Close"}

\* An edit but a close carries a text.
Msgs == [kind : {"Open", "Change"}, doc : Docs, text : Stamps \ {0}]
            \cup [kind : {"Close"}, doc : Docs, text : {0}]
            \cup [kind : {"Ask"}, ask : Asks]
            \cup [kind : {"Teardown"}, epoch : {0}]
            \cup [kind : Reports, epoch : Epochs]

Entry == [text : Stamps, version : Nat, told : BOOLEAN]
TellTale == [text : Stamps, version : Nat]
Query == [state : {"idle", "mailed", "spawned", "asked", "done"}, kind : RequestKinds \cup {"none"},
          doc : Docs \cup {"none"}, text : Stamps, epoch : 0..(MaxWindows + 2), served : Stamps,
          open : SUBSET Docs, outcome : States \cup {"none", "TornDown", "Ready", "Loading"}]

ServerTyped ==
    /\ srv \in Server /\ windows \in 0..MaxWindows
    /\ attempt \in [Epochs -> {"none", "starting", "failed", "started"}]
    /\ proc \in [Epochs -> {"none", "running", "exited"}]
    /\ known \subseteq Epochs /\ closing \subseteq Epochs
    /\ ready \in [Epochs -> {Loading, Caveat, Ready}]
    /\ sup \in [Epochs -> [state : {"none", "watch", "end"}, last : {Loading, Caveat, Ready}]]
DocsTyped ==
    /\ mirror \in [Docs -> Entry] /\ high \in [Docs -> Nat]
    /\ view \in [Epochs -> [Docs -> TellTale]] /\ sent \in [Epochs -> [Docs -> Nat]]
RestTyped ==
    /\ held \in BOOLEAN /\ actor \in {"run", "gone"}
    /\ editor \in [Docs -> Stamps] /\ acts \in 0..MaxActs
    /\ ask \in [Asks -> Query]
    /\ \A r \in Asks : ask[r].state \in {"spawned", "asked"} =>
                          ask[r].doc \in Docs /\ ask[r].epoch \in Epochs
RowTyped ==
    /\ pids \subseteq Epochs
    /\ row \in {"none", "Starting", "Failed", "Unavailable", Loading, Caveat, Ready}

Mailed == {mail[i] : i \in 1..Len(mail)}
MailTyped ==
    /\ mail \in Seq(Msgs)
    /\ \A r \in Asks : Request(r) \in Mailed => ask[r].doc \in Docs

-----------------------------------------------------------------------------
(* The mailbox                                                             *)

\* It loses its first message, or all of them, or none.
Shrinks == mail' \in {mail, <<>>} \/ (mail # <<>> /\ mail' = Tail(mail))
Receives(m) == mail' = Append(mail, m)

\* A start is reported once.
Once == \A i, j \in 1..Len(mail) : mail[i].kind = "Started" /\ mail[i] = mail[j] => i = j

LEMMA AppendAdds ==
    ASSUME NEW s \in Seq(Msgs), NEW m \in Msgs
    PROVE  /\ Append(s, m) \in Seq(Msgs) /\ Len(Append(s, m)) = Len(s) + 1 /\ Len(s) \in Nat
           /\ \A i \in 1 .. Len(s) + 1 : Append(s, m)[i] = IF i <= Len(s) THEN s[i] ELSE m
    BY AppendProperties, LenProperties

LEMMA TailDrops ==
    ASSUME NEW s \in Seq(Msgs), s # <<>>
    PROVE  /\ Head(s) \in Msgs /\ Head(s) = s[1] /\ Len(s) \in Nat /\ Len(s) >= 1
           /\ Tail(s) \in Seq(Msgs) /\ Len(Tail(s)) = Len(s) - 1
           /\ \A i \in 1 .. Len(s) - 1 : i + 1 \in 1 .. Len(s) /\ Tail(s)[i] = s[i + 1]
    BY HeadTailProperties, LenProperties

LEMMA NoMail == <<>> \in Seq(Msgs) /\ Len(<<>>) = 0
    OBVIOUS

LEMMA ShrinksLoses ==
    ASSUME mail \in Seq(Msgs), Shrinks
    PROVE  mail' \in Seq(Msgs) /\ Mailed' \subseteq Mailed /\ (Once => Once')
<1>1. CASE mail' = mail
  BY <1>1 DEF Mailed, Once
<1>2. CASE mail' = <<>>
  BY <1>2, NoMail DEF Mailed, Once
<1>3. CASE mail # <<>> /\ mail' = Tail(mail)
  <2>1. /\ mail' \in Seq(Msgs) /\ Len(mail') = Len(mail) - 1 /\ Len(mail) \in Nat
        /\ \A i \in 1 .. Len(mail) - 1 : i + 1 \in 1 .. Len(mail) /\ mail'[i] = mail[i + 1]
    BY <1>3, TailDrops
  <2>2. Mailed' \subseteq Mailed
    BY <2>1 DEF Mailed
  <2>3. Once => Once'
    BY <2>1 DEF Once
  <2> QED
    BY <2>1, <2>2, <2>3
<1> QED
  BY <1>1, <1>2, <1>3 DEF Shrinks

LEMMA ReceivesAdds ==
    ASSUME mail \in Seq(Msgs), NEW m \in Msgs, Receives(m)
    PROVE  /\ mail' \in Seq(Msgs) /\ Mailed' = Mailed \cup {m}
           /\ Once /\ (m.kind # "Started" \/ m \notin Mailed) => Once'
<1>1. /\ mail' \in Seq(Msgs) /\ Len(mail') = Len(mail) + 1 /\ Len(mail) \in Nat
      /\ \A i \in 1 .. Len(mail) + 1 : mail'[i] = IF i <= Len(mail) THEN mail[i] ELSE m
  BY AppendAdds DEF Receives
<1>2. Mailed' \subseteq Mailed \cup {m}
  BY <1>1 DEF Mailed
<1>3. Mailed \subseteq Mailed'
  <2> SUFFICES ASSUME NEW i \in 1..Len(mail) PROVE mail[i] \in Mailed'
    BY DEF Mailed
  <2>1. i \in 1..Len(mail') /\ mail'[i] = mail[i]
    BY <1>1
  <2> QED
    BY <2>1 DEF Mailed
<1>4. m \in Mailed'
  <2>1. Len(mail') \in 1..Len(mail') /\ mail'[Len(mail')] = m
    BY <1>1
  <2> QED
    BY <2>1 DEF Mailed
<1>5. Once /\ (m.kind # "Started" \/ m \notin Mailed) => Once'
  <2> SUFFICES ASSUME Once, m.kind # "Started" \/ m \notin Mailed,
                      NEW i \in 1..Len(mail'), NEW j \in 1..Len(mail'),
                      mail'[i].kind = "Started", mail'[i] = mail'[j]
               PROVE  i = j
    BY DEF Once
  <2>1. CASE i <= Len(mail) /\ j <= Len(mail)
    BY <1>1, <2>1 DEF Once
  <2>2. CASE ~(i <= Len(mail)) /\ ~(j <= Len(mail))
    BY <1>1, <2>2
  <2>3. \A k \in 1..Len(mail) : mail[k] \in Mailed
    BY DEF Mailed
  <2>4. CASE (i <= Len(mail)) # (j <= Len(mail))
    BY <1>1, <2>3, <2>4
  <2> QED
    BY <1>1, <2>1, <2>2, <2>4
<1> QED
  BY <1>1, <1>2, <1>3, <1>4, <1>5

\* What is read of the mailbox is what was written.
LEMMA HeadIsMailed ==
    ASSUME mail \in Seq(Msgs), NEW k, Handles(k)
    PROVE  /\ Head(mail) \in Msgs /\ Head(mail).kind = k /\ Head(mail) \in Mailed /\ Shrinks
           /\ k \in {"Open", "Change"} => Head(mail).doc \in Docs /\ Head(mail).text \in Stamps \ {0}
           /\ k = "Close" => Head(mail).doc \in Docs
           /\ k = "Ask" => Head(mail).ask \in Asks /\ Head(mail) = Request(Head(mail).ask)
           /\ k \in Reports => Head(mail).epoch \in Epochs /\ Head(mail) = About(k, Head(mail).epoch)
<1>1. Head(mail) \in Msgs /\ Head(mail).kind = k /\ Head(mail) = mail[1] /\ 1 \in 1..Len(mail) /\ Shrinks
  BY TailDrops DEF Handles, Shrinks
<1>2. Head(mail) \in Mailed
  BY <1>1 DEF Mailed
<1>3. /\ k \in {"Open", "Change"} => Head(mail).doc \in Docs /\ Head(mail).text \in Stamps \ {0}
      /\ k = "Close" => Head(mail).doc \in Docs
  BY <1>1 DEF Msgs, Reports
<1>4. k = "Ask" => Head(mail).ask \in Asks /\ Head(mail) = Request(Head(mail).ask)
  BY <1>1 DEF Msgs, Reports, Request
<1>5. k \in Reports => Head(mail).epoch \in Epochs /\ Head(mail) = About(k, Head(mail).epoch)
  BY <1>1 DEF Msgs, Reports, About
<1> QED
  BY <1>1, <1>2, <1>3, <1>4, <1>5

-----------------------------------------------------------------------------
(* The servers of a session                                                *)

\* Epochs are started in order, each after the death of the one before, and rationed.
EpochsOK ==
    /\ srv.epoch <= windows + (IF srv.recent THEN 2 ELSE 1)
    /\ actor = "run" /\ srv.state = "Idle" => srv.epoch = 0
    /\ \A e \in Epochs : e > srv.epoch => attempt[e] = "none" /\ proc[e] = "none"
    /\ \A e \in Epochs : e < srv.epoch => e \in known
    /\ \A e \in Epochs : About("Died", e) \in Mailed => e \in known

\* A start is reported when it has ended, and a server is up when its report has been read.
StartsOK ==
    /\ Once
    /\ \A e \in Epochs : About("Started", e) \in Mailed => attempt[e] = "started"
    /\ srv.state = "Up" => /\ srv.epoch \in Epochs /\ attempt[srv.epoch] = "started"
                           /\ About("Started", srv.epoch) \notin Mailed

Servers == ServerTyped /\ RestTyped /\ RowTyped /\ MailTyped /\ EpochsOK /\ StartsOK

LEMMA EnsureStartedIs ==
    ASSUME NEW s \in Server, s.state = "Idle" => s.epoch + 1 <= MaxWindows + 2
    PROVE  /\ EnsureStarted(s) \in Server
           /\ s.state = "Idle" => EnsureStarted(s) = [state |-> "Starting", epoch |-> s.epoch + 1,
                                                      recent |-> s.recent]
           /\ s.state # "Idle" => EnsureStarted(s) = s
<1>1. CASE s.state = "Idle"
  <2>1. s.epoch + 1 \in 0..(MaxWindows + 2)
    BY <1>1, SessionBounds DEF Server
  <2>2. EnsureStarted(s) = [s EXCEPT !.state = "Starting", !.epoch = @ + 1]
    BY <1>1 DEF EnsureStarted
  <2>3. EnsureStarted(s) = [state |-> "Starting", epoch |-> s.epoch + 1, recent |-> s.recent]
    BY <2>2 DEF Server
  <2> QED
    BY <1>1, <2>1, <2>3 DEF Server, States
<1>2. CASE s.state # "Idle"
  BY <1>2 DEF EnsureStarted
<1> QED
  BY <1>1, <1>2

\* What starting the next server, or none, does to the tables.
LEMMA StartedStarts ==
    ASSUME ServerTyped, RowTyped, NEW s \in Server, Started(srv, s),
           s = srv \/ (s.epoch = srv.epoch + 1 /\ s.state = "Starting")
    PROVE  /\ srv' = s /\ RowTyped'
           /\ attempt' = IF s = srv THEN attempt ELSE [attempt EXCEPT ![s.epoch] = "starting"]
           /\ proc' = IF s = srv THEN proc ELSE [proc EXCEPT ![s.epoch] = "running"]
<1>1. CASE s = srv
  BY <1>1 DEF Started, RowTyped
<1>2. CASE s.epoch = srv.epoch + 1 /\ s.state = "Starting"
  <2>1. s.epoch # srv.epoch
    BY <1>2 DEF ServerTyped, Server
  <2>2. RowOf(s) = "Starting" /\ PidsOf(s) = {}
    BY <1>2 DEF RowOf, PidsOf
  <2> QED
    BY <2>1, <2>2 DEF Started, RowTyped
<1> QED
  BY <1>1, <1>2

LEMMA RowOfTyped ==
    ASSUME ServerTyped, NEW s \in Server, s.state = "Up" => s.epoch \in Epochs
    PROVE  /\ RowOf(s) \in {"none", "Starting", "Failed", "Unavailable", Loading, Caveat, Ready}
           /\ PidsOf(s) \subseteq Epochs
<1>1. s.state \in States
  BY DEF Server
<1>2. CASE s.state = "Up"
  BY <1>2 DEF RowOf, PidsOf, ServerTyped
<1>3. CASE s.state # "Up"
  BY <1>1, <1>3 DEF RowOf, PidsOf, States
<1> QED
  BY <1>2, <1>3

-----------------------------------------------------------------------------
(* What each step does to the servers                                      *)

\* A step by the actor that may start the next server, whose predecessor is known to be dead.
LEMMA NextServer ==
    ASSUME Servers, NEW s \in Server, Started(srv, s), Shrinks,
           \/ s = srv
           \/ /\ s.state = "Starting" /\ s.epoch = srv.epoch + 1
              /\ s.epoch <= windows + (IF s.recent THEN 2 ELSE 1)
              /\ srv.epoch \in Epochs => srv.epoch \in known,
           UNCHANGED <<actor, windows, known, ready, sup, closing>>
    PROVE  ServerTyped' /\ EpochsOK' /\ StartsOK' /\ RowTyped'
<1> USE SessionBounds DEF Servers
<1>1. /\ srv' = s /\ RowTyped'
      /\ attempt' = IF s = srv THEN attempt ELSE [attempt EXCEPT ![s.epoch] = "starting"]
      /\ proc' = IF s = srv THEN proc ELSE [proc EXCEPT ![s.epoch] = "running"]
  BY StartedStarts
<1>2. mail' \in Seq(Msgs) /\ Mailed' \subseteq Mailed /\ Once'
  BY ShrinksLoses DEF MailTyped, StartsOK
<1>3. CASE s = srv
  <2>1. ServerTyped'
    BY <1>1, <1>3 DEF ServerTyped
  <2>2. EpochsOK'
    BY <1>1, <1>2, <1>3 DEF EpochsOK
  <2>3. StartsOK'
    BY <1>1, <1>2, <1>3 DEF StartsOK
  <2> QED
    BY <1>1, <2>1, <2>2, <2>3
<1>4. CASE s # srv
  <2>1. /\ s.state = "Starting" /\ s.epoch = srv.epoch + 1 /\ s.epoch \in Epochs
        /\ s.epoch \in Nat /\ srv.epoch \in Nat /\ (srv.epoch \in Epochs \/ srv.epoch = 0)
    BY <1>4 DEF ServerTyped, Server, Epochs
  <2>2. ServerTyped'
    BY <1>1, <1>4, <2>1 DEF ServerTyped
  <2>3. EpochsOK'
    <3>1. srv'.epoch <= windows' + (IF srv'.recent THEN 2 ELSE 1)
      BY <1>1, <1>4
    <3>2. \A e \in Epochs : e > srv'.epoch => attempt'[e] = "none" /\ proc'[e] = "none"
      BY <1>1, <1>4, <2>1 DEF EpochsOK, ServerTyped, Epochs
    <3>3. \A e \in Epochs : e < srv'.epoch => e \in known'
      BY <1>1, <1>4, <2>1 DEF EpochsOK, Epochs
    <3> QED
      BY <1>1, <1>2, <2>1, <3>1, <3>2, <3>3 DEF EpochsOK
  <2>4. StartsOK'
    <3>1. \A e \in Epochs : About("Started", e) \in Mailed => attempt'[e] = "started"
      <4> SUFFICES ASSUME NEW e \in Epochs, About("Started", e) \in Mailed
                   PROVE  attempt'[e] = "started"
        OBVIOUS
      <4>1. attempt[e] = "started"
        BY DEF StartsOK
      <4>2. ~(e > srv.epoch)
        BY <4>1 DEF EpochsOK
      <4> QED
        BY <1>1, <1>4, <2>1, <4>1, <4>2 DEF ServerTyped, Epochs
    <3> QED
      BY <1>1, <1>2, <2>1, <3>1 DEF StartsOK
  <2> QED
    BY <1>1, <2>2, <2>3, <2>4
<1> QED
  BY <1>3, <1>4

\* The start that a document or a question asks for is the first.
LEMMA FirstServer ==
    ASSUME Servers, actor = "run"
    PROVE  LET s == EnsureStarted(srv) IN
           /\ s \in Server
           /\ \/ s = srv
              \/ /\ s.state = "Starting" /\ s.epoch = srv.epoch + 1 /\ srv.state = "Idle"
                 /\ s.epoch <= windows + (IF s.recent THEN 2 ELSE 1)
                 /\ srv.epoch \in Epochs => srv.epoch \in known
<1>1. srv.state = "Idle" => srv.epoch = 0
  BY DEF Servers, EpochsOK
<1>2. windows \in Nat /\ srv \in Server
  BY SessionBounds DEF Servers, ServerTyped
<1>3. 0 \notin Epochs
  BY DEF Epochs
<1>4. srv.state = "Idle" => srv.epoch + 1 <= MaxWindows + 2
  BY <1>1, SessionBounds
<1>5. /\ EnsureStarted(srv) \in Server
      /\ srv.state = "Idle" => EnsureStarted(srv) = [state |-> "Starting", epoch |-> srv.epoch + 1,
                                                     recent |-> srv.recent]
      /\ srv.state # "Idle" => EnsureStarted(srv) = srv
  BY <1>2, <1>4, EnsureStartedIs
<1> QED
  BY <1>1, <1>2, <1>3, <1>5

\* A step that leaves the servers alone and reports neither a start nor a death.
Quiet ==
    /\ Shrinks \/ \E m \in Msgs : Receives(m) /\ m.kind \notin {"Started", "Died"}
    /\ UNCHANGED <<serverVars, actor>>

LEMMA QuietMail ==
    ASSUME Servers, Shrinks \/ \E m \in Msgs : Receives(m) /\ m.kind \notin {"Started", "Died"}
    PROVE  /\ mail' \in Seq(Msgs) /\ Once'
           /\ \A k \in {"Started", "Died"}, e \in Epochs :
                 About(k, e) \in Mailed' => About(k, e) \in Mailed
<1>1. CASE Shrinks
  BY <1>1, ShrinksLoses DEF Servers, MailTyped, StartsOK
<1>2. ASSUME NEW m \in Msgs, Receives(m), m.kind \notin {"Started", "Died"}
      PROVE  /\ mail' \in Seq(Msgs) /\ Once'
             /\ \A k \in {"Started", "Died"}, e \in Epochs :
                   About(k, e) \in Mailed' => About(k, e) \in Mailed
  BY <1>2, ReceivesAdds DEF Servers, MailTyped, StartsOK, About
<1> QED
  BY <1>1, <1>2

LEMMA QuietServers ==
    ASSUME Servers, Quiet
    PROVE  ServerTyped' /\ EpochsOK' /\ StartsOK'
<1>1. /\ Once'
      /\ \A k \in {"Started", "Died"}, e \in Epochs :
            About(k, e) \in Mailed' => About(k, e) \in Mailed
  BY QuietMail DEF Quiet
<1>2. UNCHANGED <<srv, windows, attempt, proc, known, ready, sup, closing, actor>>
  BY DEF Quiet, serverVars
<1>3. ServerTyped'
  BY <1>2 DEF Servers, ServerTyped
<1>4. EpochsOK'
  BY <1>1, <1>2 DEF Servers, EpochsOK
<1>5. StartsOK'
  BY <1>1, <1>2 DEF Servers, StartsOK
<1> QED
  BY <1>3, <1>4, <1>5

\* The servers change their state but not their epochs, and nothing is reported.
LEMMA SameEpoch ==
    ASSUME Servers, Shrinks \/ \E m \in Msgs : Receives(m) /\ m.kind \notin {"Started", "Died"},
           ServerTyped', srv'.epoch = srv.epoch,
           srv'.state = "Up" => srv.state = "Up",
           srv'.state = "Idle" => srv.state = "Idle" \/ actor' = "gone",
           actor' \in {actor, "gone"},
           srv.epoch <= windows' + (IF srv'.recent THEN 2 ELSE 1),
           attempt' = attempt,
           \A e \in Epochs : proc[e] = "none" => proc'[e] = "none",
           known \subseteq known'
    PROVE  EpochsOK' /\ StartsOK'
<1>1. /\ Once'
      /\ \A k \in {"Started", "Died"}, e \in Epochs :
            About(k, e) \in Mailed' => About(k, e) \in Mailed
  BY QuietMail
<1>2. EpochsOK'
  BY <1>1 DEF Servers, EpochsOK
<1>3. StartsOK'
  BY <1>1 DEF Servers, StartsOK
<1> QED
  BY <1>2, <1>3

LEMMA StartedServers ==
    ASSUME Servers, OnStarted
    PROVE  ServerTyped' /\ EpochsOK' /\ StartsOK' /\ RowTyped'
<1> DEFINE e == Head(mail).epoch
<1>1. /\ e \in Epochs /\ Head(mail) = About("Started", e) /\ Head(mail) \in Mailed /\ Shrinks
      /\ Head(mail).kind = "Started" /\ Handles("Started")
  BY HeadIsMailed DEF Servers, MailTyped, OnStarted, Reports
<1>2. /\ e = srv.epoch /\ srv' = [srv EXCEPT !.state = "Up"]
      /\ sup' = [sup EXCEPT ![e] = [state |-> "watch", last |-> ready[e]]]
      /\ row' = RowOf(srv') /\ pids' = PidsOf(srv')
      /\ UNCHANGED <<actor, windows, attempt, proc, known, ready, closing>>
  BY DEF OnStarted
<1>3. Mailed' \subseteq Mailed /\ Once'
  BY <1>1, ShrinksLoses DEF Servers, MailTyped, StartsOK
<1>4. About("Started", e) \notin Mailed'
  <2>1. /\ mail \in Seq(Msgs) /\ mail # <<>> /\ mail' = Tail(mail) /\ Once
    BY <1>1 DEF Handles, Servers, MailTyped, StartsOK
  <2>2. /\ Head(mail) = mail[1] /\ Len(mail) \in Nat /\ Len(mail) >= 1
        /\ Len(mail') = Len(mail) - 1
        /\ \A i \in 1 .. Len(mail) - 1 : i + 1 \in 1 .. Len(mail) /\ mail'[i] = mail[i + 1]
    BY <2>1, TailDrops
  <2> SUFFICES ASSUME NEW i \in 1..Len(mail'), mail'[i] = About("Started", e) PROVE FALSE
    BY DEF Mailed
  <2>3. i + 1 \in 1..Len(mail) /\ mail[i + 1] = mail[1] /\ 1 \in 1..Len(mail)
    BY <1>1, <2>2
  <2>4. i + 1 = 1
    BY <1>1, <2>1, <2>2, <2>3 DEF Once
  <2> QED
    BY <2>2, <2>4
<1>5. attempt[e] = "started"
  BY <1>1 DEF Servers, StartsOK
<1>6. /\ srv' \in Server /\ srv'.state = "Up" /\ srv'.epoch = srv.epoch /\ srv'.recent = srv.recent
  BY <1>2 DEF Servers, ServerTyped, Server, States
<1>7. ServerTyped'
  <2>1. ready[e] \in {Loading, Caveat, Ready}
    BY <1>1 DEF Servers, ServerTyped
  <2> QED
    BY <1>1, <1>2, <1>6, <2>1 DEF Servers, ServerTyped
<1>8. EpochsOK'
  BY <1>2, <1>3, <1>6 DEF Servers, EpochsOK
<1>9. StartsOK'
  BY <1>1, <1>2, <1>3, <1>4, <1>5, <1>6 DEF Servers, StartsOK
<1>10. RowTyped'
  <2>1. /\ RowOf(srv') \in {"none", "Starting", "Failed", "Unavailable", Loading, Caveat, Ready}
        /\ PidsOf(srv') \subseteq Epochs
    BY <1>1, <1>2, <1>6, RowOfTyped DEF Servers
  <2> QED
    BY <1>2, <2>1 DEF RowTyped
<1> QED
  BY <1>7, <1>8, <1>9, <1>10

LEMMA StartFailedServers ==
    ASSUME Servers, OnStartFailed
    PROVE  ServerTyped' /\ EpochsOK' /\ StartsOK' /\ RowTyped'
<1>1. Shrinks
  BY HeadIsMailed DEF Servers, MailTyped, OnStartFailed
<1>2. /\ srv' \in Server /\ srv'.state = "Failed" /\ srv'.epoch = srv.epoch
      /\ srv'.recent = srv.recent
  BY DEF OnStartFailed, Servers, ServerTyped, Server, States
<1>3. ServerTyped'
  BY <1>2 DEF OnStartFailed, Servers, ServerTyped
<1>4. RowTyped'
  BY DEF OnStartFailed, RowTyped
<1>5. EpochsOK' /\ StartsOK'
  BY <1>1, <1>2, <1>3, SameEpoch DEF OnStartFailed, Servers, EpochsOK
<1> QED
  BY <1>3, <1>4, <1>5

LEMMA DiedServers ==
    ASSUME Servers, OnDied
    PROVE  ServerTyped' /\ EpochsOK' /\ StartsOK' /\ RowTyped'
<1>1. /\ Shrinks /\ Head(mail).epoch \in Epochs /\ About("Died", Head(mail).epoch) \in Mailed
      /\ Head(mail).epoch = srv.epoch
  BY HeadIsMailed DEF Servers, MailTyped, OnDied, Reports
<1>2. srv.epoch \in Epochs /\ srv.epoch \in known /\ srv \in Server /\ windows \in 0..MaxWindows
  BY <1>1 DEF Servers, EpochsOK, ServerTyped
<1>3. CASE ~srv.recent /\ Started(srv, EnsureStarted([srv EXCEPT !.state = "Idle", !.recent = TRUE]))
  <2> DEFINE s == [srv EXCEPT !.state = "Idle", !.recent = TRUE]
  <2>1. s \in Server /\ s.state = "Idle" /\ s.epoch = srv.epoch /\ s.recent = TRUE
    BY <1>2 DEF Server, States
  <2>2. srv.epoch <= windows + 1
    BY <1>3 DEF Servers, EpochsOK
  <2>3. s.epoch + 1 <= MaxWindows + 2 /\ srv.epoch + 1 <= windows + 2
    BY <1>2, <2>1, <2>2, SessionBounds DEF Epochs
  <2>4. EnsureStarted(s) \in Server
        /\ EnsureStarted(s) = [state |-> "Starting", epoch |-> srv.epoch + 1, recent |-> TRUE]
    BY <2>1, <2>3, EnsureStartedIs
  <2>5. UNCHANGED <<actor, windows, known, ready, sup, closing>>
    BY DEF OnDied
  <2> HIDE DEF s
  <2> QED
    BY <1>1, <1>2, <1>3, <2>3, <2>4, <2>5, NextServer DEF s
<1>4. CASE srv.recent /\ srv' = [srv EXCEPT !.state = "Failed"] /\ row' = "Failed" /\ pids' = {}
           /\ UNCHANGED <<attempt, proc>>
  <2>1. /\ srv' \in Server /\ srv'.state = "Failed" /\ srv'.epoch = srv.epoch
        /\ srv'.recent = srv.recent
    BY <1>2, <1>4 DEF Server, States
  <2>2. ServerTyped'
    BY <1>4, <2>1 DEF OnDied, Servers, ServerTyped
  <2>3. RowTyped'
    BY <1>4 DEF RowTyped
  <2>4. EpochsOK' /\ StartsOK'
    BY <1>1, <1>4, <2>1, <2>2, SameEpoch DEF OnDied, Servers, EpochsOK
  <2> QED
    BY <2>2, <2>3, <2>4
<1> QED
  BY <1>3, <1>4 DEF OnDied

LEMMA FirstServers ==
    ASSUME Servers, OnOpen \/ OnAskUnready
    PROVE  ServerTyped' /\ EpochsOK' /\ StartsOK' /\ RowTyped'
<1>1. /\ Shrinks /\ actor = "run" /\ Started(srv, EnsureStarted(srv))
      /\ UNCHANGED <<actor, windows, known, ready, sup, closing>>
  BY HeadIsMailed DEF Servers, MailTyped, OnOpen, OnAskUnready, Handles
<1> QED
  BY <1>1, FirstServer, NextServer

LEMMA TearDownServers ==
    ASSUME Servers, TearDown
    PROVE  ServerTyped' /\ EpochsOK' /\ StartsOK' /\ RowTyped'
<1>1. Shrinks /\ actor' = "gone"
  BY DEF TearDown, Shrinks
<1>2. /\ srv' \in Server /\ srv'.state # "Up" /\ srv'.epoch = srv.epoch
      /\ srv'.recent = srv.recent
  BY DEF TearDown, Servers, ServerTyped, Server, States
<1>3. closing' \subseteq Epochs
  BY DEF TearDown, Servers, ServerTyped, StartsOK
<1>4. ServerTyped'
  BY <1>2, <1>3 DEF TearDown, Servers, ServerTyped
<1>5. RowTyped'
  BY DEF TearDown, RowTyped
<1>6. EpochsOK' /\ StartsOK'
  BY <1>1, <1>2, <1>4, SameEpoch DEF TearDown, Servers, EpochsOK
<1> QED
  BY <1>4, <1>5, <1>6

LEMMA StartEndsServers ==
    ASSUME Servers, NEW e \in Epochs, Start(e)
    PROVE  ServerTyped' /\ EpochsOK' /\ StartsOK'
<1>1. PICK how \in {"started", "failed"}, k \in {"Started", "StartFailed"} :
           StartEnds(e, how, k) /\ (k = "Started" => how = "started")
  BY DEF Start, StartSucceeds, StartFails
<1>2. /\ attempt[e] = "starting" /\ attempt' = [attempt EXCEPT ![e] = how]
      /\ mail' = mail \/ Receives(About(k, e))
      /\ UNCHANGED <<actor, srv, windows, proc, known, ready, sup, closing>>
  BY <1>1 DEF StartEnds, Receives
<1>3. ServerTyped'
  BY <1>2 DEF Servers, ServerTyped
<1>4. About(k, e) \in Msgs
  BY DEF About, Msgs, Reports
<1>5. About("Started", e) \notin Mailed
  BY <1>2 DEF Servers, StartsOK
<1>6. mail \in Seq(Msgs) /\ Once
  BY DEF Servers, MailTyped, StartsOK
<1>7. Once' /\ Mailed' \subseteq Mailed \cup {About(k, e)}
  <2>1. CASE mail' = mail
    BY <1>6, <2>1 DEF Once, Mailed
  <2>2. CASE Receives(About(k, e))
    <3>1. About(k, e).kind # "Started" \/ About(k, e) \notin Mailed
      BY <1>5 DEF About
    <3> QED
      BY <1>4, <1>6, <2>2, <3>1, ReceivesAdds
  <2> QED
    BY <1>2, <2>1, <2>2
<1>8. EpochsOK'
  <2>1. \A x \in Epochs : About("Died", x) \in Mailed' => About("Died", x) \in Mailed
    BY <1>7 DEF About
  <2>2. ~(e > srv.epoch)
    BY <1>2 DEF Servers, EpochsOK
  <2>3. \A x \in Epochs : x > srv.epoch => attempt'[x] = attempt[x]
    BY <1>2, <2>2 DEF Servers, ServerTyped
  <2> QED
    BY <1>2, <2>1, <2>3 DEF Servers, EpochsOK
<1>9. StartsOK'
  <2>1. \A x \in Epochs : About("Started", x) \in Mailed' => attempt'[x] = "started"
    <3> SUFFICES ASSUME NEW x \in Epochs, About("Started", x) \in Mailed' PROVE attempt'[x] = "started"
      OBVIOUS
    <3>1. CASE About("Started", x) \in Mailed
      <4>1. x # e /\ attempt[x] = "started"
        BY <1>5, <3>1 DEF Servers, StartsOK
      <4> QED
        BY <1>2, <4>1 DEF Servers, ServerTyped
    <3>2. CASE About("Started", x) = About(k, e)
      <4>1. k = "Started" /\ x = e
        BY <3>2 DEF About
      <4> QED
        BY <1>1, <1>2, <4>1 DEF Servers, ServerTyped
    <3> QED
      BY <1>7, <3>1, <3>2
  <2>2. srv.state = "Up" => srv.epoch # e /\ srv.epoch \in Epochs
    BY <1>2 DEF Servers, StartsOK
  <2>3. srv.state = "Up" => About("Started", srv.epoch) # About(k, e)
    BY <2>2 DEF About
  <2> QED
    BY <1>2, <1>7, <2>1, <2>2, <2>3 DEF Servers, StartsOK, ServerTyped
<1> QED
  BY <1>3, <1>8, <1>9

LEMMA SupervisorServers ==
    ASSUME Servers, NEW e \in Epochs, Supervisor(e)
    PROVE  ServerTyped' /\ EpochsOK' /\ StartsOK'
<1>1. sup' \in [Epochs -> [state : {"none", "watch", "end"}, last : {Loading, Caveat, Ready}]]
  <2>1. /\ [sup[e] EXCEPT !.last = ready[e]] \in [state : {"none", "watch", "end"}, last : {Loading, Caveat, Ready}]
        /\ [sup[e] EXCEPT !.state = "end"] \in [state : {"none", "watch", "end"}, last : {Loading, Caveat, Ready}]
    BY DEF Servers, ServerTyped
  <2>2. sup' = [sup EXCEPT ![e] = [sup[e] EXCEPT !.last = ready[e]]]
        \/ sup' = [sup EXCEPT ![e] = [sup[e] EXCEPT !.state = "end"]]
    BY DEF Supervisor, SupervisorReports, SupervisorEnds
  <2> QED
    BY <2>1, <2>2 DEF Servers, ServerTyped
<1>2. UNCHANGED <<actor, srv, windows, attempt, proc, known, ready, closing>>
  BY DEF Supervisor, SupervisorReports, SupervisorEnds
<1>3. ServerTyped'
  BY <1>1, <1>2 DEF Servers, ServerTyped
<1>4. CASE SupervisorReports(e)
  <2>1. About("Readiness", e) \in Msgs /\ About("Readiness", e).kind = "Readiness"
    BY DEF About, Msgs, Reports
  <2>2. mail' = mail \/ Receives(About("Readiness", e))
    BY <1>4 DEF SupervisorReports, Tell, Receives
  <2>3. Shrinks \/ \E m \in Msgs : Receives(m) /\ m.kind \notin {"Started", "Died"}
    BY <2>1, <2>2 DEF Shrinks
  <2> QED
    BY <1>2, <1>3, <2>3, SameEpoch DEF Servers, EpochsOK
<1>5. CASE SupervisorEnds(e)
  <2>1. mail' = mail \/ (Receives(About("Died", e)) /\ e \in known)
    BY <1>5 DEF SupervisorEnds, Tell, Receives
  <2>2. CASE mail' = mail
    <3>1. Shrinks
      BY <2>2 DEF Shrinks
    <3> QED
      BY <1>2, <1>3, <3>1, SameEpoch DEF Servers, EpochsOK
  <2>3. CASE Receives(About("Died", e)) /\ e \in known
    <3>1. About("Died", e) \in Msgs /\ About("Died", e).kind = "Died"
      BY DEF About, Msgs, Reports
    <3>2. Mailed' = Mailed \cup {About("Died", e)} /\ Once'
      BY <2>3, <3>1, ReceivesAdds DEF Servers, MailTyped, StartsOK
    <3>3. \A x \in Epochs : About("Started", x) # About("Died", e)
                            /\ (About("Died", x) = About("Died", e) => x = e)
      BY DEF About
    <3>4. EpochsOK'
      BY <1>2, <2>3, <3>2, <3>3 DEF Servers, EpochsOK
    <3>5. StartsOK'
      BY <1>2, <3>2, <3>3 DEF Servers, StartsOK
    <3> QED
      BY <1>3, <3>4, <3>5
  <2> QED
    BY <2>1, <2>2, <2>3
<1> QED
  BY <1>4, <1>5 DEF Supervisor

LEMMA EnvironmentServers ==
    ASSUME Servers, (\E e \in Epochs : Environment(e)) \/ WindowPasses
    PROVE  ServerTyped' /\ EpochsOK' /\ StartsOK'
<1>1. Shrinks /\ actor' = actor /\ attempt' = attempt
  BY DEF Environment, ServerPrimes, ProcessExits, DeathPublished, WindowPasses, Shrinks
<1>2. ASSUME NEW e \in Epochs, Environment(e) PROVE ServerTyped' /\ EpochsOK' /\ StartsOK'
  <2>1. ServerTyped'
    BY <1>2 DEF Environment, ServerPrimes, ProcessExits, DeathPublished, Servers, ServerTyped
  <2>2. srv' = srv /\ windows' = windows /\ known \subseteq known'
    BY <1>2 DEF Environment, ServerPrimes, ProcessExits, DeathPublished
  <2>3. \A x \in Epochs : proc[x] = "none" => proc'[x] = "none"
    BY <1>2 DEF Environment, ServerPrimes, ProcessExits, DeathPublished, Servers, ServerTyped
  <2> QED
    BY <1>1, <2>1, <2>2, <2>3, SameEpoch DEF Servers, EpochsOK
<1>3. CASE WindowPasses
  <2>1. /\ srv' \in Server /\ srv'.state = srv.state /\ srv'.epoch = srv.epoch
        /\ srv'.recent = FALSE
    BY <1>3 DEF WindowPasses, Servers, ServerTyped, Server
  <2>2. windows' = windows + 1 /\ windows' \in 0..MaxWindows /\ windows \in Nat
    BY <1>3, SessionBounds DEF WindowPasses, Servers, ServerTyped
  <2>3. ServerTyped'
    BY <1>3, <2>1, <2>2 DEF WindowPasses, Servers, ServerTyped
  <2>4. srv.epoch <= windows + 2 /\ srv.epoch \in Nat
    BY <2>2 DEF Servers, EpochsOK, ServerTyped, Server
  <2>5. srv.epoch <= windows' + (IF srv'.recent THEN 2 ELSE 1)
    BY <2>1, <2>2, <2>4
  <2>6. UNCHANGED <<proc, known>>
    BY <1>3 DEF WindowPasses
  <2> QED
    BY <1>1, <2>1, <2>3, <2>5, <2>6, SameEpoch
<1> QED
  BY <1>2, <1>3

LEMMA TellReceives ==
    ASSUME NEW m \in Msgs, Tell(m), m.kind \notin {"Started", "Died"}
    PROVE  Shrinks \/ \E x \in Msgs : Receives(x) /\ x.kind \notin {"Started", "Died"}
BY DEF Tell, Shrinks, Receives

LEMMA TellSends ==
    ASSUME NEW m \in Msgs, Tell(m)
    PROVE  Shrinks \/ Receives(m)
BY DEF Tell, Shrinks, Receives

LEMMA EditorTells ==
    ASSUME RestTyped, NEW d \in Docs, EditorOpens(d) \/ EditorTypes(d) \/ EditorCloses(d)
    PROVE  /\ \E m \in Msgs : /\ Tell(m) /\ m.kind \in EditKinds /\ m.doc = d
                             /\ m.text = editor'[d] /\ m.text \in {0, NewText}
           /\ acts' = acts + 1
           /\ \A x \in Docs : x # d => editor'[x] = editor[x]
           /\ editor' \in [Docs -> Stamps] /\ acts' \in 0..MaxActs
<1>1. acts' \in 0..MaxActs /\ NewText \in Stamps \ {0} /\ 0 \in Stamps
  BY SessionBounds DEF RestTyped, EditorOpens, EditorTypes, EditorCloses, EditorActs, Stamps, NewText
<1>2. CASE EditorOpens(d)
  <2>1. Message("Open", d, NewText) \in Msgs
    BY <1>1 DEF Message, Msgs
  <2> QED
    BY <1>1, <1>2, <2>1 DEF EditorOpens, EditorActs, RestTyped, Message, EditKinds
<1>3. CASE EditorTypes(d)
  <2>1. Message("Change", d, NewText) \in Msgs
    BY <1>1 DEF Message, Msgs
  <2> QED
    BY <1>1, <1>3, <2>1 DEF EditorTypes, EditorActs, RestTyped, Message, EditKinds
<1>4. CASE EditorCloses(d)
  <2>1. Message("Close", d, 0) \in Msgs
    BY <1>1 DEF Message, Msgs
  <2> QED
    BY <1>1, <1>4, <2>1 DEF EditorCloses, EditorActs, RestTyped, Message, EditKinds
<1> QED
  BY <1>2, <1>3, <1>4

LEMMA QuietSteps ==
    ASSUME Servers,
           \/ Editor \/ (\E r \in Asks, k \in Kinds, d \in Docs : Asking(r, k, d))
           \/ RequestTeardown \/ DropHandles \/ OnChange \/ OnClose
           \/ OnAskUnreadable \/ OnAsk \/ OnReadiness \/ (\E r \in Asks : Task(r))
           \/ UNCHANGED vars
    PROVE  Quiet /\ RowTyped'
<1> USE DEF Servers
<1>1. CASE Editor
  <2>1. PICK d \in Docs : EditorOpens(d) \/ EditorTypes(d) \/ EditorCloses(d)
    BY <1>1 DEF Editor
  <2>2. PICK m \in Msgs : Tell(m) /\ m.kind \in EditKinds
    BY <2>1, EditorTells
  <2>3. UNCHANGED <<serverVars, actor, row, pids>>
    BY <2>1 DEF EditorOpens, EditorTypes, EditorCloses
  <2> QED
    BY <2>2, <2>3, TellReceives DEF Quiet, RowTyped, EditKinds
<1>2. ASSUME NEW r \in Asks, NEW k \in Kinds, NEW d \in Docs, Asking(r, k, d)
      PROVE  Quiet /\ RowTyped'
  <2>1. Request(r) \in Msgs /\ Request(r).kind = "Ask"
    BY DEF Request, Msgs
  <2> QED
    BY <1>2, <2>1, TellReceives DEF Asking, Quiet, RowTyped
<1>3. CASE RequestTeardown
  <2>1. About("Teardown", 0) \in Msgs /\ About("Teardown", 0).kind = "Teardown"
    BY DEF About, Msgs
  <2> QED
    BY <1>3, <2>1, TellReceives DEF RequestTeardown, Quiet, RowTyped
<1>4. CASE DropHandles \/ (\E r \in Asks : Task(r)) \/ UNCHANGED vars
  BY <1>4 DEF DropHandles, Task, TaskAsks, TaskEnds, vars, Quiet, Shrinks, RowTyped
<1>5. CASE OnChange \/ OnClose \/ OnAskUnreadable \/ OnAsk
  <2>1. Shrinks
    BY <1>5, HeadIsMailed DEF MailTyped, OnChange, OnClose, OnAskUnreadable, OnAsk
  <2> QED
    BY <1>5, <2>1 DEF OnChange, OnClose, OnAskUnreadable, OnAsk, Quiet, RowTyped
<1>6. CASE OnReadiness
  <2>1. Shrinks /\ Head(mail).epoch \in Epochs /\ Head(mail).epoch = srv.epoch
    BY <1>6, HeadIsMailed DEF MailTyped, OnReadiness, Reports
  <2>2. /\ RowOf(srv) \in {"none", "Starting", "Failed", "Unavailable", Loading, Caveat, Ready}
        /\ PidsOf(srv) \subseteq Epochs
    BY <2>1, RowOfTyped DEF ServerTyped
  <2> QED
    BY <1>6, <2>1, <2>2 DEF OnReadiness, Quiet, RowTyped
<1> QED
  BY <1>1, <1>2, <1>3, <1>4, <1>5, <1>6

\* The servers, their epochs and their starts, whatever happens.
LEMMA ServersStep ==
    ASSUME Servers, [Next]_vars
    PROVE  ServerTyped' /\ EpochsOK' /\ StartsOK' /\ RowTyped'
<1>1. CASE \/ Editor \/ (\E r \in Asks, k \in Kinds, d \in Docs : Asking(r, k, d))
           \/ RequestTeardown \/ DropHandles \/ OnChange \/ OnClose
           \/ OnAskUnreadable \/ OnAsk \/ OnReadiness \/ (\E r \in Asks : Task(r))
           \/ UNCHANGED vars
  BY <1>1, QuietSteps, QuietServers
<1>2. CASE OnOpen \/ OnAskUnready
  BY <1>2, FirstServers
<1>3. CASE OnStarted
  BY <1>3, StartedServers
<1>4. CASE OnStartFailed
  BY <1>4, StartFailedServers
<1>5. CASE OnDied
  BY <1>5, DiedServers
<1>6. CASE TearDown
  BY <1>6, TearDownServers
<1>7. CASE (\E e \in Epochs : Start(e) \/ Supervisor(e) \/ Environment(e)) \/ WindowPasses
  <2>1. ServerTyped' /\ EpochsOK' /\ StartsOK'
    BY <1>7, StartEndsServers, SupervisorServers, EnvironmentServers
  <2>2. UNCHANGED <<row, pids>>
    BY <1>7 DEF Start, StartSucceeds, StartFails, StartEnds, Supervisor, SupervisorReports,
       SupervisorEnds, Environment, ServerPrimes, ProcessExits, DeathPublished, WindowPasses
  <2> QED
    BY <2>1, <2>2 DEF Servers, RowTyped
<1> QED
  BY <1>1, <1>2, <1>3, <1>4, <1>5, <1>6, <1>7 DEF Next, Actor

-----------------------------------------------------------------------------
(* The mirror and the servers' view of it                                  *)

MirrorOK ==
    \A d \in Docs : /\ mirror[d].version <= high[d]
                    /\ mirror[d].text = 0 => mirror[d] = NotOpen
                    /\ mirror[d].text # 0 => mirror[d].version >= 1

\* Server e has been told what the mirror holds, and the mirror knows that it has been told.
Follows(e) ==
    \A d \in Docs : /\ view[e][d] = [text |-> mirror[d].text, version |-> mirror[d].version]
                    /\ mirror[d].told = (mirror[d].text # 0)
Synced == actor = "run" /\ LiveClient => Follows(srv.epoch)

SentBelow == actor = "run" => \A e \in Epochs, d \in Docs : sent[e][d] <= high[d]

\* A server is told nothing before its start has been heard of.
SentLate ==
    \A e \in Epochs : attempt[e] \in {"none", "starting"} \/ About("Started", e) \in Mailed
                          => \A d \in Docs : sent[e][d] = 0

Documents == DocsTyped /\ MirrorOK /\ Synced /\ SentBelow /\ SentLate

\* The step of VersionsOnlyGrow.
Grows ==
    \A e \in Epochs, d \in Docs :
        view'[e][d] # view[e][d] /\ view'[e][d] # Closed => view'[e][d].version > sent[e][d]

\* An update of one document that Documents and the client agree on.
Fits(d, u) ==
    /\ u.entry \in Entry /\ u.high \in Nat /\ u.high >= high[d] /\ u.entry.version <= u.high
    /\ u.entry.text = 0 => u.entry = NotOpen
    /\ u.entry.text # 0 => u.entry.version >= 1
    /\ LiveClient =>
          /\ u.entry.told = (u.entry.text # 0)
          /\ \/ u.action = "didOpen" /\ u.entry.version > high[d]
             \/ u.action = "didChange" /\ u.entry.version > high[d] /\ mirror[d].text # 0
             \/ u.action = "didClose" /\ u.entry = NotOpen
             \/ /\ u.action = "none"
                /\ u.entry.text = mirror[d].text /\ u.entry.version = mirror[d].version

LEMMA OpenFits ==
    ASSUME Documents, actor = "run", NEW d \in Docs, NEW t \in Stamps \ {0}, NEW l \in BOOLEAN,
           LiveClient => l
    PROVE  Fits(d, OpenIn(d, t, l))
<1>1. mirror[d] \in Entry /\ high[d] \in Nat
  BY DEF Documents, DocsTyped
<1> DEFINE u == OpenIn(d, t, l)
<1>2. /\ u.entry = [text |-> t, version |-> high[d] + 1, told |-> mirror[d].told \/ l]
      /\ u.high = high[d] + 1
      /\ u.action = IF mirror[d].told THEN "didChange" ELSE IF l THEN "didOpen" ELSE "none"
  BY DEF OpenIn
<1>3. u.entry \in Entry /\ u.entry.text # 0 /\ u.entry.version = high[d] + 1
      /\ u.entry.told = (mirror[d].told \/ l)
  BY <1>1, <1>2 DEF Entry
<1>4. LiveClient => (mirror[d].told = (mirror[d].text # 0))
  BY DEF Documents, Synced, Follows
<1>5. LiveClient => (u.action = "didChange" /\ mirror[d].text # 0) \/ u.action = "didOpen"
  BY <1>2, <1>4
<1>6. LiveClient => u.entry.told = (u.entry.text # 0)
  BY <1>3
<1> HIDE DEF u
<1> QED
  BY <1>1, <1>2, <1>3, <1>5, <1>6 DEF Fits, u

LEMMA ChangeFits ==
    ASSUME Documents, actor = "run", NEW d \in Docs, NEW t \in Stamps \ {0}
    PROVE  Fits(d, ChangeIn(d, t))
<1>1. /\ mirror[d] \in Entry /\ high[d] \in Nat /\ mirror[d].version <= high[d]
      /\ mirror[d].text = 0 => mirror[d] = NotOpen
      /\ mirror[d].text # 0 => mirror[d].version >= 1
  BY DEF Documents, DocsTyped, MirrorOK
<1>2. LiveClient => (mirror[d].told = (mirror[d].text # 0))
  BY DEF Documents, Synced, Follows
<1>3. CASE mirror[d].text = 0
  <2>1. ChangeIn(d, t) = [entry |-> mirror[d], high |-> high[d], action |-> "none"]
    BY <1>3 DEF ChangeIn
  <2> QED
    BY <1>1, <1>2, <2>1 DEF Fits
<1>4. CASE mirror[d].text # 0
  <2> DEFINE v == [mirror[d] EXCEPT !.text = t, !.version = high[d] + 1]
  <2>1. ChangeIn(d, t) = [entry |-> v, high |-> high[d] + 1,
                          action |-> IF mirror[d].told THEN "didChange" ELSE "none"]
    BY <1>4 DEF ChangeIn
  <2>2. v.told = mirror[d].told
    BY <1>1 DEF Entry
  <2>3. v \in Entry /\ v.text = t /\ v.version = high[d] + 1
    <3>1. t \in Stamps /\ high[d] + 1 \in Nat
      BY <1>1
    <3>2. v.text = t /\ v.version = high[d] + 1
      BY <1>1 DEF Entry
    <3>3. v \in Entry
      BY <1>1, <3>1 DEF Entry
    <3> QED
      BY <3>2, <3>3
  <2> HIDE DEF v
  <2>4. LiveClient => v.told = (v.text # 0) /\ mirror[d].told
    <3>1. LiveClient => mirror[d].told
      BY <1>2, <1>4
    <3>2. v.told = mirror[d].told /\ v.text # 0
      BY <2>2, <2>3
    <3>3. mirror[d].told \in BOOLEAN
      BY <1>1 DEF Entry
    <3> QED
      BY <3>1, <3>2, <3>3
  <2> QED
    BY <1>1, <1>4, <2>1, <2>3, <2>4 DEF Fits
<1> QED
  BY <1>3, <1>4

LEMMA CloseFits ==
    ASSUME Documents, actor = "run", NEW d \in Docs
    PROVE  Fits(d, CloseIn(d))
<1>1. mirror[d] \in Entry /\ high[d] \in Nat /\ (mirror[d].text = 0 => mirror[d] = NotOpen)
  BY DEF Documents, DocsTyped, MirrorOK
<1>2. /\ NotOpen \in Entry /\ NotOpen.text = 0 /\ NotOpen.version = 0
      /\ NotOpen.told = (NotOpen.text # 0)
  <2>1. NotOpen \in Entry /\ NotOpen.text = 0 /\ NotOpen.version = 0
    BY SessionBounds DEF NotOpen, Entry, Stamps
  <2>2. NotOpen.told = FALSE
    BY DEF NotOpen
  <2> QED
    BY <2>1, <2>2
<1>3. LiveClient => (mirror[d].told = (mirror[d].text # 0))
  BY DEF Documents, Synced, Follows
<1>4. LiveClient => \/ CloseIn(d).action = "didClose"
                    \/ CloseIn(d).action = "none" /\ mirror[d] = NotOpen
  BY <1>1, <1>3 DEF CloseIn
<1>5. CloseIn(d).entry = NotOpen /\ CloseIn(d).high = high[d]
  BY DEF CloseIn
<1> QED
  BY <1>1, <1>2, <1>4, <1>5 DEF Fits

\* The mirror takes an update that fits, and the live server follows it.
LEMMA UpdateFollows ==
    ASSUME Documents, Servers, actor = "run", NEW d \in Docs, NEW u, Fits(d, u), Update(d, u)
    PROVE  /\ DocsTyped' /\ MirrorOK' /\ Grows
           /\ \A e \in Epochs, x \in Docs : sent'[e][x] <= high'[x]
           /\ \A e \in Epochs : LiveClient /\ e = srv.epoch => Follows(e)'
           /\ \A e \in Epochs : ~(LiveClient /\ e = srv.epoch) => sent'[e] = sent[e]
<1> USE DEF Documents
<1>1. /\ mirror' = [mirror EXCEPT ![d] = u.entry] /\ high' = [high EXCEPT ![d] = u.high]
      /\ u.entry \in Entry /\ u.high \in Nat /\ u.high >= high[d] /\ u.entry.version <= u.high
      /\ \A x \in Docs : mirror[x] \in Entry /\ high[x] \in Nat
  BY DEF Update, Fits, DocsTyped
<1>2. MirrorOK'
  BY <1>1 DEF Fits, MirrorOK, DocsTyped
<1>3. \A x \in Docs : high'[x] >= high[x] /\ high'[x] \in Nat
  BY <1>1 DEF DocsTyped
<1>4. CASE ~LiveClient
  <2>1. UNCHANGED <<view, sent>>
    BY <1>4 DEF Update
  <2>2. DocsTyped'
    BY <1>1, <2>1 DEF DocsTyped
  <2>3. \A e \in Epochs, x \in Docs : sent'[e][x] <= high'[x]
    BY <1>3, <2>1 DEF SentBelow, DocsTyped
  <2> QED
    BY <1>2, <1>4, <2>1, <2>2, <2>3 DEF Grows
<1>5. CASE LiveClient
  <2>1. PICK e \in Epochs : e = srv.epoch
    BY <1>5 DEF LiveClient, Servers, StartsOK
  <2> DEFINE now == Forward(view[e][d], u)
  <2>2. /\ view[e][d] = [text |-> mirror[d].text, version |-> mirror[d].version]
        /\ sent[e][d] \in Nat /\ sent[e][d] <= high[d]
    BY <1>5, <2>1 DEF Synced, Follows, SentBelow, DocsTyped
  <2>3. now = [text |-> u.entry.text, version |-> u.entry.version]
    <3>1. CASE u.action = "didOpen" \/ (u.action = "didChange" /\ mirror[d].text # 0)
      BY <2>2, <3>1 DEF Forward
    <3>2. CASE u.action = "didClose" /\ u.entry = NotOpen
      BY <3>2 DEF Forward, Closed, NotOpen
    <3>3. CASE /\ u.action = "none"
               /\ u.entry.text = mirror[d].text /\ u.entry.version = mirror[d].version
      BY <2>2, <3>3 DEF Forward
    <3> QED
      BY <1>5, <3>1, <3>2, <3>3 DEF Fits
  <2>4. \/ now = view[e][d] \/ now = Closed
        \/ now.version > high[d]
    <3>1. CASE u.action \in {"didOpen", "didChange"} /\ u.entry.version > high[d]
      BY <2>3, <3>1
    <3>2. CASE u.action = "didClose" /\ u.entry = NotOpen
      BY <2>3, <3>2 DEF Closed, NotOpen
    <3>3. CASE /\ u.action = "none"
               /\ u.entry.text = mirror[d].text /\ u.entry.version = mirror[d].version
      BY <2>2, <2>3, <3>3
    <3> QED
      BY <1>5, <3>1, <3>2, <3>3 DEF Fits
  <2>5. /\ view' = [view EXCEPT ![e][d] = now]
        /\ sent' = [sent EXCEPT ![e][d] = IF now.version > @ THEN now.version ELSE @]
    BY <1>5, <2>1 DEF Update
  <2>6. now \in TellTale /\ now.version = u.entry.version /\ now.version \in Nat
    BY <1>1, <2>3 DEF Entry, TellTale
  <2> HIDE DEF now
  <2>7. /\ view'[e][d] = now
        /\ \A x \in Docs : x # d => view'[e][x] = view[e][x] /\ sent'[e][x] = sent[e][x]
        /\ \A f \in Epochs : f # e => view'[f] = view[f] /\ sent'[f] = sent[f]
        /\ sent'[e][d] = IF now.version > sent[e][d] THEN now.version ELSE sent[e][d]
    BY <2>1, <2>5 DEF DocsTyped
  <2>8. DocsTyped'
    BY <1>1, <2>1, <2>2, <2>5, <2>6 DEF DocsTyped
  <2>9. Grows
    BY <1>1, <2>1, <2>2, <2>4, <2>6, <2>7 DEF Grows
  <2>10. \A f \in Epochs, x \in Docs : sent'[f][x] <= high'[x]
    <3>1. sent'[e][d] <= high'[d]
      BY <1>1, <1>3, <2>2, <2>6, <2>7 DEF DocsTyped
    <3>2. \A f \in Epochs, x \in Docs : sent[f][x] <= high'[x]
      BY <1>3 DEF SentBelow, DocsTyped
    <3> QED
      BY <2>1, <2>7, <3>1, <3>2
  <2>11. Follows(e)'
    <3>1. Follows(e)
      BY <1>5, <2>1 DEF Synced
    <3>2. mirror'[d] = u.entry /\ u.entry.told = (u.entry.text # 0)
      BY <1>1, <1>5 DEF Fits, DocsTyped
    <3>3. \A x \in Docs : x # d => mirror'[x] = mirror[x]
      BY <1>1 DEF DocsTyped
    <3> QED
      BY <2>3, <2>7, <3>1, <3>2, <3>3 DEF Follows
  <2>12. ASSUME NEW f \in Epochs, f = srv.epoch PROVE Follows(f)'
    BY <2>1, <2>11, <2>12 DEF Follows
  <2>13. \A f \in Epochs : f # srv.epoch => sent'[f] = sent[f]
    BY <2>1, <2>7
  <2> QED
    BY <1>2, <1>5, <2>8, <2>9, <2>10, <2>12, <2>13
<1> QED
  BY <1>4, <1>5

-----------------------------------------------------------------------------
(* What each step does to the documents                                    *)

\* A server whose start has not been heard of yet.
Late(e) == attempt[e] \in {"none", "starting"} \/ About("Started", e) \in Mailed

\* A start that asks for a server takes an epoch nothing has been done with.
LEMMA StartedLate ==
    ASSUME Servers, actor = "run", NEW s \in Server, Started(srv, s), Shrinks,
           s = srv \/ (s.epoch = srv.epoch + 1 /\ s.state = "Starting")
    PROVE  \A e \in Epochs : Late(e)' => Late(e)
<1>1. attempt' = IF s = srv THEN attempt ELSE [attempt EXCEPT ![s.epoch] = "starting"]
  BY StartedStarts DEF Servers
<1>2. Mailed' \subseteq Mailed
  BY ShrinksLoses DEF Servers, MailTyped
<1>3. s # srv /\ s.epoch \in Epochs => attempt[s.epoch] = "none"
  <2>1. srv.epoch \in Nat
    BY DEF Servers, ServerTyped, Server
  <2> QED
    BY <2>1 DEF Servers, EpochsOK
<1> QED
  BY <1>1, <1>2, <1>3 DEF Late, Servers, ServerTyped

LEMMA LateStays ==
    ASSUME Servers, [Next]_vars
    PROVE  \A e \in Epochs : Late(e)' => Late(e)
<1>1. CASE \/ Editor \/ (\E r \in Asks, k \in Kinds, d \in Docs : Asking(r, k, d))
           \/ RequestTeardown \/ DropHandles \/ OnChange \/ OnClose
           \/ OnAskUnreadable \/ OnAsk \/ OnReadiness \/ (\E r \in Asks : Task(r))
           \/ UNCHANGED vars
  <2>1. Quiet
    BY <1>1, QuietSteps
  <2> QED
    BY <2>1, QuietMail DEF Quiet, serverVars, Late
<1>2. CASE OnOpen \/ OnAskUnready
  <2>1. Shrinks /\ actor = "run" /\ Started(srv, EnsureStarted(srv))
    BY <1>2, HeadIsMailed DEF Servers, MailTyped, OnOpen, OnAskUnready, Handles
  <2> QED
    BY <2>1, FirstServer, StartedLate
<1>3. CASE OnDied
  <2>1. /\ Shrinks /\ actor = "run" /\ Head(mail).epoch \in Epochs /\ Head(mail).epoch = srv.epoch
    BY <1>3, HeadIsMailed DEF Servers, MailTyped, OnDied, Reports, Handles
  <2>2. CASE ~srv.recent /\ Started(srv, EnsureStarted([srv EXCEPT !.state = "Idle", !.recent = TRUE]))
    <3> DEFINE s == [srv EXCEPT !.state = "Idle", !.recent = TRUE]
    <3>1. s \in Server /\ s.state = "Idle" /\ s.epoch = srv.epoch
      BY DEF Servers, ServerTyped, Server, States
    <3>2. srv.epoch <= windows + 1 /\ windows \in 0..MaxWindows
      BY <2>2 DEF Servers, EpochsOK, ServerTyped
    <3>3. s.epoch + 1 <= MaxWindows + 2
      BY <2>1, <3>1, <3>2, SessionBounds DEF Epochs
    <3>4. /\ EnsureStarted(s) \in Server
          /\ EnsureStarted(s) = [state |-> "Starting", epoch |-> s.epoch + 1, recent |-> s.recent]
      BY <3>1, <3>3, EnsureStartedIs
    <3> HIDE DEF s
    <3> QED
      BY <2>1, <2>2, <3>1, <3>4, StartedLate DEF s
  <2>3. CASE UNCHANGED <<attempt, proc>>
    BY <2>1, <2>3, ShrinksLoses DEF Late, Servers, MailTyped
  <2> QED
    BY <1>3, <2>2, <2>3 DEF OnDied
<1>4. CASE OnStarted \/ OnStartFailed \/ TearDown
  <2>1. Shrinks /\ attempt' = attempt
    BY <1>4, HeadIsMailed DEF Servers, MailTyped, OnStarted, OnStartFailed, TearDown, Shrinks
  <2> QED
    BY <2>1, ShrinksLoses DEF Late, Servers, MailTyped
<1>5. ASSUME NEW x \in Epochs, Start(x) PROVE \A e \in Epochs : Late(e)' => Late(e)
  <2>1. /\ attempt[x] = "starting"
        /\ \E how \in {"started", "failed"} : attempt' = [attempt EXCEPT ![x] = how]
        /\ \E k \in {"Started", "StartFailed"} : mail' = mail \/ Receives(About(k, x))
    BY <1>5 DEF Start, StartSucceeds, StartFails, StartEnds, Receives
  <2>2. \A k \in {"Started", "StartFailed"} : About(k, x) \in Msgs
    BY DEF About, Msgs, Reports
  <2>3. \A e \in Epochs : e # x /\ About("Started", e) \in Mailed' => About("Started", e) \in Mailed
    <3>1. PICK k \in {"Started", "StartFailed"} : mail' = mail \/ Receives(About(k, x))
      BY <2>1
    <3>2. CASE mail' = mail
      BY <3>2 DEF Mailed
    <3>3. CASE Receives(About(k, x))
      <4>1. Mailed' = Mailed \cup {About(k, x)}
        BY <2>2, <3>3, ReceivesAdds DEF Servers, MailTyped
      <4> QED
        BY <4>1 DEF About
    <3> QED
      BY <3>1, <3>2, <3>3
  <2> QED
    BY <2>1, <2>3 DEF Late, Servers, ServerTyped
<1>6. CASE (\E e \in Epochs : Supervisor(e) \/ Environment(e)) \/ WindowPasses
  <2>1. attempt' = attempt
    BY <1>6 DEF Supervisor, SupervisorReports, SupervisorEnds, Environment, ServerPrimes,
       ProcessExits, DeathPublished, WindowPasses
  <2>2. mail' = mail \/ \E e \in Epochs, k \in {"Readiness", "Died"} : Receives(About(k, e))
    BY <1>6 DEF Supervisor, SupervisorReports, SupervisorEnds, Environment, ServerPrimes,
       ProcessExits, DeathPublished, WindowPasses, Tell, Receives
  <2>3. ASSUME NEW e \in Epochs, NEW k \in {"Readiness", "Died"}, Receives(About(k, e))
        PROVE  Mailed' = Mailed \cup {About(k, e)}
    <3>1. About(k, e) \in Msgs
      BY DEF About, Msgs, Reports
    <3> QED
      BY <2>3, <3>1, ReceivesAdds DEF Servers, MailTyped
  <2>4. \A e \in Epochs : About("Started", e) \in Mailed' => About("Started", e) \in Mailed
    <3>1. CASE mail' = mail
      BY <3>1 DEF Mailed
    <3>2. CASE \E e \in Epochs, k \in {"Readiness", "Died"} : Receives(About(k, e))
      <4>1. PICK x \in Epochs, k \in {"Readiness", "Died"} : Receives(About(k, x))
        BY <3>2
      <4>2. Mailed' = Mailed \cup {About(k, x)}
        BY <2>3, <4>1
      <4>3. \A e \in Epochs : About("Started", e) # About(k, x)
        BY DEF About
      <4> QED
        BY <4>2, <4>3
    <3> QED
      BY <2>2, <3>1, <3>2
  <2> QED
    BY <2>1, <2>4 DEF Late
<1> QED
  BY <1>1, <1>2, <1>3, <1>4, <1>5, <1>6 DEF Next, Actor

\* A step by which no server becomes live that was not, and which tells no server anything.
LEMMA UntoldDocuments ==
    ASSUME Servers, Documents, [Next]_vars, UNCHANGED docVars,
           actor' = "run" => actor = "run",
           srv'.state = "Up" => srv' = srv \/ (srv.state = "Up" /\ srv'.epoch = srv.epoch),
           known \subseteq known'
    PROVE  Documents' /\ Grows
<1>1. UNCHANGED <<mirror, high, view, sent>>
  BY DEF docVars
<1>2. DocsTyped' /\ MirrorOK' /\ SentBelow' /\ Grows
  BY <1>1 DEF Documents, DocsTyped, MirrorOK, SentBelow, Grows
<1>3. LiveClient' => LiveClient /\ srv'.epoch = srv.epoch
  BY DEF LiveClient
<1>4. Synced'
  BY <1>1, <1>3 DEF Documents, Synced, Follows
<1>5. SentLate'
  BY <1>1, LateStays DEF Documents, SentLate, Late
<1> QED
  BY <1>2, <1>4, <1>5 DEF Documents

\* The actor updates a document, and the server that was live is.
LEMMA ToldDocuments ==
    ASSUME Servers, Documents, [Next]_vars, actor = "run", NEW d \in Docs, NEW u,
           Fits(d, u), Update(d, u), srv'.state = "Up" => srv' = srv, known' = known
    PROVE  Documents' /\ Grows
<1>1. /\ DocsTyped' /\ MirrorOK' /\ Grows
      /\ \A e \in Epochs, x \in Docs : sent'[e][x] <= high'[x]
      /\ \A e \in Epochs : LiveClient /\ e = srv.epoch => Follows(e)'
      /\ \A e \in Epochs : ~(LiveClient /\ e = srv.epoch) => sent'[e] = sent[e]
  BY UpdateFollows
<1>2. LiveClient => srv.epoch \in Epochs /\ ~Late(srv.epoch)
  BY DEF LiveClient, Servers, StartsOK, Late
<1>3. SentLate'
  <2> SUFFICES ASSUME NEW e \in Epochs, Late(e)' PROVE \A x \in Docs : sent'[e][x] = 0
    BY DEF SentLate, Late
  <2>1. Late(e)
    BY LateStays
  <2>2. sent'[e] = sent[e]
    BY <1>1, <1>2, <2>1
  <2> QED
    BY <2>1, <2>2 DEF Documents, SentLate, Late
<1>4. Synced'
  <2> SUFFICES ASSUME LiveClient' PROVE Follows(srv.epoch)'
    BY DEF Synced
  <2>1. srv' = srv /\ LiveClient
    BY DEF LiveClient
  <2>2. PICK e \in Epochs : e = srv.epoch
    BY <1>2, <2>1
  <2>3. Follows(e)'
    BY <1>1, <2>1, <2>2
  <2> QED
    BY <2>1, <2>2, <2>3 DEF Follows
<1> QED
  BY <1>1, <1>3, <1>4 DEF Documents, SentBelow

\* A server that comes up is told of everything, and knows of nothing before.
LEMMA StartedDocuments ==
    ASSUME Servers, Documents, [Next]_vars, OnStarted
    PROVE  Documents' /\ Grows
<1>1. PICK e \in Epochs : /\ e = srv.epoch /\ Head(mail) = About("Started", e) /\ Head(mail) \in Mailed
                          /\ Head(mail).epoch = e /\ actor = "run"
  BY HeadIsMailed DEF Servers, MailTyped, OnStarted, Reports, Handles
<1>2. /\ mirror' = [d \in Docs |-> [mirror[d] EXCEPT !.told = (mirror[d].text # 0)]]
      /\ view' = [view EXCEPT ![e] = [d \in Docs |->
                    [text |-> mirror[d].text, version |-> mirror[d].version]]]
      /\ sent' = [sent EXCEPT ![e] = [d \in Docs |-> mirror[d].version]]
      /\ UNCHANGED <<high, actor, known>>
      /\ srv' = [srv EXCEPT !.state = "Up"]
  BY <1>1 DEF OnStarted
<1>3. \A d \in Docs : /\ mirror[d] \in Entry /\ high[d] \in Nat /\ mirror[d].version \in Nat
                      /\ mirror[d].text \in Stamps /\ mirror[d].version <= high[d]
                      /\ mirror[d].text = 0 => mirror[d] = NotOpen
                      /\ mirror[d].text # 0 => mirror[d].version >= 1
  BY DEF Documents, DocsTyped, MirrorOK, Entry
<1>4. \A d \in Docs : /\ mirror'[d] \in Entry
                      /\ mirror'[d].text = mirror[d].text /\ mirror'[d].version = mirror[d].version
                      /\ mirror'[d].told = (mirror[d].text # 0)
  BY <1>2, <1>3 DEF Entry
<1>5. DocsTyped'
  <2>1. [d \in Docs |-> [text |-> mirror[d].text, version |-> mirror[d].version]] \in [Docs -> TellTale]
    BY <1>3 DEF TellTale
  <2>2. [d \in Docs |-> mirror[d].version] \in [Docs -> Nat]
    BY <1>3
  <2>3. mirror' \in [Docs -> Entry]
    BY <1>2, <1>4
  <2> QED
    BY <1>1, <1>2, <2>1, <2>2, <2>3 DEF Documents, DocsTyped
<1>6. MirrorOK'
  <2> SUFFICES ASSUME NEW d \in Docs
               PROVE  /\ mirror'[d].version <= high'[d]
                      /\ mirror'[d].text = 0 => mirror'[d] = NotOpen
                      /\ mirror'[d].text # 0 => mirror'[d].version >= 1
    BY DEF MirrorOK
  <2>1. mirror'[d].text = 0 => mirror'[d] = NotOpen
    <3> SUFFICES ASSUME mirror'[d].text = 0 PROVE mirror'[d] = NotOpen
      OBVIOUS
    <3>1. mirror[d] = NotOpen /\ mirror'[d] = [mirror[d] EXCEPT !.told = (mirror[d].text # 0)]
      BY <1>2, <1>3, <1>4
    <3>2. NotOpen.text = 0
      BY DEF NotOpen
    <3>3. mirror'[d] = [NotOpen EXCEPT !.told = FALSE]
      BY <3>1, <3>2
    <3> QED
      BY <3>3 DEF NotOpen
  <2> QED
    BY <1>2, <1>3, <1>4, <2>1
<1>7. view'[e] = [d \in Docs |-> [text |-> mirror[d].text, version |-> mirror[d].version]]
      /\ sent'[e] = [d \in Docs |-> mirror[d].version]
      /\ \A f \in Epochs : f # e => view'[f] = view[f] /\ sent'[f] = sent[f]
  BY <1>2 DEF Documents, DocsTyped
<1>8. \A d \in Docs : sent[e][d] = 0
  BY <1>1 DEF Documents, SentLate
<1>9. Grows
  <2> SUFFICES ASSUME NEW d \in Docs, view'[e][d] # Closed PROVE view'[e][d].version > sent[e][d]
    BY <1>7 DEF Grows
  <2>1. view'[e][d] = [text |-> mirror[d].text, version |-> mirror[d].version]
    BY <1>7
  <2>2. mirror[d].text # 0
    BY <1>3, <2>1 DEF NotOpen, Closed
  <2> QED
    BY <1>3, <1>8, <2>1, <2>2
<1>10. SentBelow'
  BY <1>1, <1>2, <1>3, <1>7 DEF Documents, SentBelow
<1>11. SentLate'
  <2>1. ServerTyped' /\ StartsOK'
    BY StartedServers
  <2>2. srv'.state = "Up" /\ srv'.epoch = e
    BY <1>1, <1>2 DEF Servers, ServerTyped, Server
  <2>3. attempt'[e] = "started" /\ About("Started", e) \notin Mailed'
    BY <2>1, <2>2 DEF StartsOK
  <2>4. \A f \in Epochs : Late(f)' => Late(f) /\ f # e
    BY <2>3, LateStays DEF Late
  <2> QED
    BY <1>7, <2>4 DEF Documents, SentLate, Late
<1>12. Synced'
  <2>1. srv'.epoch = e
    BY <1>1, <1>2 DEF Servers, ServerTyped, Server
  <2>2. \A d \in Docs : /\ view'[e][d] = [text |-> mirror'[d].text, version |-> mirror'[d].version]
                        /\ mirror'[d].told = (mirror'[d].text # 0)
    BY <1>4, <1>7
  <2> QED
    BY <2>1, <2>2 DEF Synced, Follows
<1> QED
  BY <1>5, <1>6, <1>9, <1>10, <1>11, <1>12 DEF Documents

\* The text and the document a question is spawned with.
Question == ask[Head(mail).ask].doc
QuestionText == IF mirror[Question].text # 0 THEN mirror[Question].text ELSE OnDisk

LEMMA DocumentsStep ==
    ASSUME Servers, Documents, [Next]_vars
    PROVE  Documents' /\ Grows
<1>1. CASE OnOpen
  <2>1. /\ Head(mail).doc \in Docs /\ Head(mail).text \in Stamps \ {0} /\ actor = "run"
        /\ Started(srv, EnsureStarted(srv)) /\ known' = known
        /\ Update(Head(mail).doc, OpenIn(Head(mail).doc, Head(mail).text, LiveClient))
    BY <1>1, HeadIsMailed DEF Servers, MailTyped, OnOpen, Handles
  <2>2. srv' = EnsureStarted(srv)
    BY <2>1 DEF Started
  <2>3. srv'.state = "Up" => srv' = srv
    BY <2>1, <2>2, FirstServer
  <2>4. Fits(Head(mail).doc, OpenIn(Head(mail).doc, Head(mail).text, LiveClient))
    BY <2>1, OpenFits DEF LiveClient
  <2> QED
    BY <2>1, <2>3, <2>4, ToldDocuments
<1>2. CASE OnChange
  <2>1. /\ Head(mail).doc \in Docs /\ Head(mail).text \in Stamps \ {0} /\ actor = "run"
        /\ UNCHANGED <<srv, known>>
        /\ Update(Head(mail).doc, ChangeIn(Head(mail).doc, Head(mail).text))
    BY <1>2, HeadIsMailed DEF Servers, MailTyped, OnChange, Handles, serverVars
  <2> QED
    BY <2>1, ChangeFits, ToldDocuments
<1>3. CASE OnClose
  <2>1. /\ Head(mail).doc \in Docs /\ actor = "run" /\ UNCHANGED <<srv, known>>
        /\ Update(Head(mail).doc, CloseIn(Head(mail).doc))
    BY <1>3, HeadIsMailed DEF Servers, MailTyped, OnClose, Handles, serverVars
  <2> QED
    BY <2>1, CloseFits, ToldDocuments
<1>4. CASE OnAsk /\ ~UNCHANGED docVars
  <2>1. /\ Question \in Docs /\ actor = "run" /\ UNCHANGED <<srv, known>>
        /\ Update(Question, OpenIn(Question, QuestionText, TRUE))
    BY <1>4, HeadIsMailed DEF Servers, MailTyped, OnAsk, Handles, serverVars, Question, QuestionText
  <2>2. QuestionText \in Stamps \ {0}
    BY <2>1, SessionBounds DEF QuestionText, OnDisk, Stamps, Documents, DocsTyped, Entry, Servers,
       RestTyped
  <2>3. Fits(Question, OpenIn(Question, QuestionText, TRUE))
    BY <2>1, <2>2, OpenFits
  <2> QED
    BY <2>1, <2>3, ToldDocuments
<1>5. CASE OnStarted
  BY <1>5, StartedDocuments
<1>6. CASE TearDown
  <2>1. /\ actor' = "gone" /\ UNCHANGED <<view, sent>>
        /\ mirror' = [d \in Docs |-> NotOpen] /\ high' = [d \in Docs |-> 0]
    BY <1>6 DEF TearDown
  <2>2. NotOpen \in Entry /\ NotOpen.version = 0 /\ NotOpen.text = 0
    BY SessionBounds DEF NotOpen, Entry, Stamps
  <2>3. DocsTyped'
    BY <2>1, <2>2 DEF Documents, DocsTyped
  <2>4. MirrorOK'
    BY <2>1, <2>2 DEF MirrorOK
  <2>5. SentLate'
    BY <2>1, LateStays DEF Documents, SentLate, Late
  <2>6. Synced' /\ SentBelow' /\ Grows
    BY <2>1 DEF Synced, SentBelow, Grows
  <2> QED
    BY <2>3, <2>4, <2>5, <2>6 DEF Documents
<1>7. CASE OnStartFailed \/ OnDied \/ OnAskUnready
  <2>1. UNCHANGED docVars /\ actor' = actor /\ known' = known
    BY <1>7 DEF OnStartFailed, OnDied, OnAskUnready
  <2>2. srv'.state = "Up" => srv' = srv
    <3>1. CASE OnAskUnready
      <4>1. actor = "run" /\ srv' = EnsureStarted(srv)
        BY <3>1 DEF OnAskUnready, Handles, Started
      <4> QED
        BY <4>1, FirstServer
    <3>2. CASE OnStartFailed
      BY <3>2 DEF OnStartFailed, Servers, ServerTyped, Server
    <3>3. CASE OnDied
      <4>1. \/ srv' = [srv EXCEPT !.state = "Failed"]
            \/ srv' = EnsureStarted([srv EXCEPT !.state = "Idle", !.recent = TRUE])
        BY <3>3 DEF OnDied, Started
      <4> QED
        BY <4>1 DEF EnsureStarted, Servers, ServerTyped, Server
    <3> QED
      BY <1>7, <3>1, <3>2, <3>3
  <2> QED
    BY <2>1, <2>2, UntoldDocuments
<1>8. CASE \/ Editor \/ (\E r \in Asks, k \in Kinds, d \in Docs : Asking(r, k, d))
           \/ RequestTeardown \/ DropHandles \/ OnAskUnreadable \/ OnReadiness
           \/ (OnAsk /\ UNCHANGED docVars) \/ UNCHANGED vars
  <2>1. UNCHANGED <<docVars, serverVars, actor>>
    BY <1>8 DEF Editor, EditorOpens, EditorTypes, EditorCloses, Asking, RequestTeardown,
       DropHandles, OnAskUnreadable, OnReadiness, OnAsk, vars
  <2> QED
    BY <2>1, UntoldDocuments DEF serverVars
<1>9. CASE \/ \E e \in Epochs : Start(e) \/ Supervisor(e) \/ Environment(e)
           \/ (\E r \in Asks : Task(r)) \/ WindowPasses
  <2>1. UNCHANGED <<docVars, actor>> /\ known \subseteq known'
    BY <1>9 DEF Start, StartSucceeds, StartFails, StartEnds, Supervisor, SupervisorReports,
       SupervisorEnds, Environment, ServerPrimes, ProcessExits, DeathPublished, Task, TaskAsks, TaskEnds,
       WindowPasses, serverVars
  <2>2. srv' = srv \/ srv' = [srv EXCEPT !.recent = FALSE]
    BY <1>9 DEF Start, StartSucceeds, StartFails, StartEnds, Supervisor, SupervisorReports,
       SupervisorEnds, Environment, ServerPrimes, ProcessExits, DeathPublished, Task, TaskAsks, TaskEnds,
       WindowPasses, serverVars
  <2>3. srv'.state = srv.state /\ srv'.epoch = srv.epoch
    BY <2>2 DEF Servers, ServerTyped, Server
  <2> QED
    BY <2>1, <2>3, UntoldDocuments
<1> QED
  BY <1>1, <1>2, <1>3, <1>4, <1>5, <1>6, <1>7, <1>8, <1>9 DEF Next, Actor

-----------------------------------------------------------------------------
(* The requests                                                            *)

\* A request in the mailbox has been asked.
AsksMailed == \A r \in Asks : Request(r) \in Mailed => ask[r].state # "idle"

\* What becomes of a request that is not asked in this step.
Keeps(r) ==
    /\ ask'[r].doc = ask[r].doc /\ ask'[r].text = ask[r].text
    /\ ask[r].state # "idle" => ask'[r].state # "idle"

Asked == \E r \in Asks, k \in Kinds, d \in Docs : Asking(r, k, d)

LEMMA UnreadyIs ==
    ASSUME NEW s \in Server
    PROVE  Unready(s) \in States \cup {"none", "Loading"}
BY DEF Unready, Server, States

LEMMA ResolvedKeeps ==
    ASSUME ask \in [Asks -> Query], NEW r \in Asks,
           NEW o \in States \cup {"none", "TornDown", "Ready", "Loading"}, ask' = Resolved(r, o)
    PROVE  /\ ask' \in [Asks -> Query] /\ ask'[r].state = "done"
           /\ \A x \in Asks : Keeps(x) /\ (x # r => ask'[x] = ask[x])
<1> DEFINE q == [[[ask[r] EXCEPT !.state = "done"] EXCEPT !.served = 0] EXCEPT !.outcome = o]
<1>1. ask' = [ask EXCEPT ![r] = q]
  BY DEF Resolved
<1>2. ask[r] \in Query /\ 0 \in Stamps
  BY SessionBounds DEF Stamps
<1>3. q \in Query /\ q.doc = ask[r].doc /\ q.text = ask[r].text /\ q.state = "done"
  BY <1>2 DEF Query
<1> HIDE DEF q
<1> QED
  BY <1>1, <1>3 DEF Keeps

LEMMA AskingTyped ==
    ASSUME RestTyped, NEW r \in Asks, NEW k \in Kinds, NEW d \in Docs, Asking(r, k, d)
    PROVE  /\ ask' \in [Asks -> Query] /\ ask'[r].doc = d /\ ask'[r].text = editor[d]
           /\ ask'[r].state \in {"mailed", "done"}
           /\ \A x \in Asks : x # r => ask'[x] = ask[x]
<1>1. PICK st \in {"mailed", "done"}, oc \in {"none", "TornDown"} :
        ask' = [ask EXCEPT ![r] = [Idle EXCEPT !.kind = k, !.doc = d, !.text = editor[d],
                                               !.state = st, !.outcome = oc]]
  <2>1. CASE actor = "run"
    BY <2>1 DEF Asking
  <2>2. CASE actor # "run"
    BY <2>2 DEF Asking
  <2> QED
    BY <2>1, <2>2
<1> DEFINE q == [Idle EXCEPT !.kind = k, !.doc = d, !.text = editor[d], !.state = st,
                             !.outcome = oc]
<1>2. k \in RequestKinds /\ editor[d] \in Stamps
  BY KindsAssumption DEF RestTyped
<1>3. Idle \in Query
  BY SessionBounds DEF Idle, Query, Stamps
<1>4. q \in Query /\ q.doc = d /\ q.text = editor[d] /\ q.state \in {"mailed", "done"}
  BY <1>2, <1>3 DEF Query
<1>5. ask' = [ask EXCEPT ![r] = q]
  BY <1>1
<1> HIDE DEF q
<1> QED
  BY <1>4, <1>5 DEF RestTyped

LEMMA OnAskTyped ==
    ASSUME Servers, OnAsk
    PROVE  /\ ask' \in [Asks -> Query]
           /\ \A r \in Asks : Keeps(r)
           /\ \A r \in Asks : r # Head(mail).ask => ask'[r] = ask[r]
           /\ ask'[Head(mail).ask].state = "spawned" /\ ask'[Head(mail).ask].epoch = srv.epoch
<1>1. PICK r \in Asks : r = Head(mail).ask /\ ask[r].doc \in Docs
  BY HeadIsMailed DEF Servers, MailTyped, OnAsk
<1>4. srv.epoch \in 0..(MaxWindows + 2)
  BY DEF Servers, ServerTyped, Server
<1> DEFINE open == IF ask[r].kind = "rename" THEN {x \in Docs : mirror'[x].text # 0} ELSE {}
           q == [ask[r] EXCEPT !.state = "spawned", !.epoch = srv.epoch, !.open = open]
<1>5. ask' = [ask EXCEPT ![r] = q]
  BY <1>1 DEF OnAsk
<1>6. open \in SUBSET Docs /\ ask[r] \in Query
  BY DEF Servers, RestTyped
<1> HIDE DEF open
<1>7. q.doc = ask[r].doc /\ q.text = ask[r].text /\ q.state = "spawned" /\ q.epoch = srv.epoch
  BY <1>6 DEF Query
<1>8. q \in Query
  BY <1>4, <1>6 DEF Query
<1> HIDE DEF q
<1> QED
  BY <1>1, <1>5, <1>7, <1>8 DEF Servers, RestTyped, Keeps

\* A task that writes its frame keeps what it was asked about.
LEMMA TaskAsksTyped ==
    ASSUME Servers, Documents, NEW r \in Asks, TaskAsks(r)
    PROVE  /\ ask' \in [Asks -> Query]
           /\ \A x \in Asks : Keeps(x) /\ (x # r => ask'[x] = ask[x])
           /\ ask'[r].state = "asked" /\ ask'[r].served \in Stamps
           /\ ask[r].epoch \in Epochs /\ ask[r].doc \in Docs
           /\ ask'[r].served = view[ask[r].epoch][ask[r].doc].text
           /\ ask'[r].epoch = ask[r].epoch
<1> DEFINE t == view[ask[r].epoch][ask[r].doc].text
           q == [ask[r] EXCEPT !.state = "asked", !.served = t]
<1>1. ask' = [ask EXCEPT ![r] = q]
  BY DEF TaskAsks
<1>2. ask[r] \in Query /\ ask[r].epoch \in Epochs /\ ask[r].doc \in Docs
  BY DEF Servers, RestTyped, TaskAsks
<1>3. t \in Stamps
  BY <1>2 DEF Documents, DocsTyped, TellTale
<1> HIDE DEF t
<1>4. /\ q \in Query /\ q.doc = ask[r].doc /\ q.text = ask[r].text /\ q.epoch = ask[r].epoch
      /\ q.state = "asked" /\ q.served = t
  BY <1>2, <1>3 DEF Query
<1> HIDE DEF q
<1> QED
  BY <1>1, <1>2, <1>3, <1>4 DEF Servers, RestTyped, Keeps, t

\* How a request that is not asked in this step may go on.
Moves(r) ==
    \/ ask'[r] = ask[r]
    \/ ask'[r].state = "done"
    \/ /\ OnAsk \/ OnAskUnreadable
       /\ r = Head(mail).ask /\ Request(r) \in Mailed /\ srv.state = "Up"
       /\ ask'[r].state = "spawned" /\ ask'[r].epoch = srv.epoch
    \/ /\ TaskAsks(r)
       /\ ask'[r].state = "asked" /\ ask'[r].epoch = ask[r].epoch
       /\ ask'[r].served = view[ask[r].epoch][ask[r].doc].text

\* The requests keep what they were asked about, and each goes on as it may.
LEMMA AskStep ==
    ASSUME Servers, Documents, [Next]_vars
    PROVE  /\ RestTyped'
           /\ ~Asked => \A r \in Asks : Keeps(r) /\ Moves(r)
<1> USE DEF Servers
<1>2. ask \in [Asks -> Query] /\ \A r \in Asks : ask' = ask => Keeps(r) /\ Moves(r)
  BY DEF RestTyped, Keeps, Moves
<1> DEFINE Kept == /\ held' \in BOOLEAN /\ actor' \in {"run", "gone"}
                   /\ editor' \in [Docs -> Stamps] /\ acts' \in 0..MaxActs
           Going == ask' \in [Asks -> Query] /\ \A r \in Asks : Keeps(r) /\ Moves(r)
<1>3. ASSUME Editor
      PROVE  Kept /\ Going
  <2>1. PICK d \in Docs : EditorOpens(d) \/ EditorTypes(d) \/ EditorCloses(d)
    BY <1>3 DEF Editor
  <2>2. editor' \in [Docs -> Stamps] /\ acts' \in 0..MaxActs
    BY <2>1, EditorTells
  <2>3. UNCHANGED <<held, actor, ask>>
    BY <2>1 DEF EditorOpens, EditorTypes, EditorCloses
  <2> QED
    BY <1>2, <2>2, <2>3 DEF RestTyped
<1>4. CASE Asked
  <2>1. PICK r \in Asks, k \in Kinds, d \in Docs : Asking(r, k, d)
    BY <1>4 DEF Asked
  <2>2. /\ ask' \in [Asks -> Query] /\ ask'[r].state \in {"mailed", "done"}
        /\ \A x \in Asks : x # r => ask'[x] = ask[x]
    BY <2>1, AskingTyped
  <2>3. UNCHANGED <<held, actor, editor, acts>>
    BY <2>1 DEF Asking, editorVars
  <2> QED
    BY <1>4, <2>2, <2>3 DEF RestTyped
<1>5. ASSUME OnAsk
      PROVE  Kept /\ Going
  <2>1. UNCHANGED <<held, actor, editor, acts>>
    BY <1>5 DEF OnAsk, editorVars
  <2>2. Head(mail).ask \in Asks /\ Request(Head(mail).ask) \in Mailed
    BY <1>5, HeadIsMailed DEF OnAsk, MailTyped
  <2>3. srv.state = "Up"
    BY <1>5 DEF OnAsk, Unready, ServerTyped, Server, States
  <2> QED
    BY <1>5, <2>1, <2>2, <2>3, OnAskTyped DEF RestTyped, Moves
<1>6. ASSUME OnAskUnready
      PROVE  Kept /\ Going
  <2>1. PICK r \in Asks : ask' = Resolved(r, Unready(EnsureStarted(srv)))
    BY <1>6, HeadIsMailed DEF OnAskUnready, MailTyped
  <2>2. actor = "run" /\ UNCHANGED <<held, actor, editor, acts>>
    BY <1>6 DEF OnAskUnready, Handles, editorVars
  <2>3. Unready(EnsureStarted(srv)) \in States \cup {"none", "TornDown", "Ready", "Loading"}
    BY <2>2, FirstServer, UnreadyIs
  <2> QED
    BY <1>2, <2>1, <2>2, <2>3, ResolvedKeeps DEF RestTyped, Moves
<1>7. ASSUME OnAskUnreadable
      PROVE  Kept /\ Going
  <2>1. PICK r \in Asks : /\ r = Head(mail).ask /\ Request(r) \in Mailed
                          /\ \/ ask' = Resolved(r, "Failed")
                             \/ ask' = [ask EXCEPT ![r].state = "spawned", ![r].epoch = srv.epoch]
    BY <1>7, HeadIsMailed DEF OnAskUnreadable, MailTyped
  <2>2. UNCHANGED <<held, actor, editor, acts>>
    BY <1>7 DEF OnAskUnreadable, editorVars
  <2>3. CASE ask' = Resolved(r, "Failed")
    BY <1>2, <2>2, <2>3, ResolvedKeeps DEF RestTyped, States, Moves
  <2>4. CASE ask' = [ask EXCEPT ![r].state = "spawned", ![r].epoch = srv.epoch]
    <3>1. srv.epoch \in 0..(MaxWindows + 2) /\ ask[r] \in Query
      BY <1>2 DEF ServerTyped, Server
    <3> DEFINE q == [ask[r] EXCEPT !.state = "spawned", !.epoch = srv.epoch]
    <3>2. /\ q \in Query /\ q.doc = ask[r].doc /\ q.text = ask[r].text /\ q.state = "spawned"
          /\ q.epoch = srv.epoch
      BY <3>1 DEF Query
    <3>3. ask' = [ask EXCEPT ![r] = q]
      BY <2>4
    <3> HIDE DEF q
    <3>4. srv.state = "Up"
      BY <1>7 DEF OnAskUnreadable, Unready, ServerTyped, Server, States
    <3> QED
      BY <1>2, <1>7, <2>1, <2>2, <3>2, <3>3, <3>4 DEF RestTyped, Keeps, Moves
  <2> QED
    BY <2>1, <2>3, <2>4
<1>8. ASSUME TearDown
      PROVE  Kept /\ Going
  <2>1. UNCHANGED <<held, editor, acts>> /\ actor' = "gone"
    BY <1>8 DEF TearDown, editorVars
  <2>2. \A r \in Asks : [ask[r] EXCEPT !.state = "done", !.outcome = "TornDown"] \in Query
    BY <1>2 DEF Query
  <2>3. \A r \in Asks : \/ ask'[r] = ask[r]
                      \/ ask'[r] = [ask[r] EXCEPT !.state = "done", !.outcome = "TornDown"]
    BY <1>8 DEF TearDown
  <2>4. ask' \in [Asks -> Query]
    BY <1>2, <1>8, <2>2 DEF TearDown
  <2>5. \A r \in Asks : Keeps(r) /\ Moves(r)
    <3> SUFFICES ASSUME NEW r \in Asks PROVE Keeps(r) /\ Moves(r)
      OBVIOUS
    <3> DEFINE q == [ask[r] EXCEPT !.state = "done", !.outcome = "TornDown"]
    <3>1. q.doc = ask[r].doc /\ q.text = ask[r].text /\ q.state = "done"
      BY <1>2 DEF Query
    <3>2. ask'[r] = ask[r] \/ ask'[r] = q
      BY <2>3
    <3> HIDE DEF q
    <3> QED
      BY <3>1, <3>2 DEF Keeps, Moves
  <2> QED
    BY <2>1, <2>4, <2>5 DEF RestTyped
<1>9. ASSUME NEW r \in Asks, Task(r)
      PROVE  Kept /\ Going
  <2>1. UNCHANGED <<held, actor, editor, acts>>
    BY <1>9 DEF Task, TaskAsks, TaskEnds, editorVars
  <2>2. TaskAsks(r) \/ ask' = Resolved(r, "Ready") \/ ask' = Resolved(r, "Failed")
    BY <1>9 DEF Task, TaskEnds
  <2>3. CASE TaskAsks(r)
    BY <1>2, <2>1, <2>3, TaskAsksTyped DEF RestTyped, Moves
  <2>4. CASE ask' = Resolved(r, "Ready") \/ ask' = Resolved(r, "Failed")
    BY <1>2, <2>1, <2>4, ResolvedKeeps DEF RestTyped, States, Moves
  <2> QED
    BY <2>2, <2>3, <2>4
<1>10. ASSUME \/ RequestTeardown \/ DropHandles \/ OnOpen \/ OnChange \/ OnClose \/ OnStarted
            \/ OnStartFailed \/ OnDied \/ OnReadiness \/ WindowPasses \/ UNCHANGED vars
            \/ \E e \in Epochs : Start(e) \/ Supervisor(e) \/ Environment(e)
      PROVE  Kept /\ Going
  <2>1. UNCHANGED <<actor, editor, acts, ask>> /\ held' \in BOOLEAN
    BY <1>10 DEF RestTyped, RequestTeardown, DropHandles, OnOpen, OnChange, OnClose, OnStarted,
       OnStartFailed, OnDied, OnReadiness, WindowPasses, Start, StartSucceeds, StartFails,
       StartEnds, Supervisor, SupervisorReports, SupervisorEnds, Environment, ServerPrimes,
       ProcessExits, DeathPublished, vars, editorVars
  <2> QED
    BY <1>2, <2>1 DEF RestTyped
<1>11. Going => \A r \in Asks : ask'[r].state \in {"spawned", "asked"} =>
                   ask'[r].doc \in Docs /\ ask'[r].epoch \in Epochs
  <2> SUFFICES ASSUME Going, NEW r \in Asks, ask'[r].state \in {"spawned", "asked"}
               PROVE  ask'[r].doc \in Docs /\ ask'[r].epoch \in Epochs
    OBVIOUS
  <2>1. Keeps(r) /\ Moves(r)
    OBVIOUS
  <2> HIDE DEF Going
  <2> QED
    BY <2>1 DEF Keeps, Moves, RestTyped, MailTyped, StartsOK, TaskAsks
<1>12. Kept /\ Going => RestTyped' /\ (~Asked => \A r \in Asks : Keeps(r) /\ Moves(r))
  <2> SUFFICES ASSUME Kept, Going
               PROVE  RestTyped' /\ (~Asked => \A r \in Asks : Keeps(r) /\ Moves(r))
    OBVIOUS
  <2>1. \A r \in Asks : ask'[r].state \in {"spawned", "asked"} =>
                   ask'[r].doc \in Docs /\ ask'[r].epoch \in Epochs
    BY <1>11
  <2> QED
    BY <2>1 DEF RestTyped
<1> HIDE DEF Kept, Going
<1>13. Asked => RestTyped'
  BY <1>4
<1> QED
  BY <1>3, <1>4, <1>5, <1>6, <1>7, <1>8, <1>9, <1>10, <1>12, <1>13 DEF Next, Actor, Asked

\* What arrives in the mailbox is no request, unless one is asked, and an edit is the editor's.
Sound(m) ==
    /\ m.kind # "Ask"
    /\ m.kind \in EditKinds
           => m.text = editor'[m.doc] /\ m.text \in {0, NewText} /\ acts' = acts + 1

LEMMA OtherMail ==
    ASSUME Servers, [Next]_vars, ~Asked
    PROVE  Shrinks \/ \E m \in Msgs : Receives(m) /\ Sound(m)
<1> USE DEF Servers
<1>1. CASE Editor
  <2>1. PICK d \in Docs : EditorOpens(d) \/ EditorTypes(d) \/ EditorCloses(d)
    BY <1>1 DEF Editor
  <2>2. /\ \E m \in Msgs : /\ Tell(m) /\ m.kind \in EditKinds /\ m.doc = d
                          /\ m.text = editor'[d] /\ m.text \in {0, NewText}
        /\ acts' = acts + 1
    BY <2>1, EditorTells
  <2> QED
    BY <2>2, TellSends DEF EditKinds, Sound
<1>2. CASE RequestTeardown
  <2>1. About("Teardown", 0) \in Msgs /\ About("Teardown", 0).kind = "Teardown"
    BY DEF About, Msgs
  <2> QED
    BY <1>2, <2>1, TellSends DEF RequestTeardown, Sound, EditKinds
<1>3. CASE Actor
  <2>1. CASE TearDown
    BY <2>1 DEF TearDown, Shrinks
  <2> QED
    BY <1>3, <2>1, HeadIsMailed DEF MailTyped, Actor, OnOpen, OnChange, OnClose, OnAskUnready,
       OnAskUnreadable, OnAsk, OnStarted, OnStartFailed, OnDied, OnReadiness
<1>4. ASSUME NEW e \in Epochs, Start(e) \/ Supervisor(e) \/ Environment(e)
      PROVE  Shrinks \/ \E m \in Msgs : Receives(m) /\ Sound(m)
  <2>1. \A k \in Reports : About(k, e) \in Msgs /\ About(k, e).kind = k
    BY DEF About, Msgs
  <2>2. CASE Start(e)
    BY <2>1, <2>2 DEF Start, StartSucceeds, StartFails, StartEnds, Reports, Shrinks, Receives, Sound, EditKinds
  <2>3. CASE Supervisor(e)
    BY <2>1, <2>3, TellSends DEF Supervisor, SupervisorReports, SupervisorEnds, Reports, Shrinks,
       Sound, EditKinds
  <2>4. CASE Environment(e)
    BY <2>4 DEF Environment, ServerPrimes, ProcessExits, DeathPublished, Shrinks
  <2> QED
    BY <1>4, <2>2, <2>3, <2>4
<1>5. CASE DropHandles \/ (\E r \in Asks : Task(r)) \/ WindowPasses \/ UNCHANGED vars
  BY <1>5 DEF DropHandles, Task, TaskAsks, TaskEnds, WindowPasses, vars, Shrinks
<1> QED
  BY <1>1, <1>2, <1>3, <1>4, <1>5 DEF Next, Asked

LEMMA MailStep ==
    ASSUME Servers, Documents, AsksMailed, [Next]_vars
    PROVE  MailTyped' /\ AsksMailed'
<1>1. CASE Asked
  <2>1. PICK r \in Asks, k \in Kinds, d \in Docs : Asking(r, k, d)
    BY <1>1 DEF Asked
  <2>2. Request(r) \in Msgs /\ Tell(Request(r))
    BY <2>1 DEF Request, Msgs, Asking
  <2>3. mail' \in Seq(Msgs) /\ Mailed' \subseteq Mailed \cup {Request(r)}
    <3>1. Shrinks \/ Receives(Request(r))
      BY <2>2, TellSends
    <3> QED
      BY <2>2, <3>1, ShrinksLoses, ReceivesAdds DEF Servers, MailTyped
  <2>4. \A x \in Asks : Request(x) \in Mailed' => x = r \/ Request(x) \in Mailed
    BY <2>3 DEF Request
  <2>5. /\ ask'[r].doc = d /\ ask'[r].state # "idle"
        /\ \A x \in Asks : x # r => ask'[x] = ask[x]
    BY <2>1, AskingTyped DEF Servers
  <2> QED
    BY <2>3, <2>4, <2>5 DEF Servers, MailTyped, AsksMailed
<1>2. CASE ~Asked
  <2>1. \A r \in Asks : Keeps(r)
    BY <1>2, AskStep
  <2>2. mail' \in Seq(Msgs) /\ \A r \in Asks : Request(r) \in Mailed' => Request(r) \in Mailed
    <3>1. CASE Shrinks
      BY <3>1, ShrinksLoses DEF Servers, MailTyped
    <3>2. ASSUME NEW m \in Msgs, Receives(m), m.kind # "Ask"
          PROVE  mail' \in Seq(Msgs) /\ \A r \in Asks : Request(r) \in Mailed' => Request(r) \in Mailed
      <4>1. mail' \in Seq(Msgs) /\ Mailed' = Mailed \cup {m}
        BY <3>2, ReceivesAdds DEF Servers, MailTyped
      <4>2. \A r \in Asks : Request(r) # m
        BY <3>2 DEF Request
      <4> QED
        BY <4>1, <4>2
    <3> QED
      BY <1>2, <3>1, <3>2, OtherMail DEF Sound
  <2> QED
    BY <2>1, <2>2 DEF Servers, MailTyped, AsksMailed, Keeps
<1> QED
  BY <1>1, <1>2

-----------------------------------------------------------------------------
(* The theorems                                                            *)

SessionInv == Servers /\ Documents /\ AsksMailed

LEMMA SessionInit == Init => SessionInv
<1> SUFFICES ASSUME Init PROVE SessionInv
  OBVIOUS
<1> USE SessionBounds
<1>1. mail \in Seq(Msgs) /\ Len(mail) = 0 /\ Mailed = {}
  BY NoMail DEF Init, Mailed
<1>2. /\ srv \in Server /\ srv.state # "Up" /\ srv.recent = FALSE
      /\ srv.epoch \in {0, 1} /\ (srv.state = "Starting" <=> srv.epoch = 1)
  <2>1. \/ srv = [state |-> "Idle", epoch |-> 0, recent |-> FALSE]
        \/ srv = [state |-> "Starting", epoch |-> 1, recent |-> FALSE]
        \/ srv = [state |-> "Unavailable", epoch |-> 0, recent |-> FALSE]
    BY DEF Init
  <2>2. 0 \in 0..(MaxWindows + 2) /\ 1 \in 0..(MaxWindows + 2)
    OBVIOUS
  <2>3. srv.state \in {"Idle", "Starting", "Unavailable"} /\ srv.epoch \in {0, 1}
        /\ (srv.state = "Starting" <=> srv.epoch = 1) /\ srv.recent = FALSE
    BY <2>1
  <2>4. srv \in Server
    <3>1. PICK st \in States, e \in 0..(MaxWindows + 2) :
             srv = [state |-> st, epoch |-> e, recent |-> FALSE]
      BY <2>1, <2>2 DEF States
    <3>2. FALSE \in BOOLEAN
      OBVIOUS
    <3> QED
      BY ONLY <3>1, <3>2 DEF Server
  <2> QED
    BY <2>3, <2>4
<1>3. ServerTyped
  <2>1. 0 \in 0..MaxWindows
    OBVIOUS
  <2> QED
    BY <1>2, <2>1 DEF ServerTyped, Init, Loading, Caveat, Ready
<1>4. RestTyped
  <2>1. Idle \in Query /\ 0 \in Stamps /\ 0 \in 0..MaxActs /\ Idle.state = "idle"
    BY DEF Idle, Query, Stamps
  <2> QED
    BY <2>1 DEF RestTyped, Init
<1>5. RowTyped
  BY <1>2, <1>3, RowOfTyped DEF RowTyped, Init
<1>6. MailTyped /\ AsksMailed
  BY <1>1 DEF MailTyped, AsksMailed
<1>7. EpochsOK
  <2>1. \A e \in Epochs : e \in Nat /\ e >= 1
    BY DEF Epochs
  <2>2. \A e \in Epochs : e > srv.epoch => attempt[e] = "none" /\ proc[e] = "none"
    BY <1>2, <2>1 DEF Init
  <2>3. \A e \in Epochs : ~(e < srv.epoch)
    BY <1>2, <2>1
  <2>4. srv.epoch <= windows + (IF srv.recent THEN 2 ELSE 1)
    BY <1>2 DEF Init
  <2>5. srv.state = "Idle" => srv.epoch = 0
    BY <1>2
  <2> QED
    BY <1>1, <2>2, <2>3, <2>4, <2>5 DEF EpochsOK
<1>8. StartsOK
  BY <1>1, <1>2 DEF StartsOK, Once
<1>9. Documents
  <2>1. NotOpen \in Entry /\ Closed \in TellTale /\ NotOpen.version = 0 /\ NotOpen.text = 0
    BY DEF NotOpen, Closed, Entry, TellTale, Stamps
  <2>2. DocsTyped
    BY <2>1 DEF DocsTyped, Init
  <2>3. MirrorOK
    BY <2>1 DEF MirrorOK, Init
  <2>4. Synced
    BY <1>2 DEF Synced, LiveClient
  <2>5. SentBelow /\ SentLate
    BY DEF SentBelow, SentLate, Init
  <2> QED
    BY <2>2, <2>3, <2>4, <2>5 DEF Documents
<1> QED
  BY <1>3, <1>4, <1>5, <1>6, <1>7, <1>8, <1>9 DEF SessionInv, Servers

LEMMA SessionNext == SessionInv /\ [Next]_vars => SessionInv' /\ Grows
  BY ServersStep, DocumentsStep, AskStep, MailStep DEF SessionInv, Servers

\* Every variable keeps its type, and the mirror's versions stay below their high-water marks.
THEOREM SessionTypeCorrect == Spec => []TypeOK
<1>1. SessionInv => TypeOK
  <2> SUFFICES ASSUME SessionInv PROVE TypeOK
    OBVIOUS
  <2> USE SessionBounds DEF SessionInv, Servers, Documents
  <2>1. /\ srv.state \in States /\ srv.recent \in BOOLEAN /\ srv.epoch \in {0} \cup Epochs
    BY DEF ServerTyped, Server, Epochs
  <2>2. \A d \in Docs : /\ mirror[d].text \in Stamps /\ editor[d] \in Stamps
                        /\ high[d] \in Nat /\ mirror[d].version \in 0..high[d]
    BY DEF DocsTyped, RestTyped, MirrorOK, Entry
  <2>3. \A i \in DOMAIN mail : mail[i].kind \in
           {"Open", "Change", "Close", "Ask", "Teardown", "Started", "StartFailed", "Died",
            "Readiness"}
    <3>1. \A m \in Msgs : m.kind \in {"Open", "Change", "Close", "Ask", "Teardown", "Started",
                                      "StartFailed", "Died", "Readiness"}
      BY DEF Msgs, Reports
    <3>2. \A i \in DOMAIN mail : mail[i] \in Msgs
      BY DEF MailTyped
    <3> QED
      BY <3>1, <3>2
  <2> QED
    BY <2>1, <2>2, <2>3 DEF TypeOK, ServerTyped, RestTyped, RowTyped, States
<1> QED
  BY <1>1, SessionInit, SessionNext, PTL DEF Spec

\* The live server has been told exactly what the mirror holds, through every start, restart,
\* edit and close (Session::handle_started and the document handlers of session.rs).
THEOREM TheServerHoldsTheBuffers == Spec => []ServerHoldsTheBuffers
<1>1. SessionInv => ServerHoldsTheBuffers
  <2> SUFFICES ASSUME SessionInv, actor = "run", LiveClient, NEW d \in Docs
               PROVE  /\ view[srv.epoch][d].text = mirror[d].text
                      /\ view[srv.epoch][d].version = mirror[d].version
                      /\ mirror[d].told = (mirror[d].text # 0)
    BY DEF ServerHoldsTheBuffers
  <2>1. /\ view[srv.epoch][d] = [text |-> mirror[d].text, version |-> mirror[d].version]
        /\ mirror[d].told = (mirror[d].text # 0)
    BY DEF SessionInv, Documents, Synced, Follows
  <2>2. /\ view[srv.epoch][d].text = mirror[d].text
        /\ view[srv.epoch][d].version = mirror[d].version
    BY <2>1
  <2> QED
    BY <2>1, <2>2
<1> QED
  BY <1>1, SessionInit, SessionNext, PTL DEF Spec

\* No server is sent a version that is not above all it was sent before: the high-water mark of
\* Documents outlives a close, and a new server starts from none.
THEOREM VersionsGrow == Spec => VersionsOnlyGrow
<1>1. SessionInv /\ [Next]_vars => [Grows]_vars
  BY SessionNext
<1> QED
  BY <1>1, SessionInit, SessionNext, PTL DEF Spec, VersionsOnlyGrow, Grows

\* A session has one server of a language at work at a time, and a server that keeps dying gets
\* one more start in each restart window (RestartPolicy, and the epochs of session.rs).
THEOREM OneServer == Spec => []OneServerAtATime
<1>1. SessionInv => OneServerAtATime
  <2> SUFFICES ASSUME SessionInv PROVE OneServerAtATime
    OBVIOUS
  <2> USE SessionBounds DEF SessionInv, Servers
  <2> DEFINE AtWork == {e \in Epochs : proc[e] = "running" /\ e \notin known
                                       /\ attempt[e] \in {"starting", "started"}}
  <2>1. srv.epoch \in Nat /\ windows \in Nat
    BY DEF ServerTyped, Server
  <2>2. AtWork \subseteq {srv.epoch}
    <3>1. \A e \in Epochs : e \in Nat
      BY DEF Epochs
    <3>2. \A e \in AtWork : ~(e > srv.epoch) /\ ~(e < srv.epoch)
      BY DEF EpochsOK
    <3> QED
      BY <2>1, <3>1, <3>2
  <2>3. Cardinality(AtWork) <= 1
    <3>1. IsFiniteSet({srv.epoch}) /\ Cardinality({srv.epoch}) = 1
      BY FS_Singleton
    <3> QED
      BY <2>2, <3>1, FS_Subset
  <2>4. srv.epoch <= 2 + windows
    BY <2>1 DEF EpochsOK
  <2> QED
    BY <2>3, <2>4 DEF OneServerAtATime
<1> QED
  BY <1>1, SessionInit, SessionNext, PTL DEF Spec

-----------------------------------------------------------------------------
(* What a request is about                                                 *)

\* What the mirror holds of d once the first n messages have been handled is the text t.
Edits(m, d) == m.kind \in EditKinds /\ m.doc = d
Comes(d, n, t) ==
    \/ \E j \in 1..n : Edits(mail[j], d) /\ mail[j].text = t
                       /\ \A i \in 1..n : i > j => ~Edits(mail[i], d)
    \/ (\A i \in 1..n : ~Edits(mail[i], d)) /\ mirror[d].text = t

\* Behind all of the mail the mirror has the editor's text, a request finds the text its caller
\* saw, and a change finds its document open.
EditorComes ==
    \A d \in Docs, t \in Stamps \ {0}, n \in Nat :
        n = Len(mail) /\ editor[d] = t => Comes(d, n, t)
RequestComes ==
    \A i \in Nat, r \in Asks, d \in Docs, t \in Stamps \ {0} :
        i < Len(mail) /\ mail[i + 1] = Request(r) /\ ask[r].doc = d /\ ask[r].text = t
            => Comes(d, i, t)
ChangeComes ==
    \A i \in Nat, d \in Docs :
        i < Len(mail) /\ mail[i + 1].kind = "Change" /\ mail[i + 1].doc = d
            => \E t \in Stamps \ {0} : Comes(d, i, t)
InOrder == actor = "run" => EditorComes /\ RequestComes /\ ChangeComes

\* A step that handles the first message and does to the mirror what it says; a document that
\* is asked about may be read from disk.
Advances ==
    /\ mail # <<>> /\ mail' = Tail(mail)
    /\ \A d \in Docs : IF Edits(Head(mail), d) THEN mirror'[d].text = Head(mail).text
                       ELSE \/ mirror'[d].text = mirror[d].text
                            \/ mirror[d].text = 0 /\ mirror'[d].text = OnDisk

LEMMA ComesAfterHead ==
    ASSUME mail \in Seq(Msgs), Advances, NEW d \in Docs, NEW t \in Stamps \ {0},
           NEW n \in 1..Len(mail), Comes(d, n, t)
    PROVE  Comes(d, n - 1, t)'
<1>1. /\ Head(mail) = mail[1] /\ Len(mail) \in Nat /\ n \in Nat /\ n >= 1 /\ n <= Len(mail)
      /\ \A i \in 1 .. n - 1 : i + 1 \in 1..n /\ mail'[i] = mail[i + 1]
  BY TailDrops DEF Advances
<1>2. ASSUME NEW j \in 1..n, Edits(mail[j], d), mail[j].text = t,
             \A i \in 1..n : i > j => ~Edits(mail[i], d)
      PROVE  Comes(d, n - 1, t)'
  <2>1. CASE j = 1
    <3>1. mirror'[d].text = t
      BY <1>1, <1>2, <2>1 DEF Advances
    <3>2. \A i \in 1 .. n - 1 : ~Edits(mail'[i], d)
      BY <1>1, <1>2, <2>1
    <3> QED
      BY <3>1, <3>2 DEF Comes, Edits
  <2>2. CASE j # 1
    <3>1. j - 1 \in 1 .. n - 1 /\ mail'[j - 1] = mail[j]
      BY <1>1, <2>2
    <3>2. \A i \in 1 .. n - 1 : i > j - 1 => ~Edits(mail'[i], d)
      BY <1>1, <1>2
    <3> QED
      BY <1>2, <3>1, <3>2 DEF Comes, Edits
  <2> QED
    BY <2>1, <2>2
<1>3. CASE (\A i \in 1..n : ~Edits(mail[i], d)) /\ mirror[d].text = t
  <2>1. ~Edits(Head(mail), d)
    BY <1>1, <1>3
  <2>2. mirror'[d].text = t
    BY <1>3, <2>1 DEF Advances
  <2>3. \A i \in 1 .. n - 1 : ~Edits(mail'[i], d)
    BY <1>1, <1>3
  <2> QED
    BY <2>2, <2>3 DEF Comes, Edits
<1> QED
  BY <1>2, <1>3 DEF Comes

LEMMA AdvancesInOrder ==
    ASSUME Servers, InOrder, actor = "run", Advances, UNCHANGED editor, \A r \in Asks : Keeps(r)
    PROVE  InOrder'
<1> USE DEF Servers, RestTyped, MailTyped
<1>1. /\ Len(mail) \in Nat /\ Len(mail) >= 1 /\ Len(mail') = Len(mail) - 1
      /\ \A i \in 1 .. Len(mail) - 1 : i + 1 \in 1 .. Len(mail) /\ mail'[i] = mail[i + 1]
  BY TailDrops DEF Advances
<1>2. \A d \in Docs, t \in Stamps \ {0}, n \in Nat :
         n < Len(mail) /\ Comes(d, n + 1, t) => Comes(d, n, t)'
  <2> SUFFICES ASSUME NEW d \in Docs, NEW t \in Stamps \ {0}, NEW n \in Nat, n < Len(mail),
                      Comes(d, n + 1, t)
               PROVE  Comes(d, n, t)'
    OBVIOUS
  <2>1. n + 1 \in 1..Len(mail) /\ (n + 1) - 1 = n
    BY <1>1
  <2>2. Comes(d, (n + 1) - 1, t)'
    BY <2>1, ComesAfterHead
  <2> QED
    BY <2>1, <2>2
<1>3. EditorComes'
  <2> SUFFICES ASSUME NEW d \in Docs, NEW t \in Stamps \ {0}, NEW n \in Nat,
                      n = Len(mail'), editor[d] = t
               PROVE  Comes(d, n, t)'
    BY DEF EditorComes
  <2>1. n + 1 = Len(mail) /\ n + 1 \in Nat /\ n < Len(mail)
    BY <1>1
  <2>2. Comes(d, n + 1, t)
    BY <2>1 DEF InOrder, EditorComes
  <2> HIDE DEF Servers, RestTyped, MailTyped
  <2> QED
    BY <1>2, <2>1, <2>2
<1>4. \A i \in Nat : i < Len(mail') => i + 1 < Len(mail) /\ i + 1 \in Nat
                                     /\ mail'[i + 1] = mail[(i + 1) + 1]
  BY ONLY <1>1
<1>5. RequestComes'
  <2> SUFFICES ASSUME NEW i \in Nat, NEW r \in Asks, NEW d \in Docs, NEW t \in Stamps \ {0},
                      i < Len(mail'), mail'[i + 1] = Request(r), ask'[r].doc = d, ask'[r].text = t
               PROVE  Comes(d, i, t)'
    BY DEF RequestComes, Request
  <2>1. ask[r].doc = d /\ ask[r].text = t
    BY DEF Keeps
  <2>2. i + 1 < Len(mail) /\ i + 1 \in Nat /\ i < Len(mail)
    BY <1>1, <1>4
  <2>3. Comes(d, i + 1, t)
    BY <1>4, <2>1, <2>2 DEF InOrder, RequestComes
  <2> QED
    BY <1>2, <2>2, <2>3
<1>6. ChangeComes'
  <2> SUFFICES ASSUME NEW i \in Nat, NEW d \in Docs,
                      i < Len(mail'), mail'[i + 1].kind = "Change", mail'[i + 1].doc = d
               PROVE  \E t \in Stamps \ {0} : Comes(d, i, t)'
    BY DEF ChangeComes, Stamps
  <2>2. i + 1 < Len(mail) /\ i + 1 \in Nat /\ i < Len(mail)
    BY <1>1, <1>4
  <2>3. PICK t \in Stamps \ {0} : Comes(d, i + 1, t)
    BY <1>4, <2>2 DEF InOrder, ChangeComes
  <2> QED
    BY <1>2, <2>2, <2>3
<1> QED
  BY <1>3, <1>5, <1>6 DEF InOrder

\* What stands before the end of the mail is not disturbed by what is added to it.
LEMMA ComesStays ==
    ASSUME mail \in Seq(Msgs), mail' \in Seq(Msgs), NEW d \in Docs, NEW n \in Nat, n <= Len(mail),
           mirror'[d].text = mirror[d].text, \A i \in 1..Len(mail) : mail'[i] = mail[i],
           NEW t, Comes(d, n, t)
    PROVE  Comes(d, n, t)'
<1>1. \A i \in 1..n : mail'[i] = mail[i]
  BY LenProperties
<1>2. ASSUME NEW j \in 1..n, Edits(mail[j], d), mail[j].text = t,
             \A i \in 1..n : i > j => ~Edits(mail[i], d)
      PROVE  Comes(d, n, t)'
  BY <1>1, <1>2 DEF Comes, Edits
<1>3. CASE (\A i \in 1..n : ~Edits(mail[i], d)) /\ mirror[d].text = t
  BY <1>1, <1>3 DEF Comes, Edits
<1> QED
  BY <1>2, <1>3 DEF Comes

LEMMA StaysInOrder ==
    ASSUME Servers, InOrder, actor = "run", mail' = mail, UNCHANGED editor,
           \A d \in Docs : mirror'[d].text = mirror[d].text, \A r \in Asks : Keeps(r)
    PROVE  InOrder'
<1> USE DEF Servers, MailTyped
<1>1. \A d \in Docs, n \in Nat, t \in Stamps \ {0} :
         n <= Len(mail) /\ Comes(d, n, t) => Comes(d, n, t)'
  BY ComesStays
<1>2. Len(mail) \in Nat
  OBVIOUS
<1>3. EditorComes'
  BY <1>1, <1>2 DEF InOrder, EditorComes
<1>4. RequestComes'
  BY <1>1, <1>2 DEF InOrder, RequestComes, Keeps, Request
<1>5. ChangeComes'
  <2> SUFFICES ASSUME NEW i \in Nat, NEW d \in Docs,
                      i < Len(mail), mail[i + 1].kind = "Change", mail[i + 1].doc = d
               PROVE  \E t \in Stamps \ {0} : Comes(d, i, t)'
    BY DEF ChangeComes, Stamps
  <2>1. PICK t \in Stamps \ {0} : Comes(d, i, t)
    BY DEF InOrder, ChangeComes
  <2>2. i <= Len(mail)
    BY <1>2
  <2>3. Comes(d, i, t)'
    BY <1>1, <2>1, <2>2
  <2> QED
    BY <2>3
<1> QED
  BY <1>3, <1>4, <1>5 DEF InOrder

LEMMA LengthensInOrder ==
    ASSUME Servers, InOrder, actor = "run", NEW m \in Msgs, Receives(m), RestTyped,
           \A d \in Docs : mirror'[d].text = mirror[d].text,
           \A d \in Docs : IF Edits(m, d) THEN /\ editor'[d] = m.text
                                               /\ m.kind = "Change" => editor[d] # 0
                           ELSE editor'[d] = editor[d],
           \A r \in Asks : Request(r) \in Mailed
                               => ask'[r].doc = ask[r].doc /\ ask'[r].text = ask[r].text,
           \A r \in Asks : m = Request(r)
                               => ask'[r].doc \in Docs /\ ask'[r].text = editor[ask'[r].doc]
    PROVE  InOrder'
<1> USE DEF Servers, MailTyped
<1>1. /\ mail' \in Seq(Msgs) /\ Len(mail') = Len(mail) + 1 /\ Len(mail) \in Nat
      /\ \A i \in 1 .. Len(mail) + 1 : mail'[i] = IF i <= Len(mail) THEN mail[i] ELSE m
  BY AppendAdds DEF Receives
<1>2. /\ \A i \in 1..Len(mail) : mail'[i] = mail[i]
      /\ mail'[Len(mail) + 1] = m
  BY <1>1
<1>3. \A d \in Docs, n \in Nat, t \in Stamps \ {0} :
         n <= Len(mail) /\ Comes(d, n, t) => Comes(d, n, t)'
  BY <1>1, <1>2, ComesStays
<1>4. EditorComes'
  <2> SUFFICES ASSUME NEW d \in Docs, NEW t \in Stamps \ {0}, NEW n \in Nat,
                      n = Len(mail'), editor'[d] = t
               PROVE  Comes(d, n, t)'
    BY DEF EditorComes
  <2>1. n = Len(mail) + 1 /\ n \in 1..n /\ mail'[n] = m /\ Len(mail) = n - 1 /\ n - 1 \in Nat
    BY <1>1, <1>2
  <2>2. CASE Edits(m, d)
    <3>1. m.text = t
      BY <2>2
    <3>2. \A i \in 1..n : ~(i > n)
      BY <2>1
    <3> QED
      BY <2>1, <2>2, <3>1, <3>2 DEF Comes, Edits
  <2>3. CASE ~Edits(m, d)
    <3>1. Comes(d, n - 1, t)'
      <4>1. editor[d] = t
        BY <2>3
      <4>2. Comes(d, n - 1, t)
        BY <2>1, <4>1 DEF InOrder, EditorComes
      <4>3. n - 1 <= Len(mail)
        BY <2>1
      <4> QED
        BY <1>3, <2>1, <4>2, <4>3
    <3>2. \A i \in 1..n : i \in 1 .. n - 1 \/ i = n
      BY <2>1
    <3>3. ~Edits(mail'[n], d)
      BY <2>1, <2>3
    <3>4. \A i \in 1 .. n - 1 : i \in 1..n
      BY <2>1
    <3> QED
      BY <3>1, <3>2, <3>3, <3>4 DEF Comes, Edits
  <2> QED
    BY <2>2, <2>3
<1>5. \A i \in Nat : i < Len(mail') =>
         \/ i < Len(mail) /\ i + 1 \in 1..Len(mail) /\ mail'[i + 1] = mail[i + 1] /\ i <= Len(mail)
         \/ i = Len(mail) /\ mail'[i + 1] = m /\ i <= Len(mail)
  BY <1>1, <1>2
<1>6. RequestComes'
  <2> SUFFICES ASSUME NEW i \in Nat, NEW r \in Asks, NEW d \in Docs, NEW t \in Stamps \ {0},
                      i < Len(mail'), mail'[i + 1] = Request(r), ask'[r].doc = d, ask'[r].text = t
               PROVE  Comes(d, i, t)'
    BY DEF RequestComes, Request
  <2>1. CASE i < Len(mail) /\ i + 1 \in 1..Len(mail) /\ mail'[i + 1] = mail[i + 1]
    <3>1. Request(r) \in Mailed
      BY <2>1 DEF Mailed
    <3>2. ask[r].doc = d /\ ask[r].text = t
      BY <3>1
    <3>3. Comes(d, i, t)
      BY <2>1, <3>2 DEF InOrder, RequestComes
    <3>4. i <= Len(mail)
      BY <2>1
    <3> HIDE DEF Servers, MailTyped
    <3> QED
      BY <1>3, <3>3, <3>4
  <2>2. CASE i = Len(mail) /\ mail'[i + 1] = m
    <3>1. editor[d] = t
      <4>1. m = Request(r)
        BY <2>2
      <4> QED
        BY <4>1
    <3>2. Comes(d, i, t)
      BY <2>2, <3>1 DEF InOrder, EditorComes
    <3> QED
      BY <1>3, <2>2, <3>2
  <2> QED
    BY <1>5, <2>1, <2>2
<1>7. ChangeComes'
  <2> SUFFICES ASSUME NEW i \in Nat, NEW d \in Docs,
                      i < Len(mail'), mail'[i + 1].kind = "Change", mail'[i + 1].doc = d
               PROVE  \E t \in Stamps \ {0} : Comes(d, i, t)'
    BY DEF ChangeComes, Stamps
  <2>1. CASE i < Len(mail) /\ i + 1 \in 1..Len(mail) /\ mail'[i + 1] = mail[i + 1]
    <3>1. PICK t \in Stamps \ {0} : Comes(d, i, t)
      BY <2>1 DEF InOrder, ChangeComes
    <3> QED
      BY <1>3, <1>5, <3>1, <2>1
  <2>2. CASE i = Len(mail) /\ mail'[i + 1] = m
    <3>1. Edits(m, d) /\ m.kind = "Change"
      BY <2>2 DEF Edits, EditKinds
    <3>2. editor[d] \in Stamps \ {0}
      BY <3>1 DEF RestTyped
    <3>3. PICK t \in Stamps \ {0} : editor[d] = t
      BY <3>2
    <3>4. Comes(d, i, t)
      BY <2>2, <3>3 DEF InOrder, EditorComes
    <3> QED
      BY <1>3, <2>2, <3>4
  <2> QED
    BY <1>5, <2>1, <2>2
<1> QED
  BY <1>4, <1>6, <1>7 DEF InOrder

\* The documents' handlers do to the mirror what their message says.
LEMMA ActorAdvances ==
    ASSUME SessionInv, InOrder,
           OnOpen \/ OnChange \/ OnClose \/ OnAskUnready \/ OnAskUnreadable \/ OnAsk \/ OnStarted
              \/ OnStartFailed \/ OnDied \/ OnReadiness
    PROVE  Advances /\ actor = "run" /\ UNCHANGED editor
<1> USE DEF SessionInv, Servers, MailTyped, Documents, DocsTyped
<1>1. mail # <<>> /\ mail' = Tail(mail) /\ actor = "run" /\ UNCHANGED editor
  BY DEF OnOpen, OnChange, OnClose, OnAskUnready, OnAskUnreadable, OnAsk, OnStarted,
     OnStartFailed, OnDied, OnReadiness, Handles, editorVars
<1>2. CASE OnOpen
  <2>1. /\ Head(mail).doc \in Docs /\ Head(mail).kind = "Open"
        /\ mirror' = [mirror EXCEPT ![Head(mail).doc]
                          = OpenIn(Head(mail).doc, Head(mail).text, LiveClient).entry]
    BY <1>2, HeadIsMailed DEF OnOpen, Update
  <2>2. OpenIn(Head(mail).doc, Head(mail).text, LiveClient).entry.text = Head(mail).text
    BY DEF OpenIn
  <2> QED
    BY <1>1, <2>1, <2>2 DEF Advances, Edits, EditKinds
<1>3. CASE OnChange
  <2> DEFINE d == Head(mail).doc
  <2>1. /\ d \in Docs /\ Head(mail).kind = "Change"
        /\ mirror' = [mirror EXCEPT ![d] = ChangeIn(d, Head(mail).text).entry]
    BY <1>3, HeadIsMailed DEF OnChange, Update
  <2>2. mirror[d].text # 0
    <3>1. Head(mail) = mail[0 + 1] /\ 0 < Len(mail) /\ 0 \in Nat
      BY <1>1, TailDrops
    <3>2. PICK t \in Stamps \ {0} : Comes(d, 0, t)
      BY <1>1, <2>1, <3>1 DEF InOrder, ChangeComes
    <3> QED
      BY <3>2 DEF Comes
  <2>3. ChangeIn(d, Head(mail).text).entry.text = Head(mail).text
    <3>1. ChangeIn(d, Head(mail).text).entry
             = [mirror[d] EXCEPT !.text = Head(mail).text, !.version = high[d] + 1]
      BY <2>2 DEF ChangeIn
    <3>2. mirror[d] \in Entry
      BY <2>1
    <3> HIDE DEF d
    <3> QED
      BY <3>1, <3>2 DEF Entry
  <2> HIDE DEF d
  <2>4. \A x \in Docs : Edits(Head(mail), x) <=> x = d
    BY <2>1 DEF Edits, EditKinds, d
  <2>5. mirror'[d].text = Head(mail).text /\ \A x \in Docs : x # d => mirror'[x] = mirror[x]
    BY <2>1, <2>3
  <2> QED
    BY <1>1, <2>4, <2>5 DEF Advances
<1>4. CASE OnClose
  <2>1. /\ Head(mail).doc \in Docs /\ Head(mail).kind = "Close" /\ Head(mail) \in Msgs
        /\ mirror' = [mirror EXCEPT ![Head(mail).doc] = CloseIn(Head(mail).doc).entry]
    BY <1>4, HeadIsMailed DEF OnClose, Update
  <2>2. Head(mail).text = 0
    BY <2>1 DEF Msgs, Reports
  <2>3. CloseIn(Head(mail).doc).entry.text = 0
    BY DEF CloseIn, NotOpen
  <2> QED
    BY <1>1, <2>1, <2>2, <2>3 DEF Advances, Edits, EditKinds
<1>5. CASE OnAsk
  <2>1. Head(mail).kind = "Ask" /\ Question \in Docs
    BY <1>5, HeadIsMailed DEF OnAsk, Question
  <2>2. \A d \in Docs : ~Edits(Head(mail), d)
    BY <2>1 DEF Edits, EditKinds
  <2>3. mirror' = mirror \/ mirror' = [mirror EXCEPT ![Question] = OpenIn(Question, QuestionText, TRUE).entry]
    BY <1>5 DEF OnAsk, Update, docVars, Question, QuestionText
  <2>4. OpenIn(Question, QuestionText, TRUE).entry.text = QuestionText
    BY DEF OpenIn
  <2>5. IF mirror[Question].text # 0 THEN QuestionText = mirror[Question].text
                                    ELSE QuestionText = OnDisk
    BY DEF QuestionText
  <2> QED
    BY <1>1, <2>1, <2>2, <2>3, <2>4, <2>5 DEF Advances
<1>6. CASE OnStarted
  <2>1. Head(mail).kind = "Started"
    BY <1>6 DEF OnStarted, Handles
  <2>2. \A d \in Docs : mirror[d] \in Entry
                        /\ mirror'[d] = [mirror[d] EXCEPT !.told = (mirror[d].text # 0)]
    BY <1>6 DEF OnStarted
  <2>3. \A d \in Docs : mirror'[d].text = mirror[d].text
    BY <2>2 DEF Entry
  <2> QED
    BY <1>1, <2>1, <2>3 DEF Advances, Edits, EditKinds
<1>7. CASE OnAskUnready \/ OnAskUnreadable \/ OnStartFailed \/ OnDied \/ OnReadiness
  <2>1. Head(mail).kind \notin EditKinds /\ mirror' = mirror
    BY <1>7 DEF OnAskUnready, OnAskUnreadable, OnStartFailed, OnDied, OnReadiness, Handles,
       EditKinds, docVars
  <2> QED
    BY <1>1, <2>1 DEF Advances, Edits
<1> QED
  BY <1>2, <1>3, <1>4, <1>5, <1>6, <1>7

LEMMA InOrderStep ==
    ASSUME SessionInv, InOrder, [Next]_vars
    PROVE  InOrder'
<1> USE DEF SessionInv, Servers, MailTyped
<1>1. CASE Actor
  <2>1. CASE TearDown
    BY <2>1 DEF TearDown, InOrder
  <2>2. CASE ~TearDown
    <3>1. Advances /\ actor = "run" /\ UNCHANGED editor
      BY <1>1, <2>2, ActorAdvances DEF Actor
    <3>2. ~Asked
      <4>1. mail # <<>> /\ mail' = Tail(mail)
        BY <3>1 DEF Advances
      <4>2. Len(mail') = Len(mail) - 1 /\ Len(mail) \in Nat
        BY <4>1, TailDrops
      <4>3. ASSUME NEW r \in Asks, NEW k \in Kinds, NEW d \in Docs, Asking(r, k, d)
            PROVE  FALSE
        <5>1. Request(r) \in Msgs /\ mail' = Append(mail, Request(r))
          BY <3>1, <4>3 DEF Asking, Tell, Request, Msgs
        <5> QED
          BY <4>2, <5>1, AppendAdds
      <4> QED
        BY <4>3 DEF Asked
    <3> QED
      BY <3>1, <3>2, AskStep, AdvancesInOrder
  <2> QED
    BY <2>1, <2>2
<1>2. CASE ~Actor /\ actor # "run"
  <2>1. actor' = actor
    BY <1>2 DEF Next, Editor, EditorOpens, EditorTypes, EditorCloses, Asking, RequestTeardown,
       DropHandles, Start, StartSucceeds, StartFails, StartEnds, Supervisor, SupervisorReports,
       SupervisorEnds, Environment, ServerPrimes, ProcessExits, DeathPublished, Task, TaskAsks, TaskEnds,
       WindowPasses, vars
  <2> QED
    BY <1>2, <2>1 DEF InOrder
<1>3. ASSUME actor = "run", NEW d \in Docs, EditorOpens(d) \/ EditorTypes(d) \/ EditorCloses(d)
      PROVE  InOrder'
  <2>1. PICK m \in Msgs : Tell(m) /\ m.kind \in EditKinds /\ m.doc = d /\ m.text = editor'[d]
    BY <1>3, EditorTells
  <2>2. /\ \A x \in Docs : x # d => editor'[x] = editor[x]
        /\ editor' \in [Docs -> Stamps]
    BY <1>3, EditorTells
  <2>3. m.kind = "Change" => editor[d] # 0
    <3>1. CASE EditorTypes(d)
      BY <3>1 DEF EditorTypes
    <3>2. CASE EditorOpens(d)
      <4>1. mail' = Append(mail, Message("Open", d, NewText)) /\ mail' = Append(mail, m)
        BY <1>3, <2>1, <3>2 DEF EditorOpens, Tell
      <4>2. Message("Open", d, NewText) \in Msgs
        BY <3>2, SessionBounds DEF Message, Msgs, Stamps, NewText, EditorOpens, EditorActs, RestTyped
      <4>3. m = Message("Open", d, NewText)
        BY <4>1, <4>2, AppendAdds
      <4> QED
        BY <4>3 DEF Message
    <3>3. CASE EditorCloses(d)
      <4>1. mail' = Append(mail, Message("Close", d, 0)) /\ mail' = Append(mail, m)
        BY <1>3, <2>1, <3>3 DEF EditorCloses, Tell
      <4>2. Message("Close", d, 0) \in Msgs
        BY DEF Message, Msgs
      <4>3. m = Message("Close", d, 0)
        BY <4>1, <4>2, AppendAdds
      <4> QED
        BY <4>3 DEF Message
    <3> QED
      BY <1>3, <3>1, <3>2, <3>3
  <2>4. UNCHANGED <<mirror, ask>>
    BY <1>3 DEF EditorOpens, EditorTypes, EditorCloses, docVars
  <2>5. \A r \in Asks : m # Request(r)
    BY <2>1 DEF Request, EditKinds
  <2>6. Receives(m)
    BY <1>3, <2>1 DEF Tell, Receives
  <2>7. \A x \in Docs : Edits(m, x) <=> x = d
    BY <2>1 DEF Edits
  <2> QED
    BY <1>3, <2>1, <2>2, <2>3, <2>4, <2>5, <2>6, <2>7, LengthensInOrder
<1>4. ASSUME actor = "run", NEW r \in Asks, NEW k \in Kinds, NEW d \in Docs, Asking(r, k, d)
      PROVE  InOrder'
  <2>1. Request(r) \in Msgs /\ Receives(Request(r)) /\ UNCHANGED <<mirror, editor>>
    BY <1>4 DEF Request, Msgs, Receives, Asking, Tell, docVars, editorVars
  <2>2. /\ ask'[r].doc = d /\ ask'[r].text = editor[d]
        /\ \A x \in Asks : x # r => ask'[x] = ask[x]
    BY <1>4, AskingTyped
  <2>3. Request(r) \notin Mailed
    BY <1>4 DEF AsksMailed, Asking
  <2>4. \A x \in Asks : Request(r) = Request(x) => x = r
    BY DEF Request
  <2>5. \A x \in Docs : ~Edits(Request(r), x)
    BY DEF Edits, Request, EditKinds
  <2>6. \A x \in Asks : Request(x) \in Mailed => ask'[x] = ask[x]
    BY <2>2, <2>3
  <2>7. \A x \in Asks : Request(r) = Request(x)
                            => ask'[x].doc \in Docs /\ ask'[x].text = editor[ask'[x].doc]
    BY <2>2, <2>4
  <2> QED
    BY <1>4, <2>1, <2>5, <2>6, <2>7, LengthensInOrder
<1>5. CASE /\ actor = "run"
           /\ \/ RequestTeardown \/ DropHandles \/ WindowPasses \/ UNCHANGED vars
              \/ (\E e \in Epochs : Start(e) \/ Supervisor(e) \/ Environment(e))
              \/ \E r \in Asks : Task(r)
  <2>1. UNCHANGED <<mirror, editor>>
    BY <1>5 DEF RequestTeardown, DropHandles, WindowPasses, Start, StartSucceeds, StartFails,
       StartEnds, Supervisor, SupervisorReports, SupervisorEnds, Environment, ServerPrimes,
       ProcessExits, DeathPublished, Task, TaskAsks, TaskEnds, vars, docVars, editorVars
  <2>2. mail' = mail \/ \E m \in Msgs : Receives(m) /\ m.kind \in Reports \cup {"Teardown"}
    <3>1. \A e \in Epochs, k \in Reports : About(k, e) \in Msgs /\ About(k, e).kind = k
      BY DEF About, Msgs
    <3>2. About("Teardown", 0) \in Msgs /\ About("Teardown", 0).kind = "Teardown"
      BY DEF About, Msgs
    <3> QED
      BY <1>5, <3>1, <3>2 DEF RequestTeardown, DropHandles, WindowPasses, Start, StartSucceeds,
         StartFails, StartEnds, Supervisor, SupervisorReports, SupervisorEnds, Environment,
         ServerPrimes, ProcessExits, DeathPublished, Task, TaskAsks, TaskEnds, vars, Tell, Receives, Reports
  <2>3. \A r \in Asks : Keeps(r)
    <3>1. CASE \E r \in Asks : Task(r)
      <4>1. PICK r \in Asks : Task(r)
        BY <3>1
      <4>2. TaskAsks(r) \/ ask' = Resolved(r, "Ready") \/ ask' = Resolved(r, "Failed")
        BY <4>1 DEF Task, TaskEnds
      <4> QED
        BY <4>2, ResolvedKeeps, TaskAsksTyped DEF RestTyped, States
    <3>2. CASE ~\E r \in Asks : Task(r)
      <4>1. ask' = ask
        BY <1>5, <3>2 DEF RequestTeardown, DropHandles, WindowPasses, Start, StartSucceeds,
           StartFails, StartEnds, Supervisor, SupervisorReports, SupervisorEnds, Environment,
           ServerPrimes, ProcessExits, DeathPublished, vars
      <4> QED
        BY <4>1 DEF Keeps
    <3> QED
      BY <3>1, <3>2
  <2>4. CASE mail' = mail
    BY <1>5, <2>1, <2>3, <2>4, StaysInOrder
  <2>5. ASSUME NEW m \in Msgs, Receives(m), m.kind \in Reports \cup {"Teardown"}
        PROVE  InOrder'
    <3>1. \A d \in Docs : ~Edits(m, d)
      BY <2>5 DEF Edits, EditKinds, Reports
    <3>2. \A r \in Asks : m # Request(r)
      BY <2>5 DEF Request, Reports
    <3> QED
      BY <1>5, <2>1, <2>3, <2>5, <3>1, <3>2, LengthensInOrder DEF Keeps
  <2> QED
    BY <2>2, <2>4, <2>5
<1> QED
  BY <1>1, <1>2, <1>3, <1>4, <1>5 DEF Next, Editor

-----------------------------------------------------------------------------
(* The texts requests are about                                            *)

\* A text that is not older than the one the caller of r saw.
Fresh(t, r) ==
    \/ t = ask[r].text
    \/ editor[ask[r].doc] # ask[r].text /\ (t = 0 \/ t > ask[r].text)

\* No edit behind r in the mailbox is older, nor, once r is spawned, is what the session or its
\* server holds of its document or is yet to hear of it.
FreshMail(r) ==
    \A i, j \in 1..Len(mail) :
        mail[i] = Request(r) /\ i < j /\ Edits(mail[j], ask[r].doc) => Fresh(mail[j].text, r)
FreshSession(r) ==
    actor = "run" => /\ Fresh(mirror[ask[r].doc].text, r)
                     /\ \A m \in Mailed : Edits(m, ask[r].doc) => Fresh(m.text, r)
FreshServer(r) ==
    ask[r].epoch \notin known => Fresh(view[ask[r].epoch][ask[r].doc].text, r)
Freshly(r) ==
    /\ FreshMail(r)
    /\ ask[r].state = "spawned" => FreshSession(r) /\ FreshServer(r)
    /\ ask[r].state = "asked" => Fresh(ask[r].served, r)

\* What the editor or a caller has is older than what the editor gives next.
Past ==
    /\ \A d \in Docs : editor[d] <= 2 * acts
    /\ \A r \in Asks : ask[r].text <= 2 * acts
FreshInv == Past /\ \A r \in Asks : ask[r].text # 0 => Freshly(r)

LEMMA EditorMoves ==
    ASSUME Servers, [Next]_vars
    PROVE  /\ acts \in Nat /\ acts' \in Nat /\ acts' >= acts
           /\ \A d \in Docs : \/ editor'[d] = editor[d]
                              \/ editor'[d] \in {0, 2 * acts'} /\ acts' = acts + 1
<1>1. acts \in Nat /\ editor \in [Docs -> Stamps]
  BY SessionBounds DEF Servers, RestTyped
<1>2. CASE UNCHANGED editorVars
  BY <1>1, <1>2 DEF editorVars
<1>3. CASE Editor
  <2>1. PICK d \in Docs : EditorOpens(d) \/ EditorTypes(d) \/ EditorCloses(d)
    BY <1>3 DEF Editor
  <2>2. acts' = acts + 1
    BY <2>1 DEF EditorOpens, EditorTypes, EditorCloses, EditorActs
  <2>3. PICK t \in {0, 2 * acts'} : editor' = [editor EXCEPT ![d] = t]
    BY <2>1 DEF EditorOpens, EditorTypes, EditorCloses, NewText
  <2> QED
    BY <1>1, <2>2, <2>3
<1>4. Editor \/ UNCHANGED editorVars
  BY DEF Next, Actor, Asking, RequestTeardown, DropHandles, OnOpen, OnChange, OnClose,
     OnAskUnready, OnAskUnreadable, OnAsk, OnStarted, OnStartFailed, OnDied, OnReadiness,
     TearDown, Start, StartSucceeds, StartFails, StartEnds, Supervisor, SupervisorReports,
     SupervisorEnds, Environment, ServerPrimes, ProcessExits, DeathPublished, Task, TaskAsks,
     TaskEnds, WindowPasses, vars, editorVars
<1> QED
  BY <1>2, <1>3, <1>4

LEMMA PastStep ==
    ASSUME Servers, Documents, Past, [Next]_vars
    PROVE  Past'
<1>1. /\ acts \in Nat /\ acts' \in Nat /\ acts' >= acts
      /\ \A d \in Docs : \/ editor'[d] = editor[d]
                         \/ editor'[d] \in {0, 2 * acts'} /\ acts' = acts + 1
  BY EditorMoves
<1>2. /\ \A d \in Docs : editor[d] \in Nat
      /\ \A r \in Asks : ask[r].text \in Nat
  BY SessionBounds DEF Servers, RestTyped, Query, Stamps
<1>3. \A r \in Asks : ask'[r].text = ask[r].text \/ \E d \in Docs : ask'[r].text = editor[d]
  <2>1. CASE Asked
    BY <2>1, AskingTyped DEF Asked, Servers
  <2>2. CASE ~Asked
    BY <2>2, AskStep DEF Keeps
  <2> QED
    BY <2>1, <2>2
<1>4. \A d \in Docs : editor'[d] <= 2 * acts'
  BY <1>1, <1>2 DEF Past
<1>5. \A r \in Asks : ask'[r].text <= 2 * acts'
  BY <1>1, <1>2, <1>3 DEF Past
<1> QED
  BY <1>4, <1>5 DEF Past

\* A text stays fresh, and what the editor gives later is fresh.
LEMMA FreshStays ==
    ASSUME Servers, Past, [Next]_vars, NEW r \in Asks, ask[r].doc \in Docs, ask[r].text # 0,
           Keeps(r)
    PROVE  /\ \A t : Fresh(t, r) => Fresh(t, r)'
           /\ \A t \in {0, 2 * acts'} :
                 acts' = acts + 1 /\ editor'[ask[r].doc] = t => Fresh(t, r)'
<1>1. /\ acts \in Nat /\ acts' \in Nat /\ acts' >= acts
      /\ \/ editor'[ask[r].doc] = editor[ask[r].doc]
         \/ editor'[ask[r].doc] \in {0, 2 * acts'} /\ acts' = acts + 1
  BY EditorMoves
<1>2. ask[r].text \in Nat /\ ask[r].text <= 2 * acts
  BY SessionBounds DEF Servers, RestTyped, Query, Stamps, Past
<1>3. acts' = acts + 1 => 2 * acts' > ask[r].text
  BY <1>1, <1>2
<1>4. editor'[ask[r].doc] = editor[ask[r].doc] \/ editor'[ask[r].doc] # ask[r].text
  BY <1>1, <1>3
<1>5. ask'[r].doc = ask[r].doc /\ ask'[r].text = ask[r].text
  BY DEF Keeps
<1>6. ASSUME NEW t, Fresh(t, r)
      PROVE  Fresh(t, r)'
  BY <1>4, <1>5, <1>6 DEF Fresh
<1>7. ASSUME NEW t \in {0, 2 * acts'}, acts' = acts + 1, editor'[ask[r].doc] = t
      PROVE  Fresh(t, r)'
  <2>1. t # ask[r].text /\ (t = 0 \/ t > ask[r].text)
    BY <1>3, <1>7
  <2> QED
    BY <1>5, <1>7, <2>1 DEF Fresh
<1> QED
  BY <1>6, <1>7

\* What arrives in the mailbox behind a request is fresh for it.
LEMMA FreshMailStep ==
    ASSUME Servers, Past, [Next]_vars, ~Asked, NEW r \in Asks, ask[r].text # 0, Keeps(r)
    PROVE  /\ FreshMail(r) => FreshMail(r)'
           /\ /\ ask[r].doc \in Docs
              /\ \A m \in Mailed : Edits(m, ask[r].doc) => Fresh(m.text, r)
              => (\A m \in Mailed : Edits(m, ask[r].doc) => Fresh(m.text, r))'
<1> DEFINE d == ask[r].doc
<1>1. ask'[r].doc = d /\ mail \in Seq(Msgs)
  BY DEF Keeps, Servers, MailTyped
<1>2. Request(r) \in Mailed => d \in Docs
  BY DEF Servers, MailTyped
<1>3. \A k \in 1..Len(mail) : mail[k] \in Mailed
  BY DEF Mailed
<1> HIDE DEF d
<1>4. CASE Shrinks
  <2>1. /\ Mailed' \subseteq Mailed
        /\ \A i, j \in 1..Len(mail') : i < j =>
              \E x, y \in 1..Len(mail) : x < y /\ mail'[i] = mail[x] /\ mail'[j] = mail[y]
    <3>1. CASE mail' = mail
      BY <3>1 DEF Mailed
    <3>2. CASE mail' = <<>>
      BY <3>2, NoMail DEF Mailed
    <3>3. CASE mail # <<>> /\ mail' = Tail(mail)
      <4>1. /\ Len(mail) \in Nat /\ Len(mail') = Len(mail) - 1
            /\ \A i \in 1 .. Len(mail) - 1 : mail'[i] = mail[i + 1] /\ i + 1 \in 1..Len(mail)
        BY <1>1, <3>3, TailDrops
      <4>2. Mailed' \subseteq Mailed
        BY <4>1 DEF Mailed
      <4>3. \A i, j \in 1..Len(mail') : i < j => i + 1 < j + 1
        OBVIOUS
      <4> QED
        BY <4>1, <4>2, <4>3
    <3> QED
      BY <1>4, <3>1, <3>2, <3>3 DEF Shrinks
  <2>2. ASSUME FreshMail(r), NEW i \in 1..Len(mail'), NEW j \in 1..Len(mail'),
               mail'[i] = Request(r), i < j, Edits(mail'[j], d), NEW t, t = mail'[j].text
        PROVE  Fresh(t, r)'
    <3>1. PICK x, y \in 1..Len(mail) : x < y /\ mail[x] = Request(r) /\ mail'[j] = mail[y]
      BY <2>1, <2>2
    <3>2. Fresh(t, r) /\ Request(r) \in Mailed
      BY <1>3, <2>2, <3>1 DEF FreshMail, d
    <3> QED
      BY <1>2, <3>2, FreshStays DEF d
  <2>3. ASSUME d \in Docs, \A m \in Mailed : Edits(m, d) => Fresh(m.text, r),
               NEW m \in Mailed', Edits(m, d), NEW t, t = m.text
        PROVE  Fresh(t, r)'
    BY <2>1, <2>3, FreshStays DEF d
  <2>4. FreshMail(r) => FreshMail(r)'
    BY <1>1, <2>2 DEF FreshMail, Fresh, Request, Edits
  <2> QED
    BY <1>1, <2>3, <2>4 DEF Fresh, Edits, d
<1>5. ASSUME NEW m \in Msgs, Receives(m), m.kind # "Ask",
             m.kind \in EditKinds => /\ m.text = editor'[m.doc] /\ m.text \in {0, NewText}
                                     /\ acts' = acts + 1
      PROVE  /\ FreshMail(r) => FreshMail(r)'
             /\ /\ ask[r].doc \in Docs
                /\ \A n \in Mailed : Edits(n, ask[r].doc) => Fresh(n.text, r)
                => (\A n \in Mailed : Edits(n, ask[r].doc) => Fresh(n.text, r))'
  <2>1. /\ Len(mail) \in Nat /\ Len(mail') = Len(mail) + 1 /\ Mailed' = Mailed \cup {m}
        /\ \A i \in 1 .. Len(mail) + 1 : mail'[i] = IF i <= Len(mail) THEN mail[i] ELSE m
    BY <1>1, <1>5, AppendAdds, ReceivesAdds DEF Receives
  <2>2. ASSUME d \in Docs, Edits(m, d), NEW t, t = m.text
        PROVE  Fresh(t, r)'
    BY <1>5, <2>2, FreshStays DEF Edits, NewText, d
  <2>3. ASSUME FreshMail(r), NEW i \in 1..Len(mail'), NEW j \in 1..Len(mail'),
               mail'[i] = Request(r), i < j, Edits(mail'[j], d), NEW t, t = mail'[j].text
        PROVE  Fresh(t, r)'
    <3>1. i \in 1..Len(mail) /\ mail[i] = Request(r) /\ Request(r) \in Mailed
      BY <1>3, <2>1, <2>3
    <3>2. CASE j = Len(mail) + 1
      <4>1. mail'[j] = m
        BY <2>1, <3>2
      <4> QED
        BY <1>2, <2>2, <2>3, <3>1, <4>1
    <3>3. CASE j # Len(mail) + 1
      <4>1. j \in 1..Len(mail) /\ mail'[j] = mail[j]
        BY <2>1, <3>3
      <4>2. Fresh(t, r)
        BY <2>3, <3>1, <4>1 DEF FreshMail, d
      <4> QED
        BY <1>2, <3>1, <4>2, FreshStays DEF d
    <3> QED
      BY <3>2, <3>3
  <2>4. ASSUME d \in Docs, \A n \in Mailed : Edits(n, d) => Fresh(n.text, r),
               NEW n \in Mailed', Edits(n, d), NEW t, t = n.text
        PROVE  Fresh(t, r)'
    BY <2>1, <2>2, <2>4, FreshStays DEF d
  <2>5. FreshMail(r) => FreshMail(r)'
    BY <1>1, <2>3 DEF FreshMail, Fresh, Request, Edits
  <2> QED
    BY <1>1, <2>4, <2>5 DEF Fresh, Edits, d
<1> QED
  BY <1>4, <1>5, OtherMail DEF Sound

\* What a server is told is what the mirror holds.
LEMMA ViewMoves ==
    ASSUME SessionInv, [Next]_vars
    PROVE  \A e \in Epochs, d \in Docs :
               \/ view'[e][d].text = view[e][d].text
               \/ actor' = "run" /\ view'[e][d].text = mirror'[d].text
<1> USE DEF SessionInv, Servers, Documents, DocsTyped
<1>1. ASSUME NEW x \in Docs, NEW u, Update(x, u), actor' = "run",
             u.action = "didClose" => u.entry.text = 0
      PROVE  \A e \in Epochs, d \in Docs :
               \/ view'[e][d].text = view[e][d].text
               \/ actor' = "run" /\ view'[e][d].text = mirror'[d].text
  <2>1. CASE ~LiveClient
    BY <1>1, <2>1 DEF Update
  <2>2. CASE LiveClient
    <3> DEFINE now == Forward(view[srv.epoch][x], u)
    <3>1. view' = [view EXCEPT ![srv.epoch][x] = now] /\ mirror' = [mirror EXCEPT ![x] = u.entry]
      BY <1>1, <2>2 DEF Update
    <3>2. now = view[srv.epoch][x] \/ now.text = u.entry.text
      BY <1>1 DEF Forward, Closed
    <3> HIDE DEF now
    <3> QED
      BY <1>1, <3>1, <3>2
  <2> QED
    BY <2>1, <2>2
<1>2. CASE OnOpen
  <2>1. /\ Head(mail).doc \in Docs /\ actor' = "run"
        /\ Update(Head(mail).doc, OpenIn(Head(mail).doc, Head(mail).text, LiveClient))
    BY <1>2, HeadIsMailed DEF MailTyped, OnOpen, Handles
  <2>2. OpenIn(Head(mail).doc, Head(mail).text, LiveClient).action # "didClose"
    BY DEF OpenIn
  <2> QED
    BY <1>1, <2>1, <2>2
<1>3. CASE OnChange
  <2>1. /\ Head(mail).doc \in Docs /\ actor' = "run"
        /\ Update(Head(mail).doc, ChangeIn(Head(mail).doc, Head(mail).text))
    BY <1>3, HeadIsMailed DEF MailTyped, OnChange, Handles
  <2>2. ChangeIn(Head(mail).doc, Head(mail).text).action # "didClose"
    BY DEF ChangeIn
  <2> QED
    BY <1>1, <2>1, <2>2
<1>4. CASE OnClose
  <2>1. /\ Head(mail).doc \in Docs /\ actor' = "run"
        /\ Update(Head(mail).doc, CloseIn(Head(mail).doc))
    BY <1>4, HeadIsMailed DEF MailTyped, OnClose, Handles
  <2>2. CloseIn(Head(mail).doc).entry.text = 0
    BY DEF CloseIn, NotOpen
  <2> QED
    BY <1>1, <2>1, <2>2
<1>5. CASE OnAsk
  <2>1. Question \in Docs /\ actor' = "run"
    BY <1>5, HeadIsMailed DEF MailTyped, OnAsk, Handles, Question
  <2>2. UNCHANGED docVars \/ Update(Question, OpenIn(Question, QuestionText, TRUE))
    BY <1>5 DEF OnAsk, Question, QuestionText
  <2>3. OpenIn(Question, QuestionText, TRUE).action # "didClose"
    BY DEF OpenIn
  <2> QED
    BY <1>1, <2>1, <2>2, <2>3 DEF docVars
<1>6. CASE OnStarted
  <2>1. actor' = "run" /\ srv.epoch \in Epochs
    BY <1>6, HeadIsMailed DEF OnStarted, Handles, MailTyped, Reports
  <2>2. /\ mirror' = [d \in Docs |-> [mirror[d] EXCEPT !.told = (mirror[d].text # 0)]]
        /\ view' = [view EXCEPT ![srv.epoch] = [d \in Docs |->
                      [text |-> mirror[d].text, version |-> mirror[d].version]]]
    BY <1>6 DEF OnStarted
  <2>3. \A d \in Docs : mirror'[d].text = mirror[d].text
    BY <2>2 DEF Entry
  <2> QED
    BY <2>1, <2>2, <2>3
<1>7. \/ OnOpen \/ OnChange \/ OnClose \/ OnAsk \/ OnStarted
      \/ view' = view
  BY DEF Next, Editor, EditorOpens, EditorTypes, EditorCloses, Actor, Asking, RequestTeardown,
     DropHandles, OnAskUnready, OnAskUnreadable, OnStartFailed, OnDied, OnReadiness, TearDown,
     Start, StartSucceeds, StartFails, StartEnds, Supervisor, SupervisorReports,
     SupervisorEnds, Environment, ServerPrimes, ProcessExits, DeathPublished, Task, TaskAsks,
     TaskEnds, WindowPasses, vars, docVars
<1> QED
  BY <1>2, <1>3, <1>4, <1>5, <1>6, <1>7

\* What the session holds of a document stays fresh for a request it has spawned.
LEMMA FreshMirrorStep ==
    ASSUME SessionInv, InOrder, Past, [Next]_vars, ~Asked, actor' = "run", NEW r \in Asks,
           ask[r].doc \in Docs, ask[r].text # 0, Keeps(r), actor = "run" => FreshSession(r)
    PROVE  Fresh(mirror[ask[r].doc].text, r)'
<1> USE DEF SessionInv, Servers
<1> DEFINE d == ask[r].doc
<1>1. ask'[r].doc = d
  BY DEF Keeps
<1>2. \A t : Fresh(t, r) => Fresh(t, r)'
  BY FreshStays
<1>3. actor = "run" /\ (mirror' = mirror \/ (Actor /\ ~TearDown))
  BY DEF Next, Editor, EditorOpens, EditorTypes, EditorCloses, Actor, Asking, RequestTeardown,
     DropHandles, OnOpen, OnChange, OnClose, OnAsk, OnStarted, Handles,
     OnAskUnready, OnAskUnreadable, OnStartFailed, OnDied, OnReadiness, TearDown,
     Start, StartSucceeds, StartFails, StartEnds, Supervisor, SupervisorReports,
     SupervisorEnds, Environment, ServerPrimes, ProcessExits, DeathPublished, Task, TaskAsks,
     TaskEnds, WindowPasses, vars, docVars
<1>4. Fresh(mirror[d].text, r)
  BY <1>3 DEF FreshSession
<1>5. ASSUME NEW t, t = mirror'[d].text
      PROVE  Fresh(t, r)'
  <2>1. CASE mirror' = mirror
    BY <1>2, <1>4, <1>5, <2>1
  <2>2. CASE Actor /\ ~TearDown
    <3>1. Advances
      BY <2>2, ActorAdvances DEF Actor
    <3>2. CASE Edits(Head(mail), d)
      <4>1. mirror'[d].text = Head(mail).text /\ Head(mail) \in Mailed
        <5>1. mail \in Seq(Msgs) /\ mail # <<>>
          BY <3>1 DEF MailTyped, Advances
        <5>2. Head(mail) = mail[1] /\ Len(mail) \in Nat /\ Len(mail) >= 1
          BY <5>1, TailDrops
        <5> QED
          BY <3>1, <3>2, <5>2 DEF Advances, Mailed
      <4> QED
        BY <1>2, <1>3, <1>5, <3>2, <4>1 DEF FreshSession
    <3>3. CASE mirror'[d].text = mirror[d].text
      BY <1>2, <1>4, <1>5, <3>3
    <3>4. CASE mirror[d].text = 0 /\ mirror'[d].text = OnDisk
      <4>1. editor[d] # ask[r].text
        BY <1>4, <3>4 DEF Fresh
      <4>2. acts \in Nat /\ ask[r].text \in Nat /\ ask[r].text <= 2 * acts
        BY SessionBounds DEF RestTyped, Query, Stamps, Past
      <4>3. OnDisk > ask[r].text
        BY <4>2 DEF OnDisk
      <4>4. Fresh(t, r)
        BY <1>5, <3>4, <4>1, <4>3 DEF Fresh
      <4> QED
        BY <1>2, <4>4
    <3> QED
      BY <3>1, <3>2, <3>3, <3>4 DEF Advances
  <2> QED
    BY <1>3, <2>1, <2>2
<1> QED
  BY <1>1, <1>5 DEF Fresh

\* When a request is spawned, the session and its server have the text its caller saw.
LEMMA SpawnedFresh ==
    ASSUME SessionInv, SessionInv', InOrder, Past, [Next]_vars, ~Asked, OnAsk \/ OnAskUnreadable,
           NEW r \in Asks, r = Head(mail).ask, ask[r].text # 0, ask'[r].epoch = srv.epoch,
           Keeps(r), FreshMail(r)
    PROVE  FreshSession(r)' /\ FreshServer(r)'
<1> USE DEF SessionInv, Servers
<1> DEFINE d == ask[r].doc
<1>1. /\ Head(mail) = Request(r) /\ d \in Docs /\ actor = "run" /\ actor' = "run"
      /\ UNCHANGED <<srv, known, editor>> /\ mail # <<>> /\ mail' = Tail(mail) /\ mail \in Seq(Msgs)
  BY HeadIsMailed DEF OnAsk, OnAskUnreadable, Handles, MailTyped, serverVars, editorVars
<1>2. ask'[r].doc = d /\ ask'[r].text = ask[r].text
  BY DEF Keeps
<1>3. /\ Head(mail) = mail[0 + 1] /\ Head(mail) = mail[1] /\ 0 < Len(mail) /\ 0 \in Nat
      /\ Len(mail) \in Nat /\ Len(mail') = Len(mail) - 1
      /\ \A i \in 1 .. Len(mail) - 1 : mail'[i] = mail[i + 1] /\ i + 1 \in 1..Len(mail)
  <2>1. Head(mail) = mail[1] /\ Len(mail) \in Nat /\ Len(mail) >= 1
    BY <1>1, TailDrops
  <2> QED
    BY <1>1, <2>1, TailDrops
<1>4. mirror'[d].text = ask[r].text
  <2>1. PICK t \in Stamps \ {0} : t = ask[r].text
    BY DEF RestTyped, Query
  <2>2. Comes(d, 0, t)
    BY <1>1, <1>3, <2>1 DEF InOrder, RequestComes
  <2>3. mirror[d].text = t
    BY <2>2 DEF Comes
  <2>4. Advances
    BY ActorAdvances
  <2>5. ~Edits(Head(mail), d)
    BY <1>1 DEF Edits, Request, EditKinds
  <2> QED
    BY <1>1, <2>1, <2>3, <2>4, <2>5 DEF Advances
<1>5. view'[srv.epoch][d].text = mirror'[d].text
  <2>1. srv.state # "none"
    BY DEF ServerTyped, Server, States
  <2>2. LiveClient
    BY <2>1 DEF OnAsk, OnAskUnreadable, Unready, LiveClient
  <2>3. LiveClient' /\ srv'.epoch = srv.epoch
    BY <1>1, <2>2 DEF LiveClient
  <2>4. view'[srv.epoch][d] = [text |-> mirror'[d].text, version |-> mirror'[d].version]
    BY <1>1, <2>3 DEF Documents, Synced, Follows
  <2> QED
    BY <2>4
<1>6. ASSUME NEW m \in Mailed', Edits(m, d), NEW t, t = m.text
      PROVE  Fresh(t, r)'
  <2>1. PICK i \in 1..Len(mail') : m = mail'[i]
    BY <1>6 DEF Mailed
  <2>2. i + 1 \in 1..Len(mail) /\ 1 \in 1..Len(mail) /\ 1 < i + 1 /\ m = mail[i + 1]
    BY <1>3, <2>1
  <2>3. Fresh(t, r)
    BY <1>1, <1>3, <1>6, <2>2 DEF FreshMail
  <2> QED
    BY <1>1, <2>3, FreshStays
<1> QED
  BY <1>2, <1>4, <1>5, <1>6 DEF FreshSession, FreshServer, Fresh, Edits

LEMMA FreshStep ==
    ASSUME SessionInv, SessionInv', InOrder, FreshInv, [Next]_vars
    PROVE  FreshInv'
<1> USE DEF SessionInv, Servers
<1>1. Past'
  BY PastStep DEF FreshInv
<1>2. ASSUME ~Asked, NEW r \in Asks, ask'[r].text # 0
      PROVE  Freshly(r)'
  <2>1. Keeps(r) /\ Moves(r)
    BY <1>2, AskStep
  <2>2. ask'[r].doc = ask[r].doc /\ ask'[r].text = ask[r].text /\ ask[r].text # 0
    BY <1>2, <2>1 DEF Keeps
  <2>3. Past /\ Freshly(r)
    BY <2>2 DEF FreshInv
  <2>4. FreshMail(r)'
    BY <1>2, <2>1, <2>2, <2>3, FreshMailStep DEF Freshly
  <2>5. CASE ask'[r] = ask[r]
    <3>1. ASSUME ask[r].state = "spawned"
          PROVE  FreshSession(r)' /\ FreshServer(r)'
      <4>1. ask[r].doc \in Docs /\ ask[r].epoch \in Epochs /\ FreshSession(r) /\ FreshServer(r)
        BY <2>3, <3>1 DEF RestTyped, Freshly
      <4>2. actor' = "run" => actor = "run"
        BY DEF Next, Editor, EditorOpens, EditorTypes, EditorCloses, Actor, Asking,
           RequestTeardown, DropHandles, OnOpen, OnChange, OnClose, OnAsk, OnStarted, Handles,
           OnAskUnready, OnAskUnreadable, OnStartFailed, OnDied, OnReadiness, TearDown,
           Start, StartSucceeds, StartFails, StartEnds, Supervisor, SupervisorReports,
           SupervisorEnds, Environment, ServerPrimes, ProcessExits, DeathPublished, Task,
           TaskAsks, TaskEnds, WindowPasses, vars
      <4>3. actor' = "run" => Fresh(mirror[ask[r].doc].text, r)'
        BY <1>2, <2>1, <2>2, <2>3, <4>1, FreshMirrorStep
      <4>4. actor' = "run" => (\A m \in Mailed : Edits(m, ask[r].doc) => Fresh(m.text, r))'
        BY <1>2, <2>1, <2>2, <2>3, <4>1, <4>2, FreshMailStep DEF FreshSession
      <4>5. FreshSession(r)'
        BY <4>3, <4>4 DEF FreshSession
      <4>6. FreshServer(r)'
        <5> SUFFICES ASSUME ask[r].epoch \notin known'
                     PROVE  Fresh(view[ask[r].epoch][ask[r].doc].text, r)'
          BY <2>5 DEF FreshServer
        <5>1. ask[r].epoch \notin known
          BY DEF Next, Editor, EditorOpens, EditorTypes, EditorCloses, Actor, Asking,
             RequestTeardown, DropHandles, OnOpen, OnChange, OnClose, OnAsk, OnStarted,
             OnAskUnready, OnAskUnreadable, OnStartFailed, OnDied, OnReadiness, TearDown,
             Start, StartSucceeds, StartFails, StartEnds, Supervisor, SupervisorReports,
             SupervisorEnds, Environment, ServerPrimes, ProcessExits, DeathPublished, Task,
             TaskAsks, TaskEnds, WindowPasses, vars, serverVars
        <5>2. ASSUME NEW t, t = view[ask[r].epoch][ask[r].doc].text
              PROVE  Fresh(t, r)'
          BY <2>1, <2>2, <2>3, <4>1, <5>1, <5>2, FreshStays DEF FreshServer
        <5>3. CASE view'[ask[r].epoch][ask[r].doc].text = view[ask[r].epoch][ask[r].doc].text
          BY <2>5, <5>2, <5>3 DEF Fresh
        <5>4. CASE /\ actor' = "run"
                   /\ view'[ask[r].epoch][ask[r].doc].text = mirror'[ask[r].doc].text
          BY <2>5, <4>3, <5>4 DEF Fresh
        <5> QED
          BY <4>1, <5>3, <5>4, ViewMoves
      <4> QED
        BY <4>5, <4>6
    <3>2. ASSUME ask[r].state = "asked", NEW t, t = ask[r].served
          PROVE  Fresh(t, r)'
      <4>1. ask[r].doc \in Docs /\ Fresh(t, r)
        BY <2>3, <3>2 DEF RestTyped, Freshly
      <4> QED
        BY <2>1, <2>2, <2>3, <4>1, FreshStays
    <3> QED
      BY <2>4, <2>5, <3>1, <3>2 DEF Freshly, Fresh
  <2>6. CASE ask'[r].state = "done"
    BY <2>4, <2>6 DEF Freshly
  <2>7. CASE /\ OnAsk \/ OnAskUnreadable
             /\ r = Head(mail).ask /\ ask'[r].state = "spawned" /\ ask'[r].epoch = srv.epoch
    BY <1>2, <2>1, <2>2, <2>3, <2>4, <2>7, SpawnedFresh DEF Freshly
  <2>8. CASE /\ TaskAsks(r) /\ ask'[r].state = "asked"
             /\ ask'[r].served = view[ask[r].epoch][ask[r].doc].text
    <3>1. /\ ask[r].state = "spawned" /\ ask[r].epoch \notin known /\ ask[r].doc \in Docs
      BY <2>8 DEF TaskAsks, RestTyped
    <3>2. ASSUME NEW t, t = view[ask[r].epoch][ask[r].doc].text
          PROVE  Fresh(t, r)'
      BY <2>1, <2>2, <2>3, <3>1, <3>2, FreshStays DEF Freshly, FreshServer
    <3> QED
      BY <2>4, <2>8, <3>2 DEF Freshly, Fresh
  <2> QED
    BY <2>1, <2>5, <2>6, <2>7, <2>8 DEF Moves
<1>3. ASSUME Asked, NEW r \in Asks, ask'[r].text # 0
      PROVE  Freshly(r)'
  <2>1. PICK x \in Asks, k \in Kinds, d \in Docs : Asking(x, k, d)
    BY <1>3 DEF Asked
  <2>2. /\ ask'[x].doc = d /\ ask'[x].text = editor[d] /\ ask'[x].state \in {"mailed", "done"}
        /\ \A y \in Asks : y # x => ask'[y] = ask[y]
    BY <2>1, AskingTyped
  <2>3. /\ ask[x].state = "idle" /\ Request(x) \notin Mailed /\ mail \in Seq(Msgs)
        /\ UNCHANGED <<actor, known, view, mirror, editor>>
    BY <2>1 DEF Asking, AsksMailed, serverVars, docVars, editorVars, MailTyped
  <2>4. mail' = mail \/ (mail' = Append(mail, Request(x)) /\ Request(x) \in Msgs)
    BY <2>1 DEF Asking, Tell, Request, Msgs
  <2>5. /\ Mailed' \subseteq Mailed \cup {Request(x)}
        /\ \A i \in 1..Len(mail') : \/ i \in 1..Len(mail) /\ mail'[i] = mail[i]
                                    \/ mail'[i] = Request(x) /\ \A j \in 1..Len(mail') : ~(i < j)
    <3>1. CASE mail' = mail
      BY <3>1 DEF Mailed
    <3>2. CASE mail' = Append(mail, Request(x)) /\ Request(x) \in Msgs
      <4>1. /\ Len(mail) \in Nat /\ Len(mail') = Len(mail) + 1 /\ Mailed' = Mailed \cup {Request(x)}
            /\ \A i \in 1 .. Len(mail) + 1 :
                  mail'[i] = IF i <= Len(mail) THEN mail[i] ELSE Request(x)
        BY <2>3, <3>2, AppendAdds, ReceivesAdds DEF Receives
      <4> QED
        BY <4>1
    <3> QED
      BY <2>4, <3>1, <3>2
  <2>6. \A z : ~Edits(Request(x), z)
    BY DEF Edits, Request, EditKinds
  <2>7. \A i \in 1..Len(mail) : mail[i] # Request(x)
    BY <2>3 DEF Mailed
  <2>8. CASE r = x
    <3>1. FreshMail(r)'
      BY <2>5, <2>7, <2>8 DEF FreshMail, Request
    <3> QED
      BY <2>2, <2>8, <3>1 DEF Freshly
  <2>9. CASE r # x
    <3>1. ask'[r] = ask[r] /\ Freshly(r)
      BY <1>3, <2>2, <2>9 DEF FreshInv
    <3>2. FreshMail(r)'
      <4>1. Request(x) # Request(r)
        BY <2>9 DEF Request
      <4> SUFFICES ASSUME NEW i \in 1..Len(mail'), NEW j \in 1..Len(mail'),
                          mail'[i] = Request(r), i < j, Edits(mail'[j], ask[r].doc)
                   PROVE  Fresh(mail'[j].text, r)
        BY <2>3, <3>1 DEF FreshMail, Fresh, Request, Edits
      <4>2. i \in 1..Len(mail) /\ mail[i] = Request(r)
        BY <2>5, <4>1
      <4>3. j \in 1..Len(mail) /\ mail'[j] = mail[j]
        BY <2>5, <2>6
      <4> QED
        BY <3>1, <4>2, <4>3 DEF Freshly, FreshMail
    <3>3. ask[r].state = "spawned" => FreshSession(r)' /\ FreshServer(r)'
      <4>1. \A m \in Mailed' : Edits(m, ask[r].doc) => m \in Mailed
        BY <2>5, <2>6
      <4> QED
        BY <2>3, <3>1, <4>1 DEF Freshly, FreshSession, FreshServer, Fresh, Edits
    <3> QED
      BY <2>3, <3>1, <3>2, <3>3 DEF Freshly, Fresh
  <2> QED
    BY <2>8, <2>9
<1> QED
  BY <1>1, <1>2, <1>3 DEF FreshInv

\* A request about an open buffer is never asked about an older text than its caller saw, and
\* about a later one only when the editor has changed the buffer since: the one mailbox, the
\* order of the actor's calls and the request's own task (LspHandle::ask, prepare, ensure_open
\* and the spawned requests of session.rs).
THEOREM AsksAreAboutTheCallersText == Spec => []AskedAboutTheCallersText
<1>1. Init => SessionInv /\ InOrder /\ FreshInv
  <2>1. Init => Len(mail) = 0 /\ \A d \in Docs : editor[d] = 0
    BY DEF Init
  <2>2. Init => InOrder
    BY <2>1 DEF InOrder, EditorComes, RequestComes, ChangeComes
  <2>3. Init => FreshInv
    BY DEF Init, FreshInv, Past, Idle
  <2> QED
    BY <2>2, <2>3, SessionInit
<1>2. SessionInv /\ InOrder /\ FreshInv /\ [Next]_vars => (SessionInv /\ InOrder /\ FreshInv)'
  BY SessionNext, InOrderStep, FreshStep
<1>3. FreshInv => AskedAboutTheCallersText
  BY DEF FreshInv, Freshly, Fresh, AskedAboutTheCallersText
<1> QED
  BY <1>1, <1>2, <1>3, PTL DEF Spec

-----------------------------------------------------------------------------
(* The reports of the tasks                                                *)

\* Nothing is reported of a server behind its death.
DeathsLast ==
    \A i, j \in 1..Len(mail) : mail[i].kind = "Died" /\ mail[j].kind \in Reports => j <= i

\* A server is reported while it is the session's own: started once, then supervised, then dead.
Reported ==
    /\ \A k \in Reports, e \in Epochs : About(k, e) \in Mailed => e = srv.epoch
    /\ DeathsLast
    /\ \A e \in Epochs :
          /\ About("Died", e) \in Mailed => sup[e].state = "end"
          /\ About("Started", e) \in Mailed => sup[e].state = "none"
          /\ About("StartFailed", e) \in Mailed => attempt[e] = "failed"
          /\ sup[e].state # "none" => attempt[e] = "started"
          /\ sup[e].state = "watch" => e = srv.epoch
          /\ attempt[e] = "starting" => e = srv.epoch

LEMMA DeathsLastShrinks ==
    ASSUME mail \in Seq(Msgs), DeathsLast, Shrinks
    PROVE  DeathsLast'
<1>1. CASE mail' = mail
  BY <1>1 DEF DeathsLast
<1>2. CASE mail' = <<>>
  BY <1>2, NoMail DEF DeathsLast
<1>3. CASE mail # <<>> /\ mail' = Tail(mail)
  <2>1. /\ Len(mail') = Len(mail) - 1 /\ Len(mail) \in Nat
        /\ \A i \in 1 .. Len(mail) - 1 : i + 1 \in 1 .. Len(mail) /\ mail'[i] = mail[i + 1]
    BY <1>3, TailDrops
  <2> SUFFICES ASSUME NEW i \in 1..Len(mail'), NEW j \in 1..Len(mail'),
                      mail'[i].kind = "Died", mail'[j].kind \in Reports
               PROVE  j <= i
    BY DEF DeathsLast
  <2>2. j + 1 <= i + 1
    BY <2>1 DEF DeathsLast
  <2> QED
    BY <2>1, <2>2
<1> QED
  BY <1>1, <1>2, <1>3 DEF Shrinks

LEMMA DeathsLastAdds ==
    ASSUME mail \in Seq(Msgs), DeathsLast, NEW m \in Msgs, Receives(m),
           m.kind \notin Reports \/ \A e \in Epochs : About("Died", e) \notin Mailed
    PROVE  DeathsLast'
<1>1. /\ Len(mail') = Len(mail) + 1 /\ Len(mail) \in Nat
      /\ \A i \in 1 .. Len(mail) + 1 : mail'[i] = IF i <= Len(mail) THEN mail[i] ELSE m
  BY AppendAdds DEF Receives
<1> SUFFICES ASSUME NEW i \in 1..Len(mail'), NEW j \in 1..Len(mail'),
                    mail'[i].kind = "Died", mail'[j].kind \in Reports
             PROVE  j <= i
  BY DEF DeathsLast
<1>2. CASE i <= Len(mail) /\ j <= Len(mail)
  BY <1>1, <1>2 DEF DeathsLast
<1>3. CASE i = Len(mail) + 1
  BY <1>1, <1>3
<1>4. CASE i <= Len(mail) /\ j = Len(mail) + 1
  <2>1. m.kind \in Reports
    BY <1>1, <1>4
  <2>2. mail[i].kind = "Died" /\ mail[i] \in Msgs /\ i \in 1..Len(mail)
    BY <1>1, <1>4
  <2>3. mail[i].epoch \in Epochs /\ mail[i] = About("Died", mail[i].epoch)
    BY <2>2 DEF Msgs, About, Reports
  <2>4. mail[i] \in Mailed
    BY <2>2 DEF Mailed
  <2> QED
    BY <2>1, <2>3, <2>4
<1> QED
  BY <1>1, <1>2, <1>3, <1>4

\* Steps that report nothing of the servers and do not change what is reported of them.
LEMMA StillReported ==
    ASSUME Servers, Reported, Shrinks \/ \E m \in Msgs : Receives(m) /\ m.kind \notin Reports,
           srv'.epoch = srv.epoch, attempt' = attempt,
           \A e \in Epochs : sup'[e].state = sup[e].state
    PROVE  Reported'
<1> USE DEF Servers, MailTyped
<1>1. DeathsLast' /\ \A k \in Reports, e \in Epochs : About(k, e) \in Mailed' => About(k, e) \in Mailed
  <2>1. CASE Shrinks
    BY <2>1, DeathsLastShrinks, ShrinksLoses DEF Reported
  <2>2. ASSUME NEW m \in Msgs, Receives(m), m.kind \notin Reports
        PROVE  DeathsLast' /\ \A k \in Reports, e \in Epochs :
                                 About(k, e) \in Mailed' => About(k, e) \in Mailed
    <3>1. Mailed' = Mailed \cup {m}
      BY <2>2, ReceivesAdds
    <3>2. \A k \in Reports, e \in Epochs : About(k, e) # m
      BY <2>2 DEF About
    <3> QED
      BY <2>2, <3>1, <3>2, DeathsLastAdds DEF Reported
  <2> QED
    BY <2>1, <2>2
<1>2. \A k \in {"Died", "Started", "StartFailed"} : k \in Reports
  BY DEF Reports
<1> QED
  BY <1>1, <1>2 DEF Reported

\* Steps that start the next server: nothing is left in the mail about the one before.
LEMMA NextReported ==
    ASSUME Servers, Reported, mail' \in Seq(Msgs), Mailed' \subseteq Mailed, DeathsLast',
           NEW s \in Server, Started(srv, s), UNCHANGED sup,
           \/ s = srv
           \/ /\ s.state = "Starting" /\ s.epoch = srv.epoch + 1
              /\ \A k \in Reports, e \in Epochs : About(k, e) \notin Mailed'
              /\ \A e \in Epochs : sup[e].state # "watch" /\ attempt[e] # "starting"
    PROVE  Reported'
<1> USE DEF Servers
<1>1. /\ srv' = s
      /\ attempt' = IF s = srv THEN attempt ELSE [attempt EXCEPT ![s.epoch] = "starting"]
  BY StartedStarts
<1>2. CASE s = srv
  <2>1. \A k \in {"Died", "Started", "StartFailed"} : k \in Reports
    BY DEF Reports
  <2> QED
    BY <1>1, <1>2, <2>1 DEF Reported
<1>3. CASE s # srv
  <2>1. /\ \A k \in Reports, e \in Epochs : About(k, e) \notin Mailed'
        /\ \A e \in Epochs : sup[e].state # "watch" /\ attempt[e] # "starting"
        /\ s.epoch = srv.epoch + 1
    BY <1>3
  <2>2. \A e \in Epochs : attempt'[e] = IF e = s.epoch THEN "starting" ELSE attempt[e]
    BY <1>1, <1>3 DEF ServerTyped
  <2>3. s.epoch \in Epochs => attempt[s.epoch] = "none"
    BY <2>1 DEF EpochsOK, ServerTyped, Server
  <2>4. \A k \in {"Died", "Started", "StartFailed"} : k \in Reports
    BY DEF Reports
  <2>5. \A e \in Epochs : sup[e].state # "none" => attempt[e] = "started"
    BY DEF Reported
  <2> QED
    BY <1>1, <2>1, <2>2, <2>3, <2>4, <2>5 DEF Reported
<1> QED
  BY <1>2, <1>3

LEMMA ReportedStep ==
    ASSUME SessionInv, Reported, [Next]_vars
    PROVE  Reported'
<1> USE DEF SessionInv, Servers, MailTyped
<1>0. Servers' /\ mail \in Seq(Msgs)
  BY SessionNext
<1>1. CASE OnOpen \/ OnAskUnready
  <2>1. /\ Shrinks /\ actor = "run" /\ Started(srv, EnsureStarted(srv)) /\ UNCHANGED sup
    BY <1>1, HeadIsMailed DEF OnOpen, OnAskUnready, Handles
  <2>2. mail' \in Seq(Msgs) /\ Mailed' \subseteq Mailed /\ DeathsLast'
    BY <2>1, ShrinksLoses, DeathsLastShrinks DEF Reported
  <2>3. srv.state = "Idle" => /\ \A k \in Reports, e \in Epochs : About(k, e) \notin Mailed'
                              /\ \A e \in Epochs : sup[e].state # "watch" /\ attempt[e] # "starting"
    <3>1. srv.state = "Idle" => srv.epoch = 0
      BY <2>1 DEF EpochsOK
    <3>2. 0 \notin Epochs
      BY DEF Epochs
    <3> QED
      BY <2>2, <3>1, <3>2 DEF Reported
  <2> QED
    BY <2>1, <2>2, <2>3, FirstServer, NextReported
<1>2. CASE OnDied
  <2>1. /\ Shrinks /\ Head(mail).epoch \in Epochs /\ Head(mail) = About("Died", srv.epoch)
        /\ Head(mail) \in Mailed /\ UNCHANGED sup /\ mail # <<>> /\ mail' = Tail(mail)
    BY <1>2, HeadIsMailed DEF OnDied, Handles, Reports
  <2>2. mail' \in Seq(Msgs) /\ Mailed' \subseteq Mailed /\ DeathsLast'
    BY <2>1, ShrinksLoses, DeathsLastShrinks DEF Reported
  <2>3. \A k \in Reports, e \in Epochs : About(k, e) \notin Mailed'
    <3>1. /\ Head(mail) = mail[1] /\ Len(mail) \in Nat /\ Len(mail') = Len(mail) - 1
          /\ \A i \in 1 .. Len(mail) - 1 : i + 1 \in 1 .. Len(mail) /\ mail'[i] = mail[i + 1]
          /\ Len(mail) >= 1
      BY <2>1, TailDrops
    <3>2. \A i \in 1 .. Len(mail) - 1 : mail'[i].kind \notin Reports
      <4>1. mail[1].kind = "Died" /\ 1 \in 1..Len(mail)
        BY <2>1, <3>1 DEF About
      <4> QED
        BY <3>1, <4>1 DEF Reported, DeathsLast
    <3>3. \A k \in Reports, e \in Epochs : About(k, e).kind = k
      BY DEF About
    <3> QED
      BY <3>1, <3>2, <3>3 DEF Mailed
  <2>4. \A e \in Epochs : sup[e].state # "watch" /\ attempt[e] # "starting"
    <3>1. srv.epoch \in Epochs
      BY <1>2, <2>1 DEF OnDied
    <3>2. sup[srv.epoch].state = "end"
      BY <2>1, <3>1 DEF Reported
    <3> QED
      BY <3>1, <3>2 DEF Reported
  <2>5. CASE ~srv.recent /\ Started(srv, EnsureStarted([srv EXCEPT !.state = "Idle", !.recent = TRUE]))
    <3> DEFINE s == [srv EXCEPT !.state = "Idle", !.recent = TRUE]
    <3>1. s \in Server /\ s.state = "Idle" /\ s.epoch = srv.epoch
      BY DEF ServerTyped, Server, States
    <3>2. s.epoch + 1 <= MaxWindows + 2
      BY <2>5, <3>1, SessionBounds DEF EpochsOK, ServerTyped, Server
    <3> HIDE DEF s
    <3>3. /\ EnsureStarted(s) \in Server /\ EnsureStarted(s).state = "Starting"
          /\ EnsureStarted(s).epoch = srv.epoch + 1
      <4>1. /\ EnsureStarted(s) \in Server
            /\ EnsureStarted(s) = [state |-> "Starting", epoch |-> srv.epoch + 1,
                                   recent |-> s.recent]
        BY <3>1, <3>2, EnsureStartedIs
      <4> QED
        BY <4>1
    <3>4. Started(srv, EnsureStarted(s))
      BY <2>5 DEF s
    <3> QED
      BY <2>1, <2>2, <2>3, <2>4, <3>3, <3>4, NextReported
  <2>6. CASE srv' = [srv EXCEPT !.state = "Failed"] /\ UNCHANGED <<attempt, proc>>
    <3>1. srv'.epoch = srv.epoch
      BY <2>6 DEF ServerTyped, Server
    <3> QED
      BY <2>1, <2>6, <3>1, StillReported
  <2> QED
    BY <1>2, <2>5, <2>6 DEF OnDied
<1>3. CASE OnStarted
  <2>1. PICK e \in Epochs : /\ e = Head(mail).epoch /\ e = srv.epoch /\ About("Started", e) \in Mailed
                            /\ Shrinks
    BY <1>3, HeadIsMailed DEF OnStarted, Reports
  <2>2. /\ srv' = [srv EXCEPT !.state = "Up"] /\ attempt' = attempt
        /\ sup' = [sup EXCEPT ![e] = [state |-> "watch", last |-> ready[e]]]
    BY <1>3, <2>1 DEF OnStarted
  <2>3. srv'.epoch = srv.epoch /\ srv'.state = "Up"
    BY <2>2 DEF ServerTyped, Server
  <2>4. sup'[e].state = "watch" /\ \A x \in Epochs : x # e => sup'[x] = sup[x]
    BY <2>2 DEF ServerTyped
  <2>5. mail' \in Seq(Msgs) /\ Mailed' \subseteq Mailed /\ DeathsLast'
    BY <2>1, ShrinksLoses, DeathsLastShrinks DEF Reported
  <2>6. About("Started", e) \notin Mailed'
    BY <1>0, <2>1, <2>3 DEF StartsOK
  <2>7. attempt[e] = "started" /\ sup[e].state = "none"
    BY <2>1 DEF StartsOK, Reported
  <2>8. About("Died", e) \notin Mailed /\ About("StartFailed", e) \notin Mailed
    BY <2>7 DEF Reported
  <2> QED
    BY <2>1, <2>2, <2>3, <2>4, <2>5, <2>6, <2>7, <2>8 DEF Reported
<1>4. CASE OnStartFailed \/ TearDown
  <2>1. Shrinks
    BY <1>4, HeadIsMailed DEF OnStartFailed, TearDown, Shrinks
  <2>2. srv'.epoch = srv.epoch /\ UNCHANGED <<attempt, sup>>
    BY <1>4 DEF OnStartFailed, TearDown, ServerTyped, Server
  <2> QED
    BY <2>1, <2>2, StillReported
<1>5. CASE \/ Editor \/ (\E r \in Asks, k \in Kinds, d \in Docs : Asking(r, k, d))
           \/ RequestTeardown \/ DropHandles \/ OnChange \/ OnClose
           \/ OnAskUnreadable \/ OnAsk \/ OnReadiness \/ (\E r \in Asks : Task(r))
           \/ UNCHANGED vars
  <2>1. UNCHANGED serverVars
    BY <1>5, QuietSteps DEF Quiet
  <2>2. Shrinks \/ \E m \in Msgs : Receives(m) /\ m.kind \notin Reports
    <3>1. CASE Asked
      <4>1. PICK r \in Asks : Tell(Request(r)) /\ Request(r) \in Msgs /\ Request(r).kind \notin Reports
        BY <3>1 DEF Asked, Asking, Request, Msgs, Reports
      <4> QED
        BY <4>1, TellSends
    <3>2. CASE Editor
      <4>1. PICK m \in Msgs : Tell(m) /\ m.kind \in EditKinds
        BY <3>2, EditorTells DEF Editor
      <4> QED
        BY <4>1, TellSends DEF EditKinds, Reports
    <3>3. CASE RequestTeardown
      <4>1. About("Teardown", 0) \in Msgs /\ About("Teardown", 0).kind \notin Reports
        BY DEF About, Msgs, Reports
      <4> QED
        BY <3>3, <4>1, TellSends DEF RequestTeardown
    <3>4. CASE OnChange \/ OnClose \/ OnAskUnreadable \/ OnAsk \/ OnReadiness
      BY <3>4, HeadIsMailed DEF OnChange, OnClose, OnAskUnreadable, OnAsk, OnReadiness
    <3>5. CASE DropHandles \/ (\E r \in Asks : Task(r)) \/ UNCHANGED vars
      BY <3>5 DEF DropHandles, Task, TaskAsks, TaskEnds, vars, Shrinks
    <3> QED
      BY <1>5, <3>1, <3>2, <3>3, <3>4, <3>5 DEF Asked
  <2> QED
    BY <2>1, <2>2, StillReported DEF serverVars
<1>6. ASSUME NEW e \in Epochs, Start(e)
      PROVE  Reported'
  <2>1. PICK how \in {"started", "failed"}, k \in {"Started", "StartFailed"} :
             StartEnds(e, how, k) /\ (k = "Started" => how = "started")
                                  /\ (k = "StartFailed" => how = "failed")
    BY <1>6 DEF Start, StartSucceeds, StartFails
  <2>2. /\ attempt[e] = "starting" /\ attempt' = [attempt EXCEPT ![e] = how]
        /\ mail' = mail \/ Receives(About(k, e))
        /\ UNCHANGED <<srv, sup>>
    BY <2>1 DEF StartEnds, Receives
  <2>3. e = srv.epoch /\ sup[e].state = "none"
    BY <2>2 DEF Reported
  <2>4. About(k, e) \in Msgs /\ k \in Reports
    BY DEF About, Msgs, Reports
  <2>5. \A x \in Epochs : About("Died", x) \notin Mailed
    BY <2>3 DEF Reported, Reports
  <2>6. DeathsLast' /\ Mailed' \subseteq Mailed \cup {About(k, e)}
    <3>1. CASE mail' = mail
      BY <3>1 DEF Reported, DeathsLast, Mailed
    <3>2. CASE Receives(About(k, e))
      BY <2>4, <2>5, <3>2, ReceivesAdds, DeathsLastAdds DEF Reported
    <3> QED
      BY <2>2, <3>1, <3>2
  <2>7. \A kk \in Reports, x \in Epochs : About(kk, x) \in Mailed'
                                              => About(kk, x) \in Mailed \/ (kk = k /\ x = e)
    BY <2>6 DEF About
  <2>8. About("StartFailed", e) \notin Mailed
    BY <2>2 DEF Reported
  <2>9. attempt'[e] = how /\ \A x \in Epochs : x # e => attempt'[x] = attempt[x]
    BY <2>2 DEF ServerTyped
  <2>10. \A kk \in {"Died", "Started", "StartFailed"} : kk \in Reports
    BY DEF Reports
  <2>11. \A x \in Epochs :
            /\ About("Died", x) \in Mailed' => sup'[x].state = "end"
            /\ About("Started", x) \in Mailed' => sup'[x].state = "none"
    BY <2>1, <2>2, <2>3, <2>5, <2>7, <2>10 DEF Reported
  <2>12. \A x \in Epochs : About("StartFailed", x) \in Mailed' => attempt'[x] = "failed"
    BY <2>1, <2>7, <2>8, <2>9, <2>10 DEF Reported
  <2>13. \A x \in Epochs : /\ sup'[x].state # "none" => attempt'[x] = "started"
                           /\ sup'[x].state = "watch" => x = srv'.epoch
                           /\ attempt'[x] = "starting" => x = srv'.epoch
    BY <2>2, <2>3, <2>9 DEF Reported
  <2> QED
    BY <2>2, <2>3, <2>6, <2>7, <2>11, <2>12, <2>13 DEF Reported
<1>7. ASSUME NEW e \in Epochs, Supervisor(e)
      PROVE  Reported'
  <2>1. PICK k \in {"Readiness", "Died"}, s \in {"watch", "end"} :
          /\ sup[e].state = "watch" /\ UNCHANGED <<srv, attempt>>
          /\ mail' = mail \/ Receives(About(k, e))
          /\ k = "Died" => s = "end"
          /\ sup'[e].state = s /\ \A x \in Epochs : x # e => sup'[x] = sup[x]
    <3>1. CASE SupervisorReports(e)
      BY <3>1 DEF SupervisorReports, Tell, Receives, ServerTyped
    <3>2. CASE SupervisorEnds(e)
      BY <3>2 DEF SupervisorEnds, Tell, Receives, ServerTyped
    <3> QED
      BY <1>7, <3>1, <3>2 DEF Supervisor
  <2>2. e = srv.epoch /\ attempt[e] = "started"
    BY <2>1 DEF Reported
  <2>3. \A x \in Epochs : About("Died", x) \notin Mailed
    BY <2>1, <2>2 DEF Reported, Reports
  <2>4. About(k, e) \in Msgs /\ k \in Reports
    BY DEF About, Msgs, Reports
  <2>5. DeathsLast' /\ Mailed' \subseteq Mailed \cup {About(k, e)}
    <3>1. CASE mail' = mail
      BY <3>1 DEF Reported, DeathsLast, Mailed
    <3>2. CASE Receives(About(k, e))
      BY <2>3, <2>4, <3>2, ReceivesAdds, DeathsLastAdds DEF Reported
    <3> QED
      BY <2>1, <3>1, <3>2
  <2>6. \A kk \in Reports, x \in Epochs : About(kk, x) \in Mailed'
                                              => About(kk, x) \in Mailed \/ (kk = k /\ x = e)
    BY <2>5 DEF About
  <2>7. \A kk \in {"Died", "Started", "StartFailed"} : kk \in Reports
    BY DEF Reports
  <2>8. About("Started", e) \notin Mailed /\ About("StartFailed", e) \notin Mailed
    BY <2>1, <2>2 DEF Reported
  <2>9. \A x \in Epochs :
            /\ About("Died", x) \in Mailed' => sup'[x].state = "end"
            /\ About("Started", x) \in Mailed' => sup'[x].state = "none"
            /\ About("StartFailed", x) \in Mailed' => attempt'[x] = "failed"
    BY <2>1, <2>3, <2>6, <2>7, <2>8 DEF Reported
  <2>10. \A x \in Epochs : /\ sup'[x].state # "none" => attempt'[x] = "started"
                           /\ sup'[x].state = "watch" => x = srv'.epoch
                           /\ attempt'[x] = "starting" => x = srv'.epoch
    BY <2>1, <2>2 DEF Reported
  <2> QED
    BY <2>1, <2>2, <2>5, <2>6, <2>9, <2>10 DEF Reported
<1>8. CASE (\E e \in Epochs : Environment(e)) \/ WindowPasses
  <2>1. /\ Shrinks /\ UNCHANGED <<attempt, sup>> /\ (srv' = srv \/ srv' = [srv EXCEPT !.recent = FALSE])
    BY <1>8 DEF Environment, ServerPrimes, ProcessExits, DeathPublished, WindowPasses, Shrinks
  <2>2. srv'.epoch = srv.epoch
    BY <2>1 DEF ServerTyped, Server
  <2> QED
    BY <2>1, <2>2, StillReported
<1> QED
  BY <1>1, <1>2, <1>3, <1>4, <1>5, <1>6, <1>7, <1>8 DEF Next, Actor

LEMMA FirstReported == Init => Reported
<1> SUFFICES ASSUME Init PROVE Reported
  OBVIOUS
<1>1. Mailed = {} /\ Len(mail) = 0 /\ \A e \in Epochs : sup[e].state = "none"
  BY NoMail DEF Init, Mailed
<1>2. DeathsLast
  BY <1>1 DEF DeathsLast
<1>3. \A e \in Epochs : attempt[e] = "starting" => e = srv.epoch
  BY DEF Init
<1> QED
  BY <1>1, <1>2, <1>3 DEF Reported

\* What a task reports is about the server the session has, so that the epoch comparison of the
\* handlers (handle_started, handle_start_failed, handle_died of session.rs) discards nothing, and
\* may stand as a guard in the model.
THEOREM ReportsStayCurrent == Spec => []ReportsAreCurrent
<1>1. Init => SessionInv /\ Reported
  BY SessionInit, FirstReported
<1>2. SessionInv /\ Reported /\ [Next]_vars => (SessionInv /\ Reported)'
  BY SessionNext, ReportedStep
<1>3. SessionInv /\ Reported => ReportsAreCurrent
  <2> SUFFICES ASSUME SessionInv, Reported, NEW i \in DOMAIN mail, mail[i].kind \in Reports
               PROVE  mail[i].epoch = srv.epoch
    BY DEF ReportsAreCurrent, Reports
  <2>1. i \in 1..Len(mail) /\ mail[i] \in Msgs
    BY DEF SessionInv, Servers, MailTyped
  <2>2. mail[i].epoch \in Epochs /\ mail[i] = About(mail[i].kind, mail[i].epoch)
    BY <2>1 DEF Msgs, Reports, About
  <2>3. mail[i] \in Mailed
    BY <2>1 DEF Mailed
  <2> QED
    BY <2>2, <2>3 DEF Reported
<1> QED
  BY <1>1, <1>2, <1>3, PTL DEF Spec

-----------------------------------------------------------------------------
(* What liveness rests on: nothing that is owed gets lost                  *)

\* A handler takes the first message and leaves the others.
LEMMA TailKeeps ==
    ASSUME mail \in Seq(Msgs), mail # <<>>, mail' = Tail(mail)
    PROVE  Mailed \subseteq Mailed' \cup {Head(mail)}
<1>1. /\ Head(mail) = mail[1] /\ Len(mail) \in Nat /\ Len(mail') = Len(mail) - 1
      /\ \A i \in 1 .. Len(mail) - 1 : mail'[i] = mail[i + 1]
  BY TailDrops
<1> SUFFICES ASSUME NEW i \in 1..Len(mail), i # 1
             PROVE  mail[i] \in Mailed'
  BY <1>1 DEF Mailed
<1>2. i - 1 \in 1..Len(mail') /\ mail'[i - 1] = mail[i]
  BY <1>1
<1> QED
  BY <1>2 DEF Mailed

LEMMA HandlerKeeps ==
    ASSUME mail \in Seq(Msgs), NEW k, Handles(k)
    PROVE  \A m \in Mailed : m \in Mailed' \/ m = Head(mail)
BY TailKeeps DEF Handles

\* Only the actor takes messages.
Others ==
    \/ Editor \/ Asked \/ RequestTeardown \/ DropHandles \/ WindowPasses \/ UNCHANGED vars
    \/ \E e \in Epochs : Start(e) \/ Supervisor(e) \/ Environment(e)
    \/ \E r \in Asks : Task(r)

LEMMA OnlyTheActorTakes ==
    ASSUME Servers, Others
    PROVE  Mailed \subseteq Mailed' /\ actor' = actor
<1> USE DEF Servers, MailTyped
<1>1. ASSUME NEW m \in Msgs, Tell(m)
      PROVE  Mailed \subseteq Mailed'
  <2>1. mail' = mail \/ Receives(m)
    BY <1>1 DEF Tell, Receives
  <2> QED
    BY <2>1, ReceivesAdds DEF Mailed
<1>2. CASE Editor
  <2>1. PICK d \in Docs : EditorOpens(d) \/ EditorTypes(d) \/ EditorCloses(d)
    BY <1>2 DEF Editor
  <2>2. actor' = actor
    BY <2>1 DEF EditorOpens, EditorTypes, EditorCloses
  <2> QED
    BY <1>1, <2>1, <2>2, EditorTells
<1>3. ASSUME NEW r \in Asks, NEW k \in Kinds, NEW d \in Docs, Asking(r, k, d)
      PROVE  Mailed \subseteq Mailed' /\ actor' = actor
  <2>1. Request(r) \in Msgs
    BY DEF Request, Msgs
  <2> QED
    BY <1>1, <1>3, <2>1 DEF Asking
<1>4. CASE RequestTeardown
  <2>1. About("Teardown", 0) \in Msgs
    BY DEF About, Msgs
  <2> QED
    BY <1>1, <1>4, <2>1 DEF RequestTeardown
<1>5. ASSUME NEW e \in Epochs, Start(e) \/ Supervisor(e) \/ Environment(e)
      PROVE  Mailed \subseteq Mailed' /\ actor' = actor
  <2>1. \A k \in Reports : About(k, e) \in Msgs
    BY DEF About, Msgs
  <2>2. CASE Start(e)
    <3>1. PICK k \in Reports : mail' = mail \/ Receives(About(k, e))
      BY <2>2 DEF Start, StartSucceeds, StartFails, StartEnds, Reports, Receives
    <3>2. actor' = actor
      BY <2>2 DEF Start, StartSucceeds, StartFails, StartEnds
    <3> QED
      BY <2>1, <3>1, <3>2, ReceivesAdds DEF Mailed
  <2>3. CASE Supervisor(e)
    <3>1. PICK k \in Reports : mail' = mail \/ Tell(About(k, e))
      BY <2>3 DEF Supervisor, SupervisorReports, SupervisorEnds, Reports
    <3>2. actor' = actor
      BY <2>3 DEF Supervisor, SupervisorReports, SupervisorEnds
    <3> QED
      BY <1>1, <2>1, <3>1, <3>2 DEF Mailed
  <2>4. CASE Environment(e)
    BY <2>4 DEF Environment, ServerPrimes, ProcessExits, DeathPublished, Mailed
  <2> QED
    BY <1>5, <2>2, <2>3, <2>4
<1>6. CASE DropHandles \/ (\E r \in Asks : Task(r)) \/ WindowPasses \/ UNCHANGED vars
  BY <1>6 DEF DropHandles, Task, TaskAsks, TaskEnds, WindowPasses, vars, Mailed
<1> QED
  BY <1>2, <1>3, <1>4, <1>5, <1>6 DEF Others, Asked

\* A request that waits for the actor is in its mailbox, and there is an actor to read it.
Waiting == \A r \in Asks : ask[r].state = "mailed" => actor = "run" /\ Request(r) \in Mailed

LEMMA WaitingStep ==
    ASSUME SessionInv, Waiting, [Next]_vars
    PROVE  Waiting'
<1> USE DEF SessionInv, Servers, MailTyped
<1>1. mail \in Seq(Msgs) /\ ask \in [Asks -> Query]
  BY DEF RestTyped
<1>2. ASSUME NEW r \in Asks, NEW k \in Kinds, NEW d \in Docs, Asking(r, k, d)
      PROVE  Waiting'
  <2>1. /\ Request(r) \in Msgs /\ actor' = actor
        /\ \A x \in Asks : x # r => ask'[x] = ask[x]
    BY <1>2, AskingTyped DEF Request, Msgs, Asking
  <2>2. CASE actor = "run"
    <3>1. Mailed' = Mailed \cup {Request(r)}
      <4>1. Receives(Request(r))
        BY <1>2, <2>2 DEF Asking, Tell, Receives
      <4> QED
        BY <1>1, <2>1, <4>1, ReceivesAdds
    <3> QED
      BY <2>1, <2>2, <3>1 DEF Waiting
  <2>3. CASE actor # "run"
    <3>1. ask'[r].state = "done"
      <4> DEFINE q == [Idle EXCEPT !.kind = k, !.doc = d, !.text = editor[d], !.state = "done",
                                   !.outcome = "TornDown"]
      <4>1. ask' = [ask EXCEPT ![r] = q]
        BY <1>2, <2>3 DEF Asking
      <4>2. q.state = "done"
        BY DEF Idle
      <4> QED
        BY <1>1, <4>1, <4>2
    <3> QED
      BY <2>1, <2>3, <3>1 DEF Waiting
  <2> QED
    BY <2>2, <2>3
<1>3. ASSUME NEW k \in EditKinds \cup Reports, Handles(k), UNCHANGED <<ask, actor>>
      PROVE  Waiting'
  <2>1. \A r \in Asks : Request(r).kind = "Ask"
    BY DEF Request
  <2>2. Head(mail).kind # "Ask"
    BY <1>3 DEF Handles, EditKinds, Reports
  <2>3. \A r \in Asks : Request(r) \in Mailed => Request(r) \in Mailed'
    BY <1>1, <1>3, <2>1, <2>2, HandlerKeeps
  <2> QED
    BY <1>3, <2>3 DEF Waiting
<1>4. CASE OnAskUnready \/ OnAskUnreadable \/ OnAsk
  <2>1. /\ Handles("Ask") /\ actor = "run" /\ actor' = actor
        /\ Head(mail).ask \in Asks /\ Head(mail) = Request(Head(mail).ask)
    BY <1>1, <1>4, HeadIsMailed DEF OnAskUnready, OnAskUnreadable, OnAsk, Handles
  <2> DEFINE r == Head(mail).ask
  <2>2. PICK q : ask' = [ask EXCEPT ![r] = q] /\ q.state # "mailed"
    <3>1. CASE OnAskUnready
      <4>1. PICK o : ask' = Resolved(r, o)
        BY <3>1 DEF OnAskUnready
      <4>2. [[[ask[r] EXCEPT !.state = "done"] EXCEPT !.served = 0] EXCEPT !.outcome = o].state
               # "mailed"
        BY <1>1, <2>1 DEF Query
      <4> QED
        BY <4>1, <4>2 DEF Resolved
    <3>2. CASE OnAskUnreadable
      <4>1. \/ ask' = Resolved(r, "Failed")
            \/ ask' = [ask EXCEPT ![r].state = "spawned", ![r].epoch = srv.epoch]
        BY <3>2 DEF OnAskUnreadable
      <4>2. [[ask[r] EXCEPT !.state = "spawned"] EXCEPT !.epoch = srv.epoch].state # "mailed"
        BY <1>1, <2>1 DEF Query
      <4>3. [[[ask[r] EXCEPT !.state = "done"] EXCEPT !.served = 0]
               EXCEPT !.outcome = "Failed"].state # "mailed"
        BY <1>1, <2>1 DEF Query
      <4> QED
        <5>1. CASE ask' = Resolved(r, "Failed")
          BY <4>3, <5>1 DEF Resolved
        <5> QED
          BY <4>1, <4>2, <5>1
    <3>3. CASE OnAsk
      <4>1. PICK op : ask' = [ask EXCEPT ![r].state = "spawned", ![r].epoch = srv.epoch,
                                         ![r].open = op]
        BY <3>3 DEF OnAsk
      <4>2. [ask[r] EXCEPT !.state = "spawned", !.epoch = srv.epoch, !.open = op].state
               # "mailed"
        BY <1>1, <2>1 DEF Query
      <4> QED
        BY <4>1, <4>2
    <3> QED
      BY <1>4, <3>1, <3>2, <3>3
  <2>3. \A x \in Asks : x # r => Request(x) # Head(mail)
    BY <2>1 DEF Request
  <2>4. \A x \in Asks : x # r /\ Request(x) \in Mailed => Request(x) \in Mailed'
    BY <1>1, <2>1, <2>3, HandlerKeeps
  <2>5. ask'[r].state # "mailed" /\ \A x \in Asks : x # r => ask'[x] = ask[x]
    BY <1>1, <2>1, <2>2
  <2> HIDE DEF r
  <2> QED
    BY <2>1, <2>4, <2>5 DEF Waiting
<1>5. CASE TearDown
  <2> SUFFICES ASSUME NEW r \in Asks PROVE ask'[r].state # "mailed"
    BY DEF Waiting
  <2>1. CASE Request(r) \in Mailed
    <3>1. \E i \in DOMAIN mail : mail[i] = Request(r)
      BY <1>1, <2>1 DEF Mailed
    <3>2. ask'[r] = [ask[r] EXCEPT !.state = "done", !.outcome = "TornDown"]
      BY <1>5, <3>1 DEF TearDown
    <3> QED
      BY <1>1, <3>2 DEF Query
  <2>2. CASE Request(r) \notin Mailed
    <3>1. ~\E i \in DOMAIN mail : mail[i] = Request(r)
      BY <1>1, <2>2 DEF Mailed
    <3>2. ask'[r] = ask[r]
      BY <1>5, <3>1 DEF TearDown
    <3> QED
      BY <2>2, <3>2 DEF Waiting
  <2> QED
    BY <2>1, <2>2
<1>6. CASE \/ Editor \/ RequestTeardown \/ DropHandles \/ WindowPasses \/ UNCHANGED vars
           \/ (\E e \in Epochs : Start(e) \/ Supervisor(e) \/ Environment(e))
  <2>1. Mailed \subseteq Mailed' /\ actor' = actor
    BY <1>6, OnlyTheActorTakes DEF Others
  <2>2. ask' = ask
    BY <1>6 DEF Editor, EditorOpens, EditorTypes, EditorCloses, RequestTeardown, DropHandles,
       WindowPasses, Start, StartSucceeds, StartFails, StartEnds, Supervisor, SupervisorReports,
       SupervisorEnds, Environment, ServerPrimes, ProcessExits, DeathPublished, vars
  <2> QED
    BY <2>1, <2>2 DEF Waiting
<1>7. ASSUME NEW r \in Asks, Task(r)
      PROVE  Waiting'
  <2>3. ask'[r].state # "mailed" /\ \A x \in Asks : x # r => ask'[x] = ask[x]
    BY <1>1, <1>7, ResolvedKeeps, TaskAsksTyped DEF Task, TaskEnds, States
  <2>4. Mailed' = Mailed /\ actor' = actor
    BY <1>7 DEF Task, TaskAsks, TaskEnds, Mailed
  <2> QED
    BY <2>3, <2>4 DEF Waiting
<1>8. CASE OnOpen \/ OnChange \/ OnClose \/ OnStarted \/ OnStartFailed \/ OnDied \/ OnReadiness
  <2>1. \E k \in EditKinds \cup Reports : Handles(k)
    BY <1>8 DEF OnOpen, OnChange, OnClose, OnStarted, OnStartFailed, OnDied, OnReadiness,
       EditKinds, Reports
  <2>2. UNCHANGED <<ask, actor>>
    BY <1>8 DEF OnOpen, OnChange, OnClose, OnStarted, OnStartFailed, OnDied, OnReadiness
  <2> QED
    BY <1>3, <2>1, <2>2
<1> QED
  BY <1>2, <1>4, <1>5, <1>6, <1>7, <1>8 DEF Next, Actor

\* No request is forgotten: while its caller waits for the session, the request is in the mailbox
\* of an actor that runs, and teardown answers all that are there (LspHandle::ask, session.rs 452).
\* That the actor gets to it is EveryAskIsAnswered, which needs fairness.
THEOREM RequestsAreNotForgotten ==
    Spec => [](\A r \in Asks : ask[r].state = "mailed" => actor = "run" /\ Request(r) \in Mailed)
<1>1. Init => SessionInv /\ Waiting
  BY SessionInit DEF Init, Waiting, Idle
<1>2. SessionInv /\ Waiting /\ [Next]_vars => (SessionInv /\ Waiting)'
  BY SessionNext, WaitingStep
<1>3. Waiting <=> \A r \in Asks : ask[r].state = "mailed" => actor = "run" /\ Request(r) \in Mailed
  BY DEF Waiting
<1> QED
  BY <1>1, <1>2, <1>3, PTL DEF Spec

\* What is promised of a server while the session serves with it, and somebody holds the session.
Serving == actor = "run" /\ held /\ srv.state = "Up"
Coming(k) == About(k, srv.epoch) \in Mailed

\* Its supervisor watches it, or has reported its death.
Watched == Serving => sup[srv.epoch].state = "watch" \/ Coming("Died")

\* A readiness the supervisor has seen is not ahead of the client's.
Behind == \A e \in Epochs : sup[e].last \in {Loading, ready[e]} \/ ready[e] = Ready

\* The status row is what the client says, or the supervisor is to tell, or has told, of a change.
Shown ==
    Serving => \/ row = ready[srv.epoch] \/ Coming("Readiness") \/ Coming("Died")
               \/ (sup[srv.epoch].state = "watch" /\ sup[srv.epoch].last # ready[srv.epoch])

\* A step that leaves the server, its supervisor and its row alone, and takes no report of it.
LEMMA CalmStep ==
    ASSUME Watched, Behind, Shown, UNCHANGED <<sup, ready, row>>, srv'.epoch = srv.epoch,
           Serving' => Serving,
           \A k \in {"Readiness", "Died"} : Coming(k) => Coming(k)'
    PROVE  Watched' /\ Behind' /\ Shown'
BY DEF Watched, Behind, Shown, Coming

LEMMA SupervisionStep ==
    ASSUME SessionInv, Reported, Watched, Behind, Shown, [Next]_vars
    PROVE  Watched' /\ Behind' /\ Shown'
<1> USE DEF SessionInv, Servers, MailTyped
<1>1. mail \in Seq(Msgs)
  OBVIOUS
<1>2. CASE \/ Editor \/ Asked \/ RequestTeardown \/ WindowPasses \/ UNCHANGED vars
           \/ (\E e \in Epochs : Start(e)) \/ (\E r \in Asks : Task(r)) \/ DropHandles
           \/ (\E e \in Epochs : ProcessExits(e) \/ DeathPublished(e))
  <2>1. Mailed \subseteq Mailed' /\ actor' = actor
    BY <1>2, OnlyTheActorTakes DEF Others, Environment
  <2>2. /\ UNCHANGED <<sup, ready, row>> /\ held' \in {held, FALSE}
        /\ srv' = srv \/ srv' = [srv EXCEPT !.recent = FALSE]
    BY <1>2 DEF Editor, EditorOpens, EditorTypes, EditorCloses, Asked, Asking, RequestTeardown,
       WindowPasses, Start, StartSucceeds, StartFails, StartEnds, Task, TaskAsks, TaskEnds, DropHandles,
       ProcessExits, DeathPublished, vars, serverVars
  <2>3. srv'.epoch = srv.epoch /\ srv'.state = srv.state
    BY <2>2 DEF ServerTyped, Server
  <2>4. Serving' => Serving
    BY <2>1, <2>2, <2>3 DEF Serving
  <2>5. \A k \in {"Readiness", "Died"} : Coming(k) => Coming(k)'
    BY <2>1, <2>3 DEF Coming
  <2> QED
    BY <2>2, <2>3, <2>4, <2>5, CalmStep
<1>3. CASE OnChange \/ OnClose \/ OnAskUnreadable \/ OnAsk
  <2>1. PICK k \in {"Change", "Close", "Ask"} : Handles(k)
    BY <1>3 DEF OnChange, OnClose, OnAskUnreadable, OnAsk
  <2>2. UNCHANGED <<sup, ready, row, srv, held, actor>>
    BY <1>3 DEF OnChange, OnClose, OnAskUnreadable, OnAsk, serverVars
  <2>3. \A kk \in {"Readiness", "Died"} : Coming(kk) => Coming(kk)'
    <3>1. Head(mail).kind = k
      BY <2>1 DEF Handles
    <3>2. \A kk \in {"Readiness", "Died"} : About(kk, srv.epoch).kind = kk
      BY DEF About
    <3> QED
      BY <2>1, <2>2, <3>1, <3>2, HandlerKeeps DEF Coming
  <2> QED
    BY <2>2, <2>3, CalmStep DEF Serving
<1>4. CASE OnOpen \/ OnAskUnready
  <2>1. PICK k \in {"Open", "Ask"} : Handles(k)
    BY <1>4 DEF OnOpen, OnAskUnready
  <2>2. Started(srv, EnsureStarted(srv)) /\ UNCHANGED <<sup, ready, held, actor>>
    BY <1>4 DEF OnOpen, OnAskUnready
  <2>3. CASE srv.state = "Idle"
    <3>1. srv'.state # "Up"
      BY <2>2, <2>3 DEF Started, EnsureStarted, ServerTyped, Server
    <3> QED
      BY <2>2, <3>1 DEF Watched, Behind, Shown, Serving
  <2>4. CASE srv.state # "Idle"
    <3>1. UNCHANGED <<srv, row>>
      BY <2>2, <2>4 DEF Started, EnsureStarted
    <3>2. \A kk \in {"Readiness", "Died"} : Coming(kk) => Coming(kk)'
      <4>1. Head(mail).kind = k
        BY <2>1 DEF Handles
      <4>2. \A kk \in {"Readiness", "Died"} : About(kk, srv.epoch).kind = kk
        BY DEF About
      <4> QED
        BY <2>1, <3>1, <4>1, <4>2, HandlerKeeps DEF Coming
    <3> QED
      BY <2>2, <3>1, <3>2, CalmStep DEF Serving
  <2> QED
    BY <2>3, <2>4
<1>5. CASE OnStarted
  <2>1. /\ srv.epoch \in Epochs /\ srv' = [srv EXCEPT !.state = "Up"] /\ ready' = ready
        /\ sup' = [sup EXCEPT ![srv.epoch] = [state |-> "watch", last |-> ready[srv.epoch]]]
        /\ row' = RowOf(srv')
    BY <1>1, <1>5, HeadIsMailed DEF OnStarted, Reports
  <2>2. srv'.epoch = srv.epoch /\ srv'.state = "Up" /\ row' = ready[srv.epoch]
    BY <2>1 DEF ServerTyped, Server, RowOf
  <2>3. /\ sup'[srv.epoch] = [state |-> "watch", last |-> ready[srv.epoch]]
        /\ \A e \in Epochs : e # srv.epoch => sup'[e] = sup[e]
    BY <2>1 DEF ServerTyped
  <2> QED
    BY <2>1, <2>2, <2>3 DEF Watched, Behind, Shown
<1>6. CASE OnStartFailed \/ OnDied \/ TearDown
  <2>1. UNCHANGED <<sup, ready>> /\ ~Serving'
    <3>1. CASE OnStartFailed
      BY <3>1 DEF OnStartFailed, ServerTyped, Server, Serving
    <3>2. CASE OnDied
      <4>1. \/ srv' = EnsureStarted([srv EXCEPT !.state = "Idle", !.recent = TRUE])
            \/ srv' = [srv EXCEPT !.state = "Failed"]
        BY <3>2 DEF OnDied, Started
      <4>2. srv'.state # "Up"
        BY <4>1 DEF EnsureStarted, ServerTyped, Server
      <4> QED
        BY <3>2, <4>2 DEF OnDied, Serving
    <3>3. CASE TearDown
      BY <3>3 DEF TearDown, Serving
    <3> QED
      BY <1>6, <3>1, <3>2, <3>3
  <2> QED
    BY <2>1 DEF Watched, Behind, Shown
<1>7. CASE OnReadiness
  <2>1. UNCHANGED <<sup, ready, srv, held, actor>> /\ row' = RowOf(srv)
    BY <1>7 DEF OnReadiness, serverVars
  <2>2. Handles("Readiness") /\ Head(mail).kind = "Readiness"
    BY <1>7 DEF OnReadiness, Handles
  <2>3. Coming("Died") => Coming("Died")'
    BY <1>1, <2>1, <2>2, HandlerKeeps DEF Coming, About
  <2>4. Serving => row' = ready[srv.epoch]
    BY <2>1 DEF RowOf, Serving
  <2> QED
    BY <2>1, <2>3, <2>4 DEF Watched, Behind, Shown, Serving
<1>8. ASSUME NEW e \in Epochs, Supervisor(e)
      PROVE  Watched' /\ Behind' /\ Shown'
  <2>1. Mailed \subseteq Mailed' /\ actor' = actor
    BY <1>8, OnlyTheActorTakes DEF Others
  <2>2. UNCHANGED <<srv, held, ready, row>>
    BY <1>8 DEF Supervisor, SupervisorReports, SupervisorEnds
  <2>3. sup[e].state = "watch" /\ e = srv.epoch
    BY <1>8 DEF Supervisor, SupervisorReports, SupervisorEnds, Reported
  <2>4. CASE SupervisorReports(e)
    <3>1. /\ sup'[e].state = "watch" /\ sup'[e].last = ready[e]
          /\ \A x \in Epochs : x # e => sup'[x] = sup[x]
      BY <2>3, <2>4 DEF SupervisorReports, ServerTyped
    <3>2. Serving => Coming("Readiness")'
      <4>1. Serving => Receives(About("Readiness", e))
        BY <2>4 DEF SupervisorReports, Tell, Receives, Serving
      <4>2. About("Readiness", e) \in Msgs
        BY DEF About, Msgs, Reports
      <4>3. Serving => About("Readiness", e) \in Mailed'
        BY <1>1, <4>1, <4>2, ReceivesAdds
      <4> QED
        BY <2>2, <2>3, <4>3 DEF Coming
    <3> QED
      BY <2>1, <2>2, <2>3, <3>1, <3>2 DEF Watched, Behind, Shown, Serving
  <2>5. CASE SupervisorEnds(e)
    <3>1. \A x \in Epochs : sup'[x].last = sup[x].last
      BY <2>5 DEF SupervisorEnds, ServerTyped
    <3>2. Serving => Coming("Died")'
      <4>1. Serving => Receives(About("Died", e))
        BY <2>3, <2>5 DEF SupervisorEnds, Tell, Receives, Serving, Holds
      <4>2. About("Died", e) \in Msgs
        BY DEF About, Msgs, Reports
      <4>3. Serving => About("Died", e) \in Mailed'
        BY <1>1, <4>1, <4>2, ReceivesAdds
      <4> QED
        BY <2>2, <2>3, <4>3 DEF Coming
    <3> QED
      BY <2>1, <2>2, <3>1, <3>2 DEF Watched, Behind, Shown, Serving
  <2> QED
    BY <1>8, <2>4, <2>5 DEF Supervisor
<1>9. ASSUME NEW e \in Epochs, ServerPrimes(e)
      PROVE  Watched' /\ Behind' /\ Shown'
  <2>1. Mailed \subseteq Mailed' /\ actor' = actor
    BY <1>9, OnlyTheActorTakes DEF Others, Environment
  <2>2. UNCHANGED <<srv, held, sup, row>>
    BY <1>9 DEF ServerPrimes
  <2>3. PICK to \in {Caveat, Ready} :
           /\ ready' = [ready EXCEPT ![e] = to]
           /\ ready[e] = Loading \/ (ready[e] = Caveat /\ to = Ready)
    BY <1>9 DEF ServerPrimes
  <2>4. ready'[e] = to /\ \A x \in Epochs : x # e => ready'[x] = ready[x]
    BY <2>3 DEF ServerTyped
  <2>5. to # Loading /\ ready[e] # to /\ ready[e] # Ready
    BY <2>3 DEF Loading, Caveat, Ready
  <2>6. sup[e].last \in {Loading, ready[e]}
    BY <2>5 DEF Behind
  <2>7. Behind'
    BY <2>2, <2>3, <2>4, <2>6 DEF Behind
  <2>8. Watched'
    BY <2>1, <2>2 DEF Watched, Serving, Coming
  <2>9. Shown'
    <3> SUFFICES ASSUME Serving', ~Coming("Readiness")', ~Coming("Died")'
                 PROVE  \/ row = ready'[srv.epoch]
                        \/ (sup[srv.epoch].state = "watch" /\ sup[srv.epoch].last # ready'[srv.epoch])
      BY <2>2 DEF Shown
    <3>1. Serving /\ ~Coming("Readiness") /\ ~Coming("Died")
      BY <2>1, <2>2 DEF Serving, Coming
    <3>2. srv.epoch \in Epochs
      BY <3>1 DEF Serving, StartsOK
    <3>3. CASE e = srv.epoch
      BY <2>4, <2>5, <2>6, <3>1, <3>3 DEF Watched
    <3>4. CASE e # srv.epoch
      BY <2>4, <3>1, <3>2, <3>4 DEF Shown
    <3> QED
      BY <3>3, <3>4
  <2> QED
    BY <2>7, <2>8, <2>9
<1> QED
  BY <1>2, <1>3, <1>4, <1>5, <1>6, <1>7, <1>8, <1>9 DEF Next, Actor, Asked, Environment

LEMMA FirstSupervision == Init => Watched /\ Behind /\ Shown
  BY DEF Init, Watched, Behind, Shown, Serving, Loading

\* The death of a server does not go unnoticed: while the session serves with it, its supervisor
\* watches it or its death is in the mailbox (spawn_supervisor, session.rs 1844).  That the report
\* is read is DeathIsNoticed, which needs fairness.
THEOREM ServersAreWatched ==
    Spec => [](actor = "run" /\ held /\ srv.state = "Up"
                  => sup[srv.epoch].state = "watch" \/ About("Died", srv.epoch) \in Mailed)
<1>1. Init => SessionInv /\ Reported /\ Watched /\ Behind /\ Shown
  BY SessionInit, FirstReported, FirstSupervision
<1>2. SessionInv /\ Reported /\ Watched /\ Behind /\ Shown /\ [Next]_vars
         => (SessionInv /\ Reported /\ Watched /\ Behind /\ Shown)'
  BY SessionNext, ReportedStep, SupervisionStep
<1>3. Watched => (actor = "run" /\ held /\ srv.state = "Up"
                     => sup[srv.epoch].state = "watch" \/ About("Died", srv.epoch) \in Mailed)
  BY DEF Watched, Serving, Coming
<1> QED
  BY <1>1, <1>2, <1>3, PTL DEF Spec

\* The status row never settles on what is past: while the session serves, the row is what the
\* client says, or the session has mail that has it refreshed, or the supervisor has a change to
\* report, since it remembers no readiness the client has not had (spawn_supervisor 1844,
\* refresh_status 1735).  That it is refreshed is StatusCatchesUp, which needs fairness.
THEOREM TheRowIsCurrentOrBehind ==
    Spec => [](actor = "run" /\ held /\ srv.state = "Up"
                  => \/ row = ready[srv.epoch]
                     \/ About("Readiness", srv.epoch) \in Mailed
                     \/ About("Died", srv.epoch) \in Mailed
                     \/ (sup[srv.epoch].state = "watch" /\ sup[srv.epoch].last # ready[srv.epoch]))
<1>1. Init => SessionInv /\ Reported /\ Watched /\ Behind /\ Shown
  BY SessionInit, FirstReported, FirstSupervision
<1>2. SessionInv /\ Reported /\ Watched /\ Behind /\ Shown /\ [Next]_vars
         => (SessionInv /\ Reported /\ Watched /\ Behind /\ Shown)'
  BY SessionNext, ReportedStep, SupervisionStep
<1>3. Shown => (actor = "run" /\ held /\ srv.state = "Up"
                  => \/ row = ready[srv.epoch]
                     \/ About("Readiness", srv.epoch) \in Mailed
                     \/ About("Died", srv.epoch) \in Mailed
                     \/ (sup[srv.epoch].state = "watch" /\ sup[srv.epoch].last # ready[srv.epoch]))
  BY DEF Shown, Serving, Coming
<1> QED
  BY <1>1, <1>2, <1>3, PTL DEF Spec

=============================================================================
