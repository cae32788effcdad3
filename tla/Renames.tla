------------------------------ MODULE Renames ------------------------------
(***************************************************************************)
(* Applying a rename to the files of a workspace (lsp/rename.rs): phase 1  *)
(* reads and checks every file and writes none, phase 2 writes the closed  *)
(* files one after the other and, when a write fails, finds out what that  *)
(* left behind and puts everything back.  Edits for open buffers go to the *)
(* editor.                                                                 *)
(*                                                                         *)
(* The files are what the Files trait promises: a call may fail, and a     *)
(* failed write may leave the file torn.  Meanwhile another command or     *)
(* program may save a file, for the rename holds no lock on any.           *)
(***************************************************************************)
EXTENDS Edits, FiniteSetsExt

CONSTANTS
    FileCount,  \* the files of the workspace, numbered in the order of their paths
    Tokens,     \* what texts are made of
    Text,       \* what each of the files holds at first
    Name,       \* the identifier being renamed; empty when the caller expects none
    Words,      \* the tokens an identifier is made of; the others separate
    MaxHeld,    \* RENAME_MAX_TOTAL_BYTES, in tokens
    MaxSaves,   \* how often somebody else saves a file meanwhile
    Answers     \* what the server may answer: documents [file, edits] in some order

Files == 1 .. FileCount
Outside == FileCount + 1     \* no file of the workspace, or no edit but a file operation

ASSUME SizesAssumption == FileCount \in Nat /\ MaxHeld \in Nat /\ MaxSaves \in Nat

Torn == <<"torn">>
Saved == <<"old", "gap", "saved", "gap">>
None == [i \in {0} |-> "none"]    \* no text: a text begins at 1

ASSUME TextAssumption == {Text, Saved} \subseteq Seq(Tokens) /\ Text \notin {Torn, Saved}

ASSUME AnswersAssumption ==
    Answers \subseteq Seq([file : Files \cup {Outside}, edits : Seq(EditsOver(Tokens))])

VARIABLES
    disk,     \* the contents of each file
    saves,    \* the files somebody else has saved
    answer,   \* the documents of the server's answer
    open,     \* the buffers the editor had open when the rename was asked for
    step,     \* where the rename is
    todo,     \* the files phase 1 has not come to
    plans,    \* the plan of each file
    before,   \* the contents phase 1 has read, None where it has not
    after,    \* what phase 2 is to write
    done,     \* the files written, in order
    failing,  \* the file whose write has failed
    lost,     \* the files reported unrecoverable
    outcome,  \* the availability reported: Ready or Failed
    buffers   \* the files whose edits are handed to the editor

plan == <<plans, before, after>>
result == <<lost, outcome, buffers>>
vars == <<disk, saves, answer, open, step, todo, plan, done, failing, result>>

\* The edits of every document that names the file: two spellings of one path are one file.
Grouped(f) ==
    FlattenSeq([i \in DOMAIN answer |-> IF answer[i].file = f THEN answer[i].edits ELSE <<>>])

Init ==
    /\ disk = [f \in Files |-> Text]
    /\ saves = {}
    /\ answer \in Answers
    /\ open \in SUBSET Files
    /\ step = "resolve"
    /\ todo = {}
    /\ plans = [f \in Files |-> <<>>]
    /\ before = [f \in Files |-> None]
    /\ after = [f \in Files |-> None]
    /\ done = <<>>
    /\ failing = 0
    /\ lost = {}
    /\ outcome = "none"
    /\ buffers = {}

----------------------------------------------------------------------------
(* Phase 1.                                                                *)

Refuse ==
    /\ step' = "end"
    /\ outcome' = "Failed"
    /\ UNCHANGED <<lost, buffers>>

\* A document that cannot be placed refuses the whole rename.  Files without edits are
\* neither read nor written.
Resolve ==
    /\ step = "resolve"
    /\ IF \E i \in DOMAIN answer : answer[i].file = Outside
       THEN Refuse /\ UNCHANGED todo
       ELSE /\ step' = "plan"
            /\ todo' = {f \in Files : Grouped(f) # <<>>}
            /\ UNCHANGED result
    /\ UNCHANGED <<disk, saves, answer, open, plan, done, failing>>

\* The identifier around a position: the words left and right of it.
EnclosingIdentifier(text, p) ==
    LET word(i) == text[i] \in Words
        start == CHOOSE s \in 0 .. p :
                     /\ \A i \in s + 1 .. p : word(i)
                     /\ s = 0 \/ ~word(s)
        end == CHOOSE e \in p .. Len(text) :
                     /\ \A i \in p + 1 .. e : word(i)
                     /\ e = Len(text) \/ ~word(e + 1)
    IN  SubSeq(text, start + 1, end)

\* byte_offset resolves a position the document does not have to its end.
Clamped(text, p) == IF p > Len(text) THEN Len(text) ELSE p

\* token_verdict: no edit is of the name.  Without a name or an edit there is nothing to compare.
Disagrees(text, edits) ==
    /\ Name # <<>> /\ edits # <<>>
    /\ \A i \in DOMAIN edits :
          EnclosingIdentifier(text, Clamped(text, edits[i].start)) # Name

Held == MapThenSumSet(LAMBDA f : IF before[f] = None THEN 0 ELSE Len(before[f]), Files)

\* The first files, of which there is one, in the order of their paths.
First(files) == {f \in files : \A g \in files : f <= g}

\* The text of a closed file fits the budget and agrees with the name and with the edits.
Accepts(text, edits) ==
    Held + Len(text) <= MaxHeld /\ ~Disagrees(text, edits) /\ InDocument(text, edits)

\* The next file: its edits are ordered, an open buffer is left to the editor, a closed
\* file is read, measured, compared with the name, and edited in memory.
PlanFile ==
    \E f \in First(todo) :
        LET planned == Plan(Grouped(f))
            text == disk[f]
        IN  /\ step = "plan"
            /\ \/ /\ ~planned.ok \/ f \notin open    \* ambiguous, unreadable or not accepted
                  /\ Refuse
                  /\ UNCHANGED <<todo, plan>>
               \/ /\ planned.ok /\ f \in open
                  /\ todo' = todo \ {f}
                  /\ plans' = [plans EXCEPT ![f] = planned.edits]
                  /\ UNCHANGED <<step, before, after, result>>
               \/ /\ planned.ok /\ f \notin open /\ Accepts(text, planned.edits)
                  /\ todo' = todo \ {f}
                  /\ plans' = [plans EXCEPT ![f] = planned.edits]
                  /\ before' = [before EXCEPT ![f] = text]
                  /\ after' = [after EXCEPT ![f] = Apply(text, planned.edits)]
                  /\ UNCHANGED <<step, result>>
            /\ UNCHANGED <<disk, saves, answer, open, done, failing>>

Planned ==
    /\ step = "plan" /\ todo = {}
    /\ step' = "write"
    /\ UNCHANGED <<disk, saves, answer, open, todo, plan, done, failing, result>>

----------------------------------------------------------------------------
(* Phase 2.                                                                *)

Unwritten == {f \in Files : after[f] # None} \ ToSet(done)

\* A write that fails leaves the file as it was, or torn.
FailedWrite(f) == disk' \in {disk, [disk EXCEPT ![f] = Torn]}

WriteFile ==
    \E f \in First(Unwritten) :
        /\ step = "write"
        /\ disk' = [disk EXCEPT ![f] = after[f]]
        /\ done' = Append(done, f)
        /\ UNCHANGED <<saves, answer, open, step, todo, plan, failing, result>>

\* Mutated: the error is dropped and the next file is written.
WriteFailsUnnoticed ==
    \E f \in First(Unwritten) :
        /\ step = "write"
        /\ FailedWrite(f)
        /\ done' = Append(done, f)
        /\ UNCHANGED <<saves, answer, open, step, todo, plan, failing, result>>

WriteFails ==
    \E f \in First(Unwritten) :
        /\ step = "write"
        /\ FailedWrite(f)
        /\ failing' = f
        /\ step' = "recover"
        /\ UNCHANGED <<saves, answer, open, todo, plan, done, result>>

\* Mutated: an error is taken to mean that nothing was written.
RecoverTrusting ==
    /\ step = "recover"
    /\ step' = "rollback"
    /\ UNCHANGED <<disk, saves, answer, open, todo, plan, done, failing, result>>

\* recover_failed_write reads the file back, puts it right if need be, and reports it as
\* unrecoverable when it cannot tell or cannot write.
Recover ==
    /\ step = "recover"
    /\ step' = "rollback"
    /\ \/ disk[failing] = before[failing] /\ UNCHANGED <<disk, lost>>
       \/ /\ disk[failing] # before[failing]
          /\ disk' = [disk EXCEPT ![failing] = before[failing]]
          /\ UNCHANGED lost
       \/ /\ disk[failing] # before[failing]
          /\ FailedWrite(failing)
          /\ lost' = lost \cup {failing}
       \/ lost' = lost \cup {failing} /\ UNCHANGED disk    \* it could not be read
    /\ UNCHANGED <<saves, answer, open, todo, plan, done, failing, outcome, buffers>>

\* roll_back, newest first; a file that cannot be put back is reported and the rest goes on.
RollBack ==
    LET f == Last(done)
    IN  /\ step = "rollback" /\ done # <<>>
        /\ done' = Front(done)
        /\ \/ disk' = [disk EXCEPT ![f] = before[f]] /\ UNCHANGED lost
           \/ FailedWrite(f) /\ lost' = lost \cup {f}
        /\ UNCHANGED <<saves, answer, open, step, todo, plan, failing, outcome, buffers>>

GiveUp ==
    /\ step = "rollback" /\ done = <<>>
    /\ step' = "end"
    /\ outcome' = "Failed"
    /\ UNCHANGED <<disk, saves, answer, open, todo, plan, done, failing, lost, buffers>>

Finish ==
    /\ step = "write" /\ Unwritten = {}
    /\ step' = "end"
    /\ outcome' = "Ready"
    /\ buffers' = {f \in open : plans[f] # <<>>}
    /\ UNCHANGED <<disk, saves, answer, open, todo, plan, done, failing, lost>>

\* Another command, another rename or another program writes a file.
SaveElsewhere(f) ==
    /\ step # "end"
    /\ Cardinality(saves) < MaxSaves
    /\ disk' = [disk EXCEPT ![f] = Saved]
    /\ saves' = saves \cup {f}
    /\ UNCHANGED <<answer, open, step, todo, plan, done, failing, result>>

Next ==
    \/ Resolve \/ PlanFile \/ Planned
    \/ WriteFile \/ WriteFails \/ Recover \/ RollBack \/ GiveUp \/ Finish
    \/ \E f \in Files : SaveElsewhere(f)

Spec == Init /\ [][Next]_vars

----------------------------------------------------------------------------
(* Properties.                                                             *)

\* What a file should hold when nobody else saved it.
Kept(f) == disk[f] = Text
Renamed(f) == disk[f] = Simultaneously(Text, ToSet(Grouped(f)))

\* A rename that reports success was applied to every closed file it names, as the edits say
\* of the text the file held; no file is unaccounted for; the editor gets the edits of the
\* open files and of no others, whose disk copies were left untouched (rename.rs 5-35).
SuccessIsWhole ==
    outcome = "Ready" =>
        /\ lost = {}
        /\ \A f \in Files \ saves :
               IF Grouped(f) = <<>> \/ f \in open THEN Kept(f) ELSE Renamed(f)
        /\ buffers = {f \in open : Grouped(f) # <<>>}

\* A rename that reports failure, whichever read, write, read-back or restore failed on the
\* way, has left every file as it was, but for those it names to the user (and those that
\* somebody else saved meanwhile); the editor is handed nothing (rename.rs 21-35).
FailureIsHonest ==
    outcome = "Failed" =>
        /\ \A f \in Files \ (saves \cup lost) : Kept(f)
        /\ buffers = {}

\* Whatever edits the server sends, in whatever order and however they repeat or touch:
\* sorting and comparing neighbours refuses them exactly when some two could be applied in
\* two ways, and one pass with a cursor has the effect of all of them at once, each in the
\* coordinates of the original text (edits.rs plan, apply).
EditsMeanOneThing ==
    \A f \in Files :
        LET planned == Plan(Grouped(f)) IN
        /\ planned.ok <=> Unambiguous(Grouped(f))
        /\ planned.ok => /\ ToSet(planned.edits) = ToSet(Grouped(f))
                         /\ Len(planned.edits) = Cardinality(ToSet(planned.edits))
        /\ after[f] # None => after[f] = Simultaneously(before[f], ToSet(Grouped(f)))
=============================================================================
