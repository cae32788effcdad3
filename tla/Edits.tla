------------------------------- MODULE Edits -------------------------------
(***************************************************************************)
(* What a set of text edits does to one document (lsp/edits.rs).           *)
(*                                                                         *)
(* A text is a sequence of tokens and a position the number of tokens      *)
(* before it, which orders as the code's (line, character) pairs do; a     *)
(* position behind the last token is a line the document does not have.    *)
(* How a column inside a line is clamped is left out.                      *)
(***************************************************************************)
EXTENDS Naturals, Sequences, SequencesExt

EditsOver(Tokens) == [start : Nat, end : Nat, text : Seq(Tokens)]

\* The length of a new text stands for its place in the alphabet.
Precedes(e, f) ==
    \/ e.start < f.start
    \/ e.start = f.start /\ e.end < f.end
    \/ e.start = f.start /\ e.end = f.end /\ Len(e.text) < Len(f.text)

SameRange(e, f) == e.start = f.start /\ e.end = f.end

Accepted(edits) == [ok |-> TRUE, edits |-> edits]
Refused == [ok |-> FALSE, edits |-> <<>>]

\* Mutated: neighbours may share a range, as two cursors do.
TakeTouching(planned, e) ==
    CASE ~planned.ok -> planned
      [] planned.ok /\ planned.edits = <<>> -> Accepted(<<e>>)
      [] OTHER -> LET previous == Last(planned.edits) IN
           CASE previous = e -> planned
             [] previous # e /\ ~SameRange(previous, e) /\ e.start < previous.end -> Refused
             [] OTHER -> Accepted(Append(planned.edits, e))

\* The next edit of the sorted list: the same edit twice is one edit, two edits of one
\* range or of overlapping ranges have no defined result.
Take(planned, e) ==
    CASE ~planned.ok -> planned
      [] planned.ok /\ planned.edits = <<>> -> Accepted(<<e>>)
      [] OTHER -> LET previous == Last(planned.edits) IN
           CASE previous = e -> planned
             [] previous # e /\ (SameRange(previous, e) \/ e.start < previous.end) -> Refused
             [] OTHER -> Accepted(Append(planned.edits, e))

\* Where the sort puts an edit: before the first that it precedes.
Inserted(sorted, e) ==
    InsertAt(sorted, Min({i \in DOMAIN sorted : Precedes(e, sorted[i])} \cup {Len(sorted) + 1}), e)

Sorted(edits) == FoldLeft(Inserted, <<>>, edits)

Plan(edits) ==
    IF \E i \in DOMAIN edits : edits[i].end < edits[i].start
    THEN Refused
    ELSE FoldLeft(Take, Accepted(<<>>), Sorted(edits))

LargerOf(m, n) == IF m >= n THEN m ELSE n

\* The text up to the edit, and the new text instead of the range.
CopyAndReplace(text, result, e) ==
    LET start == LargerOf(e.start, result.cursor)
        end == LargerOf(e.end, start)
    IN  [out |-> result.out \o SubSeq(text, result.cursor + 1, start) \o e.text,
         cursor |-> end]

InDocument(text, planned) ==
    \A i \in DOMAIN planned : planned[i].start <= Len(text) /\ planned[i].end <= Len(text)

Apply(text, planned) ==
    LET step(result, e) == CopyAndReplace(text, result, e)
        last == FoldLeft(step, [out |-> <<>>, cursor |-> 0], planned)
    IN  last.out \o SubSeq(text, last.cursor + 1, Len(text))

----------------------------------------------------------------------------
(* What the two are for, said without sorting or scanning.                 *)

Overlap(e, f) == SameRange(e, f) \/ (e.start < f.end /\ f.start < e.end)

Unambiguous(edits) ==
    /\ \A i \in DOMAIN edits : edits[i].start <= edits[i].end
    /\ \A e, f \in ToSet(edits) : e # f => ~Overlap(e, f)

\* A gap is the place before a token.  What stands there afterwards is what is inserted
\* before the token, then the token itself unless a range covers it.
Around(text, edits, p) ==
    LET insertions == {e \in edits : e.start = p /\ e.end = p}
        replacements == {e \in edits : e.start = p /\ e.end > p}
        covered == \E e \in edits : e.start <= p /\ p < e.end
        textOf(some) == IF some = {} THEN <<>> ELSE (CHOOSE e \in some : TRUE).text
    IN  textOf(insertions) \o textOf(replacements)
            \o (IF covered \/ p = Len(text) THEN <<>> ELSE <<text[p + 1]>>)

Simultaneously(text, edits) ==
    FlattenSeq([i \in 1 .. Len(text) + 1 |-> Around(text, edits, i - 1)])
=============================================================================
