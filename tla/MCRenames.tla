----------------------------- MODULE MCRenames -----------------------------
EXTENDS Renames

OneText == <<"old", "gap", "old">>
OneName == <<"old">>
AllTokens == {"old", "new", "gap", "saved"}
TwoWords == {"old", "new"}

Range0 == 0 .. 3
NewTexts == {<<>>, <<"new">>}
AllEdits == [start : Range0, end : Range0, text : NewTexts]

\* Every list of up to two edits for one file, and what one or two documents may do to the
\* others: a usual edit, an insertion before the name, one that misses it, a conflict.
Usual == [start |-> 0, end |-> 1, text |-> <<"new">>]
Prefix == [start |-> 2, end |-> 2, text |-> <<"new">>]
Missing == [start |-> 5, end |-> 5, text |-> <<"new">>]
Across == [start |-> 0, end |-> 2, text |-> <<>>]
Some == {<<>>, <<Usual>>, <<Prefix>>, <<Missing>>, <<Usual, Prefix>>, <<Across, Usual>>}

OneDocument == {<<[file |-> 1, edits |-> s]>> : s \in
    {<<d, e>> : d, e \in AllEdits} \cup
    {<<d, e, f>> : d \in {Usual, Prefix, Across}, e, f \in AllEdits}}

Documents == [file : 1 .. FileCount, edits : Some]
ManyDocuments ==
    {<<d, e>> : d, e \in Documents \cup {[file |-> Outside, edits |-> <<Usual>>]}} \cup
    {<<d, e, f>> : d, e, f \in [file : 1 .. FileCount, edits : {<<Usual>>, <<Prefix>>}]}

SomeAnswers == OneDocument \cup ManyDocuments
=============================================================================
