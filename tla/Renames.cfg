CONSTANTS
    FileCount = 3
    Tokens <- AllTokens
    Text <- OneText
    Name <- OneName
    Words <- TwoWords
    MaxHeld = 9
    MaxSaves = 1
    Answers <- SomeAnswers
SPECIFICATION Spec
INVARIANTS
    SuccessIsWhole
    FailureIsHonest
    EditsMeanOneThing
\* A rename ends.
CHECK_DEADLOCK FALSE
