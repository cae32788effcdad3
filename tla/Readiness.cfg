\* Two pieces of work for a matcher that remembers one, and a broadcast that holds one message.
SPECIFICATION FairSpec
CONSTANTS
    Tokens = {t1, t2}
    NoToken = none
    MaxTracked = 1
    Buffer = 1
INVARIANTS
    PromotedOnlyWhenLoaded
    PartialAnswersAreQualified
PROPERTIES
    SignalIsNeverMissed
    WaitersGoOn
\* Once the server is gone and its caller has returned nothing happens any more.
CHECK_DEADLOCK FALSE
