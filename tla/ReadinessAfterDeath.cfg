\* The death, the ceiling and the signal are arms of one select that prefers none of them.
SPECIFICATION FairSpec
CONSTANTS
    Tokens = {t1}
    NoToken = none
    MaxTracked = 1
    Buffer = 1
PROPERTY DeathFreezesReadiness
CHECK_DEADLOCK FALSE
