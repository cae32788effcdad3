\* Two terminals and any two calls: the shell of one is given a paste larger than the room of its
\* pseudo-terminal, and while that write holds the mutex a close waits behind it, or the other
\* terminal, already spawned, waits to be inserted.
CONSTANTS
    Terminals = {t1, t2}
    Commands = {c1, c2}
    PtyRoom = 1
    Paste = 2
    EventRoom = 1
    MaxOutput = 1
    Quiet = {t2}
    None = None
SPECIFICATION FairSpec
INVARIANT NoShellWithoutASession
PROPERTY ClosesUnlessStuck
\* Everything may have ended.
CHECK_DEADLOCK FALSE
