\* The sentence of pty/mod.rs 15-16, which a paste to a shell that does not read refutes.
CONSTANTS
    Terminals = {t1, t2}
    Commands = {c1, c2}
    PtyRoom = 1
    Paste = 2
    EventRoom = 1
    MaxOutput = 1
    Quiet = {}
    None = None
SPECIFICATION FairSpec
PROPERTY SectionsAreQuick
CHECK_DEADLOCK FALSE
