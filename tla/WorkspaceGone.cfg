\* One workspace, which stays open, and two requests that find it without a session.
SPECIFICATION Spec
CONSTANTS
    Roots = {w1}
    Calls = {c1, c2}
    Kinds = {"openDocument"}
    Attempts = 3
    None = none
PROPERTY GoneMeansGone
CHECK_DEADLOCK FALSE
