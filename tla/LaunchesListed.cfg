\* A statement that does not hold: this run ends in a counterexample.
CONSTANTS
    Launchers = {l1, l2}
    Stoppers = {s1}
    Ids = {app}
    MaxDowns = 1
    None = None
SPECIFICATION Spec
PROPERTY ReplacementStaysListed
CHECK_DEADLOCK FALSE
