\* A statement that does not hold: this run ends in a counterexample.
CONSTANTS
    Roots = {a, b}
    Builds = {b1, b2}
    Saves = {s1}
    MaxEvents = 1
    None = None
SPECIFICATION Spec
PROPERTY OnlyTheNewestClears
CHECK_DEADLOCK FALSE
