SPECIFICATION Spec
CONSTANTS
    Versions = {v1, v2}
    Numbers = {1, 2}
    c1 = c1
    c2 = c2
    c3 = c3
    Commits = {c1, c2, c3}
    Short <- FirstDigits
    Procs = {p1, p2}
    None = None
    MaxPlugins = 2
    MaxFaults = 1
SYMMETRY Symmetries
CHECK_DEADLOCK FALSE
INVARIANTS ServedAsScanned BuiltHasObject NoOrphans
