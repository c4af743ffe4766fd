SPECIFICATION Spec
CONSTANTS
    x1 = x1
    x2 = x2
    Repos = {r1, r2}
    Metas <- TwoVersions
    Submissions = {}
    Reviewers = {}
    Imports = {i1, i2}
    Retries = {}
    Tip = Tip
    None = None
    MaxCommits = 2
    MaxAttempts = 2
    MaxFaults = 0
SYMMETRY Symmetries
CHECK_DEADLOCK FALSE
INVARIANTS BuiltFromPluginsRepository LabelTellsContent
