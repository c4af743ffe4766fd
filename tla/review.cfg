SPECIFICATION Spec
CONSTANTS
    x1 = x1
    x2 = x2
    Repos = {r1}
    Metas <- TwoAuthors
    Submissions = {s1}
    Reviewers = {v1, v2}
    Imports = {}
    Retries = {y1}
    Tip = Tip
    None = None
    MaxCommits = 2
    MaxAttempts = 1
    MaxFaults = 1
SYMMETRY Symmetries
CHECK_DEADLOCK FALSE
INVARIANTS ImportedAsPreviewed AcceptedIsImported ImportedOnAcceptance
