SPECIFICATION Spec
CONSTANTS
    Keepers = {k1}
    NoLock = NoLock
    Blank = Blank
    Services = {gateway, web}
    Versions = {v1, v2, bad}
    Broken = {bad}
    Lockfiles = {l1, l2}
    Down = Down
    Working1 = v1
    Working2 = v2
    MaxFailures = 2
    MaxCommits = 2
    MaxCrashes = 1
SYMMETRY Symmetry
INVARIANTS
    TypeOK
    RunsTheTree
    KnownGoodIsGood
    DepsFitTheTree
    BreakerBounds
