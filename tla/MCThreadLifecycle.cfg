SPECIFICATION Spec
CONSTANTS
    Threads = {t1, t2}
    Hosts = {h1, h2}
    Calls = {c1}
    NoHost = NoHost
    NoThread = NoThread
    KillsLand = TRUE
    MaxRunning = 1
    MaxHosts = 1
    MaxQueue = 1
SYMMETRY Symmetry
INVARIANTS
    TypeOK
    NoLeakedStreaming
    OneProcessPerThread
PROPERTIES
    DecisionsSurviveTurns
    OrphansAreStragglers
    TurnAvoidsDyingHost
