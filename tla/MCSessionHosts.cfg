SPECIFICATION FairSpec
CONSTANTS
    Threads = {t1}
    Hosts = {h1, h2}
    Calls = {c1, c2}
    NoHost = NoHost
    NoThread = NoThread
    KillsLand = FALSE
INVARIANTS
    OnlyCurrentSpeaks
    HandlesAreLive
PROPERTIES
    WaitsAreBounded
    EveryTurnReturns
