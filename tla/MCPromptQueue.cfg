SPECIFICATION FairSpec
CONSTANTS
    busy = busy
    guest = guest
    b1 = b1
    b2 = b2
    g1 = g1
    Users = {busy, guest}
    Threads = {b1, b2, g1}
    OwnerOf <- Owner
    MaxRunning = 1
    MaxHosts = 2
    MaxQueue = 2
    NoThread = NoThread
INVARIANTS
    TypeOK
    RowsAreAwaited
PROPERTIES
    FirstSlotToOldest
    NoStarvation
