SPECIFICATION Spec
CONSTANTS
    Users = {u1, u2}
    Period = 2
    Cost = 1
    MaxClock = 9
    NoBucket = NoBucket
    NoAnswer = NoAnswer
INVARIANTS
    WindowBound
PROPERTIES
    OnlyRecentBuckets
    ImplementsContract
