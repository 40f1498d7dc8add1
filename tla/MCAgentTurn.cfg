SPECIFICATION Spec
CONSTANTS
    Reasons = {r1, r2}
    MaxRounds = 1
    Retries = 1
    MaxTurns = 4
    MaxPipe = 2
SYMMETRY Symmetry
INVARIANTS
    TypeOK
    GatedTurnIsAborted
    GatedTurnNeverFinishes
    NoStuckStreaming
