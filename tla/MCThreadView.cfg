SPECIFICATION Spec
CONSTANTS
    MaxFlight = 2
    MaxRetries = 2
    MaxTrust = 1
INVARIANTS NoPhantomRun
PROPERTIES TrustIffUnrevised
CHECK_DEADLOCK FALSE
