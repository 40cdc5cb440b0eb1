SPECIFICATION Spec
CONSTANTS
    primary = primary
    backup = backup
    Agent = {primary, backup}
    Primary = primary
    Nobody = Nobody
    MaxAttempts = 2
    MaxFailures = 1
    MaxFaults = 2
INVARIANTS
    OneWinnerPerFailure
PROPERTIES
    ImplementsLease
    
    TakeoversEnd
CHECK_DEADLOCK FALSE
