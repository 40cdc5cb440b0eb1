SPECIFICATION Spec
CONSTANTS
    primary = primary
    backup = backup
    v = v
    Agent = {primary, backup}
    Primary = primary
    Nowhere = Nowhere
    Configured = Nowhere
    Value = {v}
    None = None
    Change <- MCChange
    MaxProposals = 1
    MaxRequests = 1
    MaxChecks = 1
    MaxRestarts = 1
    MaxTimeouts = 1
PROPERTY
    HealthUsesDiscovered
CHECK_DEADLOCK FALSE
