SPECIFICATION Spec
CONSTANTS
    primary = primary
    backup = backup
    v = v
    Agent = {primary, backup}
    Primary = primary
    Nowhere = Nowhere
    Configured = primary
    Value = {v}
    None = None
    Change <- MCChange
    MaxProposals = 1
    MaxRequests = 1
    MaxChecks = 2
    MaxRestarts = 1
    MaxTimeouts = 1
INVARIANTS
    ChangesAreAccountedFor
PROPERTIES
    ImplementsVotedSettings
    StatusCatchesUp
CHECK_DEADLOCK FALSE
