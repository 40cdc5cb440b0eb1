SPECIFICATION Spec
CONSTANTS
    cron = cron
    tool = tool
    Caller = {cron}
    Interference = FALSE
    Sizes <- MCSizes
    GovernedSizes <- MCGovernedSizes
    PnLs <- MCPnLs
    Stakes <- MCStakes
    MaxDailyTrades = 2
    MaxMoves = 3
    MaxPositions = 3
INVARIANTS
    TypeOK
    
    
PROPERTIES
    ExposureBounded
    CyclesEnd
