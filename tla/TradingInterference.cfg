SPECIFICATION Spec
CONSTANTS
    cron = cron
    tool = tool
    Caller = {cron, tool}
    Interference = TRUE
    Sizes <- MCOneSize
    GovernedSizes <- MCNoSizes
    PnLs <- MCPnLs
    Stakes <- MCStakes
    MaxDailyTrades = 1
    MaxMoves = 2
    MaxPositions = 1
PROPERTY
    PausedBooksStandStill
