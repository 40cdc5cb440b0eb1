SPECIFICATION Spec
CONSTANTS
    MaxNfts = 3
    Deposits <- MCDeposits
    PnLs <- MCPnLs
    MaxTrades = 2
    MaxDeposit = 120
INVARIANTS
    ActiveCountIsExact
    
    PayoutIsWholeClaim
    BooksBalance
    LegitimateOperationsCommit
    SharesAreFair
PROPERTIES
    ImplementsPooledFund
