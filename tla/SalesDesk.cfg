SPECIFICATION SalesSpec
CONSTANTS
    customer = customer
    Customer = {customer}
    MaxNFTs = 10
    Crowds <- MCCrowds
    Markets <- MCMarkets
    OfferPercents <- MCOfferPercents
    MaxRetries = 2
    CircuitThreshold = 1
    MaxToolIterations = 2
    MaxMessages = 2
    MaxFaults = 1
INVARIANTS
    SalesTypeOK
    OneAccountPerCustomer
    
PROPERTY
    EveryMessageAnswered
CHECK_DEADLOCK FALSE
