SPECIFICATION Spec
CONSTANTS
    self = self
    other = other
    large = large
    small = small
    Sentry = {self, other}
    Self = self
    Token = {large, small}
    Worth <- MCWorth
    Hours = {1}
    DayLength = 2
    MaxTime = 4
    MaxProposals = 1
    MaxDelegations = 1
    MaxRequests = 1
INVARIANTS
    TypeOK
    DecisionMatchesVotes
    PushedOnce

    
    
