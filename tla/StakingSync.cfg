SPECIFICATION StakingSpec
CONSTANTS
    guardian1 = guardian1
    guardian2 = guardian2
    nft = nft
    alice = alice
    bob = bob
    Guardian = {guardian1, guardian2}
    Token = {nft}
    User = {alice, bob}
    Nobody = Nobody
    MaxCalls = 2
    MaxMoves = 1
    MaxFaults = 1
INVARIANT
    StakingTypeOK
PROPERTIES
    CopyConverges
    StakesEndWithOwnership
CHECK_DEADLOCK FALSE
