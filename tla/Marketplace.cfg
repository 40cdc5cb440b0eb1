SPECIFICATION Spec
SYMMETRY MCSymmetry
CONSTANTS
    alice = alice
    bob = bob
    carol = carol
    one = one
    two = two
    NoUser = NoUser
    User <- MCUser
    Token <- MCToken
    SwapLifetime = 1
    MaxTime = 2
    MaxListings = 2
    MaxSwaps = 2
INVARIANTS
    EverySaleHasItsListing
PROPERTIES
    
    SwapsGiveBothSides
