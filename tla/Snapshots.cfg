SPECIFICATION Spec
CONSTANTS
    agent = agent
    guardian = guardian
    thisImage = thisImage
    otherImage = otherImage
    None = None
    Agent = {agent}
    Guardian = {guardian}
    Measurement = {thisImage, otherImage}
    Configured <- EnvironmentValues
    NonceCache = 1
    MaxSeq = 4
    MaxRuns = 2
    MaxFaults = 2
INVARIANTS
    
    OneEnrolment
    HeldIsGenuine
PROPERTIES
    NoRollback
    
CHECK_DEADLOCK FALSE
