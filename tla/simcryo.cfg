\* Requests to a simulated cryostat that is ramped or not, polls and the simulator.
SPECIFICATION FairSpec
CONSTANTS
    Temps = {0, 1, 2}
    Ramps = {0, 1}
    Gains = {0, 1}
    MaxI = 0
    Keep = Keep
    MaxRequests = 3
INVARIANTS
    TypeOK
    LinkedCaches
    IdleIsThere
PROPERTIES
    StopHolds
    MoveEnds
