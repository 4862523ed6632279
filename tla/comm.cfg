\* Calls over a connection that is lost, to a device that may be silent.
\* No deadlock check: the client stops after its last call.
SPECIFICATION FairSpec
CONSTANTS
    MaxCalls = 3
    MaxFaults = 1
INVARIANTS
    TypeOK
    WokenFindsLine
    NoLineMissed
    CleanCommunicate
PROPERTIES
    Reconnects
CHECK_DEADLOCK FALSE
