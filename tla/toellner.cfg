\* Modules that read through others, which panic, do not exist, or call back.
\* No deadlock check: the user stops after its last call.
SPECIFICATION FairSpec
CONSTANTS
    rs = rs
    ps = ps
    Nobody = Nobody
    NoVal = NoVal
    Handlers = {1, 2, 3}
    Users <- OneUser
    Pool = {2, 3}
    Mods = {rs, ps}
    Wirings <- CallWirings
    Vals = {0}
    Representable = {0}
    DefaultVal = 0
    PowerOn = {0}
    InitVal <- AllZero
    Class <- ReadWrite
    Visible = {}
    Faulty = {}
    Panicky = {rs}
    MaxDrift = 0
    MaxPolls = 2
    Calls <- UserCallMenu
    MaxCalls = 1
INVARIANTS
    TypeOK
    LagBounded
    UnreadBounded
PROPERTIES
    QueuesEmptied
CHECK_DEADLOCK FALSE
