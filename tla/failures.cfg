\* One client of modules that fail, panic and restart.
\* No deadlock check: the client stops after its last request.
SPECIFICATION Spec
CONSTANTS
    m1 = m1
    m2 = m2
    h1 = h1
    h2 = h2
    Nobody = Nobody
    NoVal = NoVal
    Handlers = {h1}
    Mods = {m1, m2}
    Vals = {0, 1}
    Representable = {0}
    DefaultVal = 0
    PowerOn = {0}
    InitVal <- AllZero
    Class <- WritableAndReadonly
    Visible = {m1, m2}
    Faulty = {m1}
    Panicky = {m1}
    MaxDrift = 1
    Menu <- FailureMenu
    Flaky = {}
    MaxRequests <- TwoEach
INVARIANTS
    RepliesInOrder
    AnsweredIsDescribed
PROPERTIES
    ImplementsService
CHECK_DEADLOCK FALSE
