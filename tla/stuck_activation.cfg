\* A module panics while a global activation is in flight.
\* No deadlock check: clients stop after their last request.
SPECIFICATION Spec
CONSTANTS
    m1 = m1
    m2 = m2
    h1 = h1
    h2 = h2
    Nobody = Nobody
    NoVal = NoVal
    Handlers = {h1}
    Mods = {m1, m2}
    Vals = {0, 1}
    Representable = {0, 1}
    DefaultVal = 0
    PowerOn = {0}
    InitVal <- AllOne
    Class <- Mixed
    Visible = {m1}
    Faulty = {}
    Panicky = {m1}
    MaxDrift = 0
    Menu <- GlobalMenu
    Flaky = {}
    MaxRequests <- TwoEach
INVARIANTS
    RefusedOnlyWhenBusy
CHECK_DEADLOCK FALSE
