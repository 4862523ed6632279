\* Two clients activate and deactivate one module or all, one of which panics and
\* restarts.  No deadlock check: clients stop after their last request.
SPECIFICATION Spec
CONSTANTS
    m1 = m1
    m2 = m2
    h1 = h1
    h2 = h2
    Nobody = Nobody
    NoVal = NoVal
    Handlers = {h1, h2}
    Mods = {m1, m2}
    Vals = {0, 1}
    Representable = {0, 1}
    DefaultVal = 0
    PowerOn = {1}
    InitVal <- AllOne
    Class <- Mixed
    Visible = {m1}
    Faulty = {}
    Panicky = {m1}
    MaxDrift = 0
    Menu <- ActivationMenu
    Flaky = {}
    MaxRequests <- TwoAndOne
INVARIANTS
    TypeOK
    ActivationComplete
    EventsOnlyWhenActive
    GlobalCount
    OneGlobalActivation
CHECK_DEADLOCK FALSE
