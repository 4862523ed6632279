\* A module panics, and is restarted for another client, while a client that has
\* asked for nothing else is active for it.
\* No deadlock check: clients stop after their last request.
SPECIFICATION Spec
CONSTANTS
    m1 = m1
    m2 = m2
    h1 = h1
    h2 = h2
    Nobody = Nobody
    NoVal = NoVal
    Handlers = {h1, h2}
    Mods = {m1}
    Vals = {0, 1}
    Representable = {0, 1}
    DefaultVal = 0
    PowerOn = {0}
    InitVal <- AllZero
    Class <- ReadWrite
    Visible = {m1}
    Faulty = {}
    Panicky = {m1}
    MaxDrift = 1
    Menu <- RestartMenu
    Flaky = {}
    MaxRequests <- OneEach
INVARIANTS
    SubscriberUpToDate
CHECK_DEADLOCK FALSE
