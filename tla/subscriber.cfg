\* One client follows two modules, by themselves or with all others, while one of
\* them is changed, holds a value without a JSON form, panics and starts again.
\* No deadlock check: the client stops after its last request.
SPECIFICATION Spec
CONSTANTS
    m1 = m1
    m2 = m2
    h1 = h1
    h2 = h2
    Nobody = Nobody
    NoVal = NoVal
    Handlers = {h1}
    Mods = {m1, m2}
    Vals = {0, 1, 2}
    Representable = {0, 1}
    DefaultVal = 0
    PowerOn = {0}
    InitVal <- AllZero
    Class <- ReadWriteAndSoftware
    Visible = {m1}
    Faulty = {}
    Panicky = {m1}
    MaxDrift = 0
    Menu <- SubscriberMenu
    Flaky = {}
    MaxRequests <- Three
INVARIANTS
    SubscriberFollows
CHECK_DEADLOCK FALSE
