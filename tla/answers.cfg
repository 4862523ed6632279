\* Every kind of request, to modules of which one fails, panics and starts again,
\* of a client that may hang up and whose connection may break: each request is
\* answered.  No deadlock check: the client stops after its last request.
SPECIFICATION FairSpec
CONSTANTS
    m1 = m1
    m2 = m2
    h1 = h1
    h2 = h2
    Nobody = Nobody
    NoVal = NoVal
    Handlers = {h1}
    Mods = {m1, m2}
    Vals = {0}
    Representable = {0}
    DefaultVal = 0
    PowerOn = {0}
    InitVal <- AllZero
    Class <- ReadWriteAndSoftware
    Visible = {m1}
    Faulty = {m1}
    Panicky = {m1}
    MaxDrift = 0
    Menu <- AnswerMenu
    Flaky = {h1}
    MaxRequests <- TwoEach
PROPERTIES
    EveryRequestAnswered
    GlobalActivationEnds
CHECK_DEADLOCK FALSE
