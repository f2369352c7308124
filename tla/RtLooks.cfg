SPECIFICATION MCSpec
CONSTANTS
    a = a
    b = b
    r = r
    q = q
    ab = ab
    aq = aq
    az = az
    b1 = b1
    bAll = bAll
    rb = rb
    b3 = b3
    rAll = rAll
    qa = qa
    None = None
    All = All
    Nets = {1, 2, 3, 4}
    Nodes = {a, b, r, q}
    on <- Networks
    local <- Locals
    Way <- Line
    Distance <- Distances
    Messages = {ab, aq, az, b1, bAll, rb, b3, rAll, qa}
    Sender <- Senders
    Target <- Targets
    HopCount = 255
    MaxCalls = 1
    MaxLost = 1
    MaxSent = 2
    MaxEvents = 1
    MaxRestarts = 1
CHECK_DEADLOCK FALSE
INVARIANTS
    NothingDropped
