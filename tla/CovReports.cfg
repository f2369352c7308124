SPECIFICATION SpecCov
CONSTANTS
    N = 2
    Values = {0, 3, 6}
    Null = Null
    GivenSlots = {3, Null}
    Clients = {c1, c2}
    Increments = {0, 4}
    Lifetimes = {0, 60}
    MaxWrites = 3
INVARIANTS
    Governed
    FirstNotification
    ReportedValueIsClose
    SubscriberIsTold
