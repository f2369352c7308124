SPECIFICATION SpecCommandable
CONSTANTS
    N = 2
    Values = {0, 3}
    Null = Null
    GivenSlots = {0, 3, Null}
INVARIANTS
    GovernedByProperties
