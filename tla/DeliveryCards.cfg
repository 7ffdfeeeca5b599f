\* Two orders that share two cards, two callers of handle, one crash, every
\* result the real adapter returns.
SPECIFICATION Spec
CONSTANTS
    Orders = {o1, o2}
    Tasks = {t1, t2}
    Cards = {c1, c2}
    Units = 1
    MaxRetries = 1
    Outcomes = {"accepted", "unknown", "rejected", "error"}
    MaxCrashes = 1
    MaxControls = 0
    BootRuns = TRUE
    NoOrder = NoOrder
SYMMETRY Symmetry
INVARIANTS
    FrozenCardsHeld
    UsedOnlyIfAccepted
    CardOneOrder
