\* One order, two callers of handle, two crashes that are recovered from (the
\* second may interrupt the recovery), one change of the account, every result
\* the port allows but the unclassified error.
SPECIFICATION Spec
CONSTANTS
    Orders = {o1}
    Tasks = {t1, t2}
    Cards = {c1, c2}
    Units = 1
    MaxRetries = 1
    Outcomes = {"accepted", "not_submitted", "refused", "rejected", "unknown"}
    MaxCrashes = 2
    MaxControls = 1
    BootRuns = TRUE
    NoOrder = NoOrder
SYMMETRY Symmetry
INVARIANTS
    TypeOK
    MutualExclusion
    AtMostOneCopy
    ContentIsTrue
    RecordedBeforeSent
    NoOrphanAttempt
    IInv
PROPERTIES
    KeepsPromise
