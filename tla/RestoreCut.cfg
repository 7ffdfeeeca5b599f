\* One order: a decision is cut off after its review, and answered as taken when asked for again.
SPECIFICATION RestoreSpec
CONSTANTS
    Sales = {o1}
INVARIANTS
    DecisionIsWhole
CHECK_DEADLOCK FALSE
