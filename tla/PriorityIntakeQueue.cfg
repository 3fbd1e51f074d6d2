SPECIFICATION Spec
CONSTANTS
    Capacity = 3
    MaxArrivals = 5
INVARIANTS
    TypeOK
    SizeCountsWaiting
    LossesSpareRiskier
PROPERTY
    ImplementsPolicy
CHECK_DEADLOCK FALSE
