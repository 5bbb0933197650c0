\* Four callers, two of them under a deadline.
SPECIFICATION Spec
CONSTANTS
    c1 = c1
    c2 = c2
    c3 = c3
    c4 = c4
    Callers <- Four
    Impatient <- TwoOfThem
INVARIANTS
    MapHoldsTheRunningFlight
    SharedOutcome
PROPERTY
    EveryCallEnds
