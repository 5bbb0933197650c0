\* Four requests, a decision call, a stream and a cancellable task among them, under a cap the operator edits.
SPECIFICATION Spec
CONSTANTS
    r1 = r1
    r2 = r2
    r3 = r3
    r4 = r4
    NoCap = NoCap
    Requests <- Four
    Decision <- OnlyLast
    Streaming <- OnlyFirst
    Cancellable <- OnlySecond
    Caps <- OneTwoOrNone
    g1 = g1
    g2 = g2
    NoGate = NoGate
    Gates <- TwoGates
INVARIANTS
    GateConserved
    GateBounded
    QueueOnlyWhenFull
PROPERTIES
    PriorityOrder
    GrantStands
    EveryTicketSettles
