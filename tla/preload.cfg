\* A GPU slot, an NPU slot and a CPU slot that cannot all be up, three loads and an unload, up to two faults.
SPECIFICATION Spec
\* Every call is made at most once, so the system may come to rest.
CHECK_DEADLOCK FALSE
CONSTANTS
    a = a
    b = b
    c = c
    la = la
    lb = lb
    lc = lc
    ua = ua
    Slots = {a, b, c}
    Npu = {c}
    Gpu = {b}
    Pinned = {}
    Size <- SizeOfSlot
    Rank <- RankOfSlot
    Resident = {a}
    Capacity = 6
    Headroom = 1
    Loads = {la, lb, lc}
    Unloads = {ua}
    Of <- SlotOf
    Faults = {"registry", "spawn", "park", "stop", "drift"}
    MaxFaults = 2
    Nobody = nobody
INVARIANTS NoOvercommit Safety
PROPERTY EvictsOnlyWhenShort
