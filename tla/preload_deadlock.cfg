\* Two loads and no fault; the second needs the memory of the first.
SPECIFICATION LiveSpec
\* Every call is made at most once, so the system may come to rest.
CHECK_DEADLOCK FALSE
CONSTANTS
    a = a
    b = b
    c = c
    la = la
    lb = lb
    lc = lc
    ua = ua
    Slots = {a, b, c}
    Npu = {c}
    Gpu = {b}
    Pinned = {}
    Size <- SizeOfSlot
    Rank <- RankOfSlot
    Resident = {}
    Capacity = 4
    Headroom = 1
    Loads = {la, lb}
    Unloads = {}
    Of <- SlotOf
    Faults = {}
    MaxFaults = 0
    Nobody = nobody
PROPERTY ReservationReleased
