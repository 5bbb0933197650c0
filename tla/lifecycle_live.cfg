\* A swap, an unload, status() polls, a unit that may be stopped, and an API process that dies once at any moment.
SPECIFICATION HLiveSpec
\* Every call of the instance is made at most once, so the system may come to rest.
CHECK_DEADLOCK FALSE
CONSTANTS
    Loads = {}
    Unloads = {u1}
    Restarts = {}
    Swaps = {w1}
    Sweeps = {}
    Recoveries = {}
    Polls = {p1}
    Requests = {}
    Faults = {"stop"}
    MaxFaults = 1
    SlowStops = {}
    FailedStops = {}
    MaxRestarts = 1
    Base = base
    Nobody = nobody
INVARIANT ReadyIsRoutable
PROPERTIES CallsEnd DeadIsNoticed
