\* A swap whose stop may outlive its budget, a lazy load that may win the lock in its gap, the idle
\* sweep and two requests; the unit dies, stalls or is stopped once.
SPECIFICATION HSpec
\* Every call of the instance is made at most once, so the system may come to rest.
CHECK_DEADLOCK FALSE
CONSTANTS
    Loads = {l1}
    Unloads = {}
    Restarts = {}
    Swaps = {w1}
    Sweeps = {s1}
    Recoveries = {}
    Polls = {}
    Requests = {q1, q2}
    Faults = {"fail", "hang", "stop"}
    MaxFaults = 1
    SlowStops = {w1}
    FailedStops = {l1}
    MaxRestarts = 0
    Base = base
    Nobody = nobody
SYMMETRY Alike
INVARIANTS ServingIsBusy WatcherArmed
PROPERTY SwapDelivers
