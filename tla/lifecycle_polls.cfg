\* A restart whose stop may outlive its budget and a recovery of the watcher whose stop may fail,
\* under status() polls; the unit sickens, is stopped or revives, or its model is unassigned; the API dies once.
SPECIFICATION HSpec
\* Every call of the instance is made at most once, so the system may come to rest.
CHECK_DEADLOCK FALSE
CONSTANTS
    Loads = {}
    Unloads = {}
    Restarts = {r1}
    Swaps = {}
    Sweeps = {}
    Recoveries = {v1}
    Polls = {p1}
    Requests = {}
    Faults = {"sick", "stop", "revive", "unassign"}
    MaxFaults = 1
    SlowStops = {r1}
    FailedStops = {v1}
    MaxRestarts = 1
    Base = base
    Nobody = nobody
INVARIANT NoIllegalLoad
PROPERTIES VerdictSticks KeepsPromise
