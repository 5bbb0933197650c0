\* Two pulls of one model, one of them started from the Add-by-HF modal.
SPECIFICATION Spec
\* Every call is made at most once, so the system may come to rest.
CHECK_DEADLOCK FALSE
CONSTANTS
    p1 = p1
    p2 = p2
    b1 = b1
    k1 = k1
    Pulls = {p1, p2}
    WithBody = {p1}
    Resumes = {}
    Deletes = {}
    Cancels = {}
    Clears = {}
    MaxChunks = 2
    MaxVersions = 1
    MaxRestarts = 0
    Faults = {}
    MaxFaults = 0
    None = None
INVARIANT InstalledIsWhole
