\* Two pulls, one with a body; one call that deletes the model, cancels or clears
\* its job; a fault; the object replaced once; a crash or shutdown, and the resume.
SPECIFICATION LiveSpec
\* Every call is made at most once, so the system may come to rest.
CHECK_DEADLOCK FALSE
CONSTANTS
    p1 = p1
    p2 = p2
    b1 = b1
    k1 = k1
    Pulls = {p1, p2}
    WithBody = {p1}
    Resumes = {b1}
    Deletes = {k1}
    Cancels = {k1}
    Clears = {k1}
    MaxChunks = 2
    MaxVersions = 2
    MaxRestarts = 1
    Faults = {"http", "refused", "persist"}
    MaxFaults = 1
    None = None
INVARIANTS ShownIsAlive Safety
PROPERTIES DeletedStaysDeleted StatusSettles
