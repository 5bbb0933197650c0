SPECIFICATION Spec
CHECK_DEADLOCK FALSE
CONSTANTS
    Slots = {a,b}
    Cold = {b}
    Chats = {c1}
    RouteChats = {c1}
    Target <- TargetOf
    Jobs = {j1}
    Prompts = {p1}
    Ops = {"inference"}
    Restorers = {"loop", "demand"}
    Faults = {"unload", "load", "park", "drain", "loadwait", "lease", "refused", "imgload", "imgready", "imgcrash", "queue"}
    MaxPosts = 1
    MaxFaults = 1
    MaxPins = 0
    MaxRestarts = 1
    Nobody = nobody
INVARIANTS Safety RenderNotCut
PROPERTIES Exclusion ServedNotRefused NoUnloadUnderRequest
