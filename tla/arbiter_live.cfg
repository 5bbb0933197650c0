SPECIFICATION LiveSpec
CHECK_DEADLOCK FALSE
CONSTANTS
    Slots = {a}
    Cold = {}
    Chats = {c1}
    RouteChats = {c1}
    Target <- TargetOf
    Jobs = {j1}
    Prompts = {}
    Ops = {"generation_pin"}
    Restorers = {"loop", "demand", "omni"}
    Faults = {"unload", "load", "loadwait", "imgload", "imgready", "queue"}
    MaxPosts = 2
    MaxFaults = 1
    MaxPins = 1
    MaxRestarts = 1
    Nobody = nobody
PROPERTIES ImageModeEnds ChatsAnswered
