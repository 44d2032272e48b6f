CONSTANTS
    Limit = 8
    Slots = 4
    Size <- AllSizes
    Modes = {"normal", "cli"}
    Installs = FALSE
    Hints = {5}
    MaxCrashes = 1
    Sectors = {"s1", "s2"}
    Values = {"u", "v", "w"}
    FlushAt = 3
SPECIFICATION MCSpec
INVARIANTS RecoveryComplete
