CONSTANTS
    Limit = 8
    Slots = 5
    Size <- AllSizes
    Modes = {"cli", "desktop"}
    Installs = TRUE
    Hints = {5}
    MaxCrashes = 1
    Sectors = {"s1", "s2"}
    Values = {"u", "v", "w"}
    FlushAt = 3
SPECIFICATION MCSpec
INVARIANTS DamageConfined RecoveryKeepsSpace VolumeSound SyncKeeps
PROPERTIES StoresLand LineTrue
