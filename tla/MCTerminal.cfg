CONSTANTS
    Keys <- SomeKeys
    Packets <- SomePackets
    MaxKeys = 2
    MaxPackets = 2
    MaxResends = 2
    Quiet = TRUE
    Slow = TRUE
SPECIFICATION MCSpec
INVARIANTS InputIntact PromptTrue CursorOnText
PROPERTIES  ScreenRestored CellsTrue FetchEnds
