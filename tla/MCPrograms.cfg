CONSTANTS
    MaxWindows = 3
    Chars = {" "}
    Cols = 1
    Rows = 1
    MaxText = 2
    Cwd <- LeftPath
    MaxDepth = 2
    MaxChanges = 2
    InitialFiles <- SomeFiles
    MaxTyped = 1
    Letters = {"y", "n"}
    Newline = "nl"
    Tabulator = "tab"
    Width = 2
    Capacity = 2
    CutCapacity = 2
    Body = 2
SPECIFICATION MCSpec
INVARIANTS DisplayTrue PressHitsTop
PROPERTIES Asked
