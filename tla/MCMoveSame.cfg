CONSTANTS
    MaxWindows = 3
    Chars = {" "}
    Cols = 1
    Rows = 1
    MaxText = 2
    Cwd <- LeftPath
    MaxDepth = 2
    MaxChanges = 2
    InitialFiles <- OneFile
    MaxTyped = 2
    Letters = {"y", "n"}
    Newline = "nl"
    Tabulator = "tab"
    Width = 2
    Capacity = 3
    CutCapacity = 2
    Body = 2
SPECIFICATION MCSpec
INVARIANTS MovedIsThere
