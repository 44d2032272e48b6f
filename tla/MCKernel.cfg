CONSTANTS
    HeapMax = 256
    SizeMax = 1023
    Available = {0, 440, 1300}
    Sizes = {0, 16, 40, 1020}
    Counts = {2, 70}
    Vals = {v}
    Zero = z
    Polls = 2
    Managed = {1, 2, 6, 8}
    LOG_MAX_ENTRIES = 3
    m1 = m1
    m2 = m2
    Msgs <- MCMsgs
    Banner = Banner
    MaxTime = 1
    ModeNames = {"cli", "recovery"}
    MaxPanics = 2
    MaxCrashes = 2
SPECIFICATION MCSpec
INVARIANTS HeapSound Accounting ContentsIntact BootGates FlagTrue PanicReported StartsAsAsked ScansComplete FaultNamed
PROPERTIES BootEnds LogKept FlagServed
