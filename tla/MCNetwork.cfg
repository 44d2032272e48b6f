CONSTANTS
    Seconds = 2
    Minutes = 2
    Times <- AboutHours
    MaxTries = 2
    NS_SECOND = 3
    FX_SECOND = 4
    MaxDelay = 4
    retries = 2
    Start = 6
    Horizon = 9
    Errors <- InitialErrors
    Pause = 1
    NetMax = 2
    Hosts = {2, 3, 4}
    gateway = 2
    dns_server = 3
    Slots = 2
    Width = 4
    Age = 2
    MaxAsked = 5
    Stream = 6
    Requests = 1
    Mss = 1
    Window = 3
    QueueSize = 5
    Fragments = 2
    Burst = 2
    Capacity = 2
    Attempts = 2
SPECIFICATION MCSpec
INVARIANTS ReadsTrue StreamIntact AnswersTrue
PROPERTIES SyncBound ReceiveDropsNothing FramesInOrder
