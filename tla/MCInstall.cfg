CONSTANTS
    ConfigSize = 1738
    ImageSize = 1000000
    BootArea = 1048576
    Word = 7
SPECIFICATION Spec
INVARIANTS InstallWorks
