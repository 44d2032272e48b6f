CONSTANTS
    LastBlock = 4
    LastInode = 5
    Slots = 2
    Direct = 1
    PerBlock = 1
    Paths <- VarPaths
    Contents = {"x", "L"}
    Blocks <- BlockCount
    EntryLike = {"x"}
    MaxCrashes = 1
    VfsPaths <- SomePaths
    Key <- ShortName
    Packed <- PackedPaths
    Texts <- SomeTexts
    FILES = 1
    DATA = 2048
    packages <- ThreePackages
    Essential = {"a", "c"}
    Mirrors = 2
SPECIFICATION MCSpec
INVARIANTS WholeOrOld BitmapsTrue ContentsKept SpaceFound ReadsBack PackagesVerified
