CONSTANTS
    Root <- MCRoot
    Dirs <- MCDirs
    Rank <- MCRank
    Tree <- BaseTree
    Fails <- TilingFails

SPECIFICATION Spec

INVARIANT OthersConverted

CHECK_DEADLOCK FALSE
