CONSTANTS
    NoName = NoName
    Names = {"F", "A", "p", "fp", "R", "stmt"}
    Root <- MCRoot
    Dirs <- MCDirs
    Rank <- MCRank
    Tree <- BaseTree
    Content <- MCContent
    MayRaise <- TilingFails

SPECIFICATION Spec

INVARIANT TypeOK
INVARIANT AllConverted
PROPERTY DriverRefinement

CHECK_DEADLOCK FALSE
