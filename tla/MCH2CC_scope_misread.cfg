CONSTANTS
    NoName = NoName
    Names = {"F", "A", "p", "fp", "R", "stmt"}
    Decls = {"F"}
    Classes = {"A"}
    Shapes <- NsFriendShapes
    FileEnd <- GuardTail
    MaxLines = 5
    Inputs <- MCInputs

SPECIFICATION MCSpec

INVARIANT StubsExact

CHECK_DEADLOCK FALSE
