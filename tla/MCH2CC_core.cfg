CONSTANTS
    NoName = NoName
    Names = {"F", "A", "p", "fp", "R", "stmt"}
    Decls = {"F"}
    Classes = {"A"}
    Shapes <- CoreShapes
    FileEnd <- GuardTail
    MaxLines = 5
    Inputs <- MCInputs

SPECIFICATION MCSpec

INVARIANT StubsExact
INVARIANT NoException

CHECK_DEADLOCK FALSE
