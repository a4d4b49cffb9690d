CONSTANTS
    NoName = NoName
    Names = {"F", "A", "p", "fp", "R", "stmt"}
    Decls = {"F"}
    Classes = {"A"}
    Shapes <- TClassShapes
    FileEnd <- GuardTail
    MaxLines = 4
    Inputs <- MCInputs

SPECIFICATION MCSpec

INVARIANT NoException

CHECK_DEADLOCK FALSE
