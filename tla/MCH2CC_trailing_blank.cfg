CONSTANTS
    NoName = NoName
    Names = {"F", "A", "p", "fp", "R", "stmt"}
    Decls = {"F"}
    Classes = {"A"}
    Shapes <- EofShapes
    FileEnd <- BlankTail
    MaxLines = 3
    Inputs <- MCInputs

SPECIFICATION MCSpec

INVARIANT NoException

CHECK_DEADLOCK FALSE
