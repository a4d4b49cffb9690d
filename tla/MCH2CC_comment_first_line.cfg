CONSTANTS
    NoName = NoName
    Names = {"F", "A", "p", "fp", "R", "stmt"}
    Decls = {"F"}
    Classes = {"A"}
    Inputs <- MCInputs
    Shapes <- CommentShapes
    MaxLines = 3
    FileEnd <- GuardTail

SPECIFICATION MCSpec

INVARIANT CommentCarried

CHECK_DEADLOCK FALSE
