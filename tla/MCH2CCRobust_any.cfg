CONSTANTS
    NoName = NoName
    Names = {"F", "A", "p", "fp", "R", "stmt"}
    MaxLen = 4
    Inputs <- RobustInputs

SPECIFICATION Spec

INVARIANT TypeOK
INVARIANT ScopeStacksAligned
 
PROPERTY ScopeRefinement

CHECK_DEADLOCK FALSE
