CONSTANTS
    MaxParams = 3
    MaxTParams = 2
    Defaults = {"sp"}
    Decls <- MCDecls

SPECIFICATION Spec

INVARIANT DefaultsStripped

CHECK_DEADLOCK FALSE
