CONSTANT Decls <- LayoutDecls

SPECIFICATION Spec

INVARIANT BodyFollowsPolicy

CHECK_DEADLOCK FALSE
