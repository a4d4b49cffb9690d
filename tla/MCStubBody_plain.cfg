CONSTANT Decls <- PlainDecls

SPECIFICATION Spec

INVARIANT TypeOK
INVARIANT BodyFollowsPolicy

CHECK_DEADLOCK FALSE
