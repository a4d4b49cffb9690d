---------------------------- MODULE MCH2CCRobust ----------------------------
(***************************************************************************)
(* Model-checking harness for H2CC on arbitrary files: every sequence of   *)
(* up to MaxLen lines over an alphabet that reaches each branch of the     *)
(* scanner, malformed nesting, unterminated declarations, templates and    *)
(* comments included.                                                      *)
(***************************************************************************)
EXTENDS MCHeaderLines

CONSTANT MaxLen     \* bound on the length of a file

Alphabet ==
    {Blank, NsOpen, Close, TmplLine, TmplOpen, ClassOpen("A"), ClassHead("A"),
     InlineOpen("F"), Decl("F"), DeclOpen("F"), OpenNoId, MidParam,
     MacroCall, CmtClose}

RobustInputs == BoundedSeq(Alphabet, MaxLen)

=============================================================================
