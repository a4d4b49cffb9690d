----------------------------- MODULE ScopeStack -----------------------------
(***************************************************************************)
(* The scope tracker spec.md 4.1 describes, as an abstract specification: *)
(* a stack of namespace, class and body frames with the names of the open *)
(* classes, and the items the scan writes.  Opening a namespace writes its *)
(* opener, closing one writes its brace, closing a class drops its name,   *)
(* and a stub is written only where declarations live: at file,           *)
(* namespace or class scope, never inside a function body.                *)
(***************************************************************************)
EXTENDS Sequences, SequencesExt

CONSTANT ClassNames

VARIABLES scopes, classes, written
svars == <<scopes, classes, written>>

Init == scopes = <<>> /\ classes = <<>> /\ written = <<>>

OpenNamespace ==
    /\ scopes' = Append(scopes, "namespace")
    /\ written' = Append(written, "open")
    /\ UNCHANGED classes

OpenClass ==
    /\ \E c \in ClassNames : classes' = Append(classes, c)
    /\ scopes' = Append(scopes, "class")
    /\ UNCHANGED written

OpenBody ==
    /\ scopes' = Append(scopes, "body")
    /\ UNCHANGED <<classes, written>>

Close ==
    /\ scopes # <<>>
    /\ scopes' = Front(scopes)
    /\ written' = IF Last(scopes) = "namespace" THEN Append(written, "close")
                  ELSE written
    /\ classes' = IF Last(scopes) = "class" THEN Front(classes) ELSE classes

OutsideBody == IF scopes = <<>> THEN TRUE ELSE Last(scopes) # "body"

EmitStub ==
    /\ OutsideBody
    /\ written' = Append(written, "stub")
    /\ UNCHANGED <<scopes, classes>>

Next == OpenNamespace \/ OpenClass \/ OpenBody \/ Close \/ EmitStub

Spec == Init /\ [][Next]_svars

=============================================================================
