----------------------------- MODULE MCStubBody -----------------------------
(* Declaration sets for the StubBody runs. *)
EXTENDS StubBody

Ctor(d) == d.type = ""
Wrapper(d) == d.type \in Containers \cup Owning

(* The return type on the line of the name: one on a line of its own    *)
(* (line 472) reaches pat_search_func with a newline where it wants '[ ]+' *)
(* (line 287), the layout run.  No template preamble (it always gets the  *)
(* empty body, line 663), no constructor whose first parameter is written *)
(* `Word *name` (the layout run), no '&' or '*' on a container or an      *)
(* owning pointer: a reference written against the type loses its '&'     *)
(* (line 705), and for '*' the two rules of spec.md 4.5 both apply and    *)
(* the code's choice between "return {};" and "return nullptr;" depends   *)
(* on the layout.                                                         *)
PlainDecls ==
    {d \in DeclSpace : /\ ~d.tmpl /\ ~d.pre /\ d.params # "(Foo *p)"
                       /\ ~(Wrapper(d) /\ d.mark # "")}
(* Constructors, and declarations whose return type is on its own line. *)
LayoutDecls == {d \in DeclSpace : Ctor(d) \/ d.pre}
=============================================================================
