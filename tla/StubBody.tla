------------------------------ MODULE StubBody ------------------------------
(***************************************************************************)
(* The stub body synthesiser of gen_stubapi.py: H2CC.implement_function    *)
(* and H2CC.get_return_statements.  A normalised declaration is abstracted *)
(* to the features the two functions test: a template preamble in front,   *)
(* the return type on a line of its own, a leading const, the return type  *)
(* token, a '&' or '*' and whether it is written against the type or the  *)
(* name, the class qualifier, the method name, and for a constructor the   *)
(* parameter list.  A body is abstracted to                              *)
(* the text of the RETURN_STATEMENTS entry it is taken from, "" if none. *)
(***************************************************************************)
EXTENDS Naturals, Sequences, TLC

CONSTANT Decls    \* the declarations fed to implement_function

(* Return-type tokens and how the regexes classify them. *)
Words == {"Status", "OpDef", "OpAttrDef", "OpParamDef", "ParseParamByOpFunc", "Foo", "void"}
Types == Words \cup {"std::vector<int64_t>", "std::set<int>", "std::unique_ptr<Foo>"}
Containers == {"std::vector<int64_t>", "std::set<int>"}   \* startswith std::map/set/vector
Owning == {"std::unique_ptr<Foo>"}                       \* startswith std::unique_ptr
(* The return-type alternatives of pat_format_func and pat_search_func: a *)
(* [:\w]+ token or std::vector<...>; std::set and std::unique_ptr are not. *)
Regexable == Words \cup {"std::vector<int64_t>"}
Classes == {"OpDef", "OpParamDef", "OpRegistrationData", "OpImplRegister"}
Fns == {"Attr", "Input", "GetParseParamByOperatorFn"}
Marks == {"", "&", "*"}
(* Constructor parameter lists: func.split() cuts "(Foo *p)" into         *)
(* "A::A(Foo" and "*p)".                                                  *)
Params == {"()", "(Foo *p)", "(Foo &p)", "(const ge::char_t *op_type)"}
ParamNext == [p \in Params |-> CASE p = "(Foo *p)" -> "*"
                                  [] p = "(Foo &p)" -> "&"
                                  [] OTHER -> ""]

(* A table key "<ret> <Cls>::<fn>", "<ret> <Cls>::" or "<ret>": ret is   *)
(* <<type, mark>>, an absent class or method is "".                      *)
Key(ret, c, f) == [ret |-> ret, cls |-> c, fn |-> f]
TKey(t, m) == Key(<<t, m>>, "", "")

(* The entries of RETURN_STATEMENTS whose keys are made of the tokens     *)
(* above, the generic "Ptr" and "std::map" keys included, with the body   *)
(* text each one maps to.                                                 *)
ReturnStatements ==
    (TKey("Status", "") :> "return SUCCESS;")
 @@ (TKey("OpDef", "") :> "return OpDef(\"default\");")
 @@ (TKey("OpDef", "&") :> "return *this;")
 @@ (TKey("OpAttrDef", "&") :> "return *this;")
 @@ (Key(<<"OpAttrDef", "&">>, "OpDef", "Attr") :> "return this->GetOrCreateAttr(name);")
 @@ (Key(<<"OpParamDef", "&">>, "OpParamDef", "") :> "return *this;")
 @@ (Key(<<"OpParamDef", "&">>, "OpDef", "Input")
        :> "return this->impl_->op_params.Input(name);")
 @@ (Key(<<"ParseParamByOpFunc", "">>, "OpRegistrationData", "GetParseParamByOperatorFn")
        :> "return nullptr;")
 @@ (TKey("Ptr", "") :> "return nullptr;")
 @@ (TKey("std::vector<int64_t>", "") :> "return {};")
 @@ (TKey("std::vector<int64_t>", "&") :> "static std::vector<int64_t> vec; return vec;")
 @@ (TKey("std::map", "") :> "return {};")

(* Mutant: a default body where no key is in the table. *)
FirstInDefault(ks) ==
    LET hits == SelectSeq(ks, LAMBDA k : k \in DOMAIN ReturnStatements)
    IN  IF hits = <<>> THEN "return 0;" ELSE ReturnStatements[Head(hits)]

(* The body text: the entry of the first key of ks the table holds, or   *)
(* the empty body.                                                        *)
FirstIn(ks) == LET hits == SelectSeq(ks, LAMBDA k : k \in DOMAIN ReturnStatements)
               IN  IF hits = <<>> THEN "" ELSE ReturnStatements[Head(hits)]

(* The declarations h2cc can hand over.  type = "" is a constructor       *)
(* A::A<params>.  A return type on                                        *)
(* its own line matches `^\s*(inline)?\s*[a-zA-Z0-9_]+\s*$` (line 472), so *)
(* it is a bare word, and the template string of that pass is lost.       *)
DeclSpace ==
    {d \in [tmpl : BOOLEAN, pre : BOOLEAN, const : BOOLEAN,
            type : Types \cup {""}, mark : Marks, glue : {"type", "name"},
            cls : Classes \cup {""}, fn : Fns \cup Classes, params : Params] :
        /\ d.mark = "" => d.glue = "type"
        /\ d.type = "" => /\ d.cls # "" /\ d.fn = d.cls /\ d.mark = ""
                          /\ ~d.const /\ ~d.pre
        /\ d.type # "" => d.params = "()" /\ d.fn \in Fns
        /\ d.pre => /\ ~d.tmpl /\ ~d.const /\ d.mark = ""
                    /\ d.type \in Words}

ASSUME Decls \subseteq DeclSpace

VARIABLES decl, prologue, body, pc
vars == <<decl, prologue, body, pc>>

-----------------------------------------------------------------------------
(* pat_search_func: `(const )?<ret>[&*]* +<Class>::\n?<fn> *\(` from the   *)
(* start of the text, after pat_format_func has moved a '&' or '*' from   *)
(* the name onto the type.                                                *)
SearchMatch(d) ==
    ~d.tmpl /\ ~d.pre /\ d.type \in Regexable /\ d.cls # ""

(* Mutant: the generic key tried before the per-class and per-method ones. *)
GetReturnStatementsTypeFirst(d) ==
    IF ~SearchMatch(d) THEN ""
    ELSE LET r == <<d.type, d.mark>>
         IN  FirstIn(<<Key(r, "", ""), Key(r, d.cls, ""), Key(r, d.cls, d.fn)>>)

(* get_return_statements: "<ret> <Cls>::<fn>", then "<ret> <Cls>::", then *)
(* "<ret>".                                                               *)
GetReturnStatements(d) ==
    IF ~SearchMatch(d) THEN ""
    ELSE LET r == <<d.type, d.mark>>
         IN  FirstIn(<<Key(r, d.cls, d.fn), Key(r, d.cls, ""), Key(r, "", "")>>)

(* func.split() after a leading "const": the first item and how the next *)
(* one starts.                                                            *)
FirstItem(d) ==
    CASE d.tmpl          -> <<"template<", "">>
      [] d.type = ""     -> <<d.cls \o "::" \o d.cls \o "(", "">>
      [] d.glue = "type" -> <<d.type, d.mark>>
      [] OTHER           -> <<d.type, "">>
NextStarts(d) ==
    CASE d.tmpl          -> ""
      [] d.type = ""     -> ParamNext[d.params]
      [] d.glue = "name" -> d.mark
      [] OTHER           -> ""

(* The shape heuristics of implement_function on the unformatted text. *)
FallbackType(d) ==
    LET t0 == FirstItem(d)
        t1 == IF t0[1] \in Containers THEN <<"std::map", "">> ELSE t0
        t2 == IF t1[2] = "*" \/ NextStarts(d) = "*" \/ t1[1] \in Owning
              THEN <<"Ptr", "">> ELSE t1
    IN  IF NextStarts(d) = "&" THEN <<t2[1], "&">> ELSE t2

(* The one constructor with an initialiser prologue (func.strip() ==). *)
HasPrologue(d) ==
    /\ d.type = "" /\ d.cls = "OpImplRegister" /\ ~d.tmpl
    /\ d.params = "(const ge::char_t *op_type)"

StubKey(d) ==
    LET r == GetReturnStatements(d)
    IN  IF r # "" THEN r ELSE FirstIn(<<Key(FallbackType(d), "", "")>>)

Init == decl \in Decls /\ prologue = FALSE /\ body = "" /\ pc = "start"

ImplementFunction ==
    /\ pc = "start"
    /\ prologue' = HasPrologue(decl)
    /\ body' = StubKey(decl)
    /\ pc' = "done"
    /\ UNCHANGED decl

Next == ImplementFunction
Spec == Init /\ [][Next]_vars

-----------------------------------------------------------------------------
TypeOK ==
    /\ decl \in DeclSpace
    /\ prologue \in BOOLEAN
    /\ body \in {ReturnStatements[k] : k \in DOMAIN ReturnStatements} \cup {""}
    /\ pc \in {"start", "done"}

(* The lookup spec.md 4.5 describes, on the declared return type whatever *)
(* the layout: the three layers, then container -> "std::map", pointer or  *)
(* owning wrapper -> "Ptr", a reference -> the '&' variant; a constructor *)
(* has no return type and gets an empty body.                             *)
PolicyKey(d) ==
    IF d.type = "" THEN ""
    ELSE LET r  == <<d.type, d.mark>>
             b1 == IF d.type \in Containers THEN "std::map" ELSE d.type
             b2 == IF d.mark = "*" \/ d.type \in Owning THEN "Ptr" ELSE b1
             m  == IF d.mark = "&" THEN "&" ELSE ""
         IN  FirstIn(<<Key(r, d.cls, d.fn), Key(r, d.cls, ""), Key(r, "", ""),
                       TKey(b2, m)>>)

(* implement_function picks the body the layered lookup of the            *)
(* specification picks for the declaration's return type, qualified name *)
(* and method (get_return_statements, then the shape heuristics).         *)
BodyFollowsPolicy == pc = "done" => body = PolicyKey(decl)

=============================================================================
