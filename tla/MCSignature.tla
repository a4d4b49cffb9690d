---------------------------- MODULE MCSignature ----------------------------
(***************************************************************************)
(* Declarations for the Signature runs, as they reach the handlers: after  *)
(* handle_func1 (pattern_func.subn keeps the text up to ')' and a final   *)
(* newline, the lines of a multi-line declaration joined with theirs) and  *)
(* pattern_keyword.sub.  "int f(int a = 1, ...)" is <<w sp w ( w sp w sp  *)
(* = sp w , sp ...) nl>>.  Each comes with the line spec.md 4.4 asks for: *)
(* every "= expression" before a ',' or ')' removed, names and types kept, *)
(* a member qualified by its class, the preamble's defaults stripped the  *)
(* same way.                                                              *)
(***************************************************************************)
EXTENDS Signature
LOCAL INSTANCE SequencesExt

CONSTANTS
    MaxParams,   \* parameters of a declaration
    Defaults,    \* the default-argument forms used
    MaxTParams   \* parameters of a template preamble

(* The default-argument forms: " = 1", "=1", " = 0", " = 0.5f", " = T()", *)
(* " = std::make_pair(1, 2)".                                             *)
DefaultToks ==
    [none  |-> <<>>,
     sp    |-> <<"sp", "=", "sp", "w">>,
     tight |-> <<"=", "w">>,
     zero  |-> <<"sp", "=", "sp", "0">>,
     zerolit |-> <<"sp", "=", "sp", "0", "r">>,
     call  |-> <<"sp", "=", "sp", "w", "(", ")">>,
     pair  |-> <<"sp", "=", "sp", "w", "(", "w", ",", "sp", "w", ")">>]

(* "int a" or "class T" followed by its default, or by nothing. *)
Param(d, keep) == <<"w", "sp", "w">> \o (IF keep THEN DefaultToks[d] ELSE <<>>)

(* Parameters joined by ", ", or by ",\n  " after the i-th if i \in brk. *)
Sep(i, n, brk) == CASE i = n   -> <<>>
                    [] i \in brk -> <<",", "nl", "sp">>
                    [] OTHER    -> <<",", "sp">>
Joined(ds, brk, keep) ==
    FlattenSeq([i \in DOMAIN ds |-> Param(ds[i], keep) \o Sep(i, Len(ds), brk)])

(* Default forms as C++ allows them: once a parameter has a default, all *)
(* after it have one.                                                     *)
DefaultLists(n, forms) ==
    {ds \in [1 .. n -> {"none"} \cup forms] :
        \A i \in 1 .. n : ds[i] # "none" => \A j \in i .. n : ds[j] # "none"}

Line(ds, brk, keep) == <<"w", "sp", "w", "(">> \o Joined(ds, brk, keep) \o <<")", "nl">>
Preamble(ts, keep) == <<"w", "<">> \o Joined(ts, {}, keep) \o <<">", "nl">>

(* A declaration: ds its parameters' defaults, brk where the line breaks, *)
(* ts the template parameters' defaults (<<>>: no preamble), member.      *)
Decl(ds, brk, ts, member) ==
    LET pre(keep) == IF ts = <<>> THEN <<>> ELSE Preamble(ts, keep)
        want == Line(ds, brk, FALSE)
    IN  [line   |-> Line(ds, brk, TRUE),
         tmpl   |-> pre(TRUE),
         member |-> member,
         want   |-> pre(FALSE) \o (IF member THEN Qualify(want) ELSE want)]

MCDecls ==
    {Decl(ds, brk, ts, m) :
        ds \in UNION {DefaultLists(n, Defaults) : n \in 1 .. MaxParams},
        brk \in SUBSET (1 .. MaxParams - 1),
        ts \in UNION {DefaultLists(n, {"sp", "call"}) : n \in 0 .. MaxTParams},
        m \in BOOLEAN}

-----------------------------------------------------------------------------
(* The normalised line keeps every parameter's type and name and loses     *)
(* every default argument, of the parameters and of the template preamble *)
(* (spec.md 4.4; the comment at line 568 gives '<class T, class U>' for    *)
(* '< class T = a, class U = A(3)>').                                     *)
DefaultsStripped == pc = "done" => Words(line) = Words(decl.want)

=============================================================================
