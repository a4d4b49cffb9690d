------------------------------- MODULE MCH2CC -------------------------------
(***************************************************************************)
(* Model-checking harness for H2CC on well-formed headers.  A small        *)
(* grammar generates every header of up to MaxLines lines built from the   *)
(* enabled Shapes, each together with the stubs the specification says it *)
(* must produce (spec.md 4.2-4.6): one per declaration at namespace or     *)
(* class scope, qualified by the enclosing class chain, none for pure      *)
(* virtual, defaulted, inline-bodied or repeated declarations.  Every file *)
(* ends with FileEnd (a header ends with its include guard's #endif).         *)
(***************************************************************************)
EXTENDS MCHeaderLines

CONSTANTS
    Decls,      \* function names
    Classes,    \* class names
    Shapes,     \* the declaration shapes the grammar may use
    MaxLines,   \* bound on the lines before FileEnd
    FileEnd     \* the lines every file ends with

VARIABLE expected   \* the stub keys the specification asks for

(* Scopes of the grammar: the file, a namespace, or a class with the chain *)
(* of enclosing classes.                                                   *)
FileCtx == [scope |-> "file", chain |-> <<>>]
Inner(ctx, scope, c) ==
    [scope |-> scope,
     chain |-> IF scope = "class" THEN Append(ctx.chain, c) ELSE ctx.chain]

(* The stub the specification asks for a declaration: a friend is a free   *)
(* function, anything else in a class is qualified by the class chain.     *)
Want(ctx, t, d, pre) == [cls |-> ctx.chain, tmpl |-> t, d |-> d, pre |-> pre]
WantFree(t, d, pre) == [cls |-> <<>>, tmpl |-> t, d |-> d, pre |-> pre]

(* Items of one or a few lines that open no scope: [s: shape, ls: lines,   *)
(* e: the stubs wanted].                                                   *)
Simple(ctx) ==
    {[s |-> "blank", ls |-> <<Blank>>, e |-> {}],
     [s |-> "comment", ls |-> <<Comment>>, e |-> {}],
     [s |-> "cmtblock", ls |-> <<CmtOpen, CmtClose>>, e |-> {}],
     [s |-> "define", ls |-> <<Define>>, e |-> {}]}
    \cup {[s |-> "decl", ls |-> <<Decl(d)>>,
           e |-> {Want(ctx, FALSE, <<d>>, NoName)}] : d \in Decls}
    \cup {[s |-> "tdecl", ls |-> <<TmplLine, Decl(d)>>,
           e |-> {Want(ctx, TRUE, <<d>>, NoName)}] : d \in Decls}
    \cup {[s |-> "mdecl", ls |-> <<DeclOpen(d), DeclClose>>,
           e |-> {Want(ctx, FALSE, <<d, "p">>, NoName)}] : d \in Decls}
    \cup {[s |-> "fnobj", ls |-> <<DeclOpen(d), FnObjParam, DeclClose>>,
           e |-> {Want(ctx, FALSE, <<d, "fp", "p">>, NoName)}] : d \in Decls}
    \cup {[s |-> "retline", ls |-> <<RetLine, Decl(d)>>,
           e |-> {Want(ctx, FALSE, <<d>>, "R")}] : d \in Decls}
    \cup {[s |-> "default", ls |-> <<Defaulted(d)>>, e |-> {}] : d \in Decls}
    \cup {[s |-> "inline", ls |-> <<InlineOne(d)>>, e |-> {}] : d \in Decls}
    \cup {[s |-> "body", ls |-> <<InlineOpen(d), Stmt, Close>>, e |-> {}]
            : d \in Decls}
    \cup (IF ctx.scope # "class" THEN {} ELSE
            {[s |-> "pure", ls |-> <<PureVirt(d)>>, e |-> {}] : d \in Decls}
            \cup {[s |-> "friend", ls |-> <<FriendDecl(d)>>,
                   e |-> {WantFree(FALSE, <<d>>, NoName)}] : d \in Decls})

(* A namespace body that starts with another namespace opener is the       *)
(* shape "nsnested".                                                       *)
NsBodyOK(ls) == "nsnested" \in Shapes \/ ls = <<>> \/ ls[1] # NsOpen

RECURSIVE Block(_, _), Scoped(_, _)

(* Items of exactly k lines that open a namespace or a class scope.        *)
Scoped(k, ctx) ==
    LET nsOK == "ns" \in Shapes /\ ctx.scope # "class" /\ k >= 2
        clsOK == "class" \in Shapes /\ k >= 2
                 /\ (ctx.scope # "class" \/ "nested" \in Shapes)
        tclsOK == "tclass" \in Shapes /\ ctx.scope # "class" /\ k >= 3
    IN  (IF ~nsOK THEN {} ELSE
           {[s |-> "ns", ls |-> <<NsOpen>> \o b[1] \o <<Close>>, e |-> b[2]]
              : b \in {x \in Block(k - 2, Inner(ctx, "ns", NoName)) :
                         NsBodyOK(x[1])}})
        \cup (IF ~clsOK THEN {} ELSE
           UNION {{[s |-> "class", ls |-> <<ClassOpen(c)>> \o b[1] \o <<Close>>,
                    e |-> b[2]] : b \in Block(k - 2, Inner(ctx, "class", c))}
                  : c \in Classes})
        \cup (IF ~tclsOK THEN {} ELSE
           UNION {{[s |-> "tclass",
                    ls |-> <<TmplLine, ClassOpen(c)>> \o b[1] \o <<Close>>,
                    e |-> b[2]] : b \in Block(k - 3, Inner(ctx, "class", c))}
                  : c \in Classes})

(* All sequences of items of exactly n lines in ctx, as <<lines, wanted>>. *)
Block(n, ctx) ==
    IF n = 0 THEN {<<<<>>, {}>>}
    ELSE UNION {{<<it.ls \o b[1], it.e \cup b[2]>> :
                   it \in {x \in Simple(ctx) : x.s \in Shapes /\ Len(x.ls) = k}
                          \cup Scoped(k, ctx),
                   b \in Block(n - k, ctx)} : k \in 1 .. n}

Headers ==
    {[ls |-> b[1] \o FileEnd, e |-> b[2]] :
        b \in UNION {Block(n, FileCtx) : n \in 1 .. MaxLines}}

MCInputs == {h.ls : h \in Headers}

(* Configurations *)
GuardTail == <<Endif>>
BlankTail == <<Endif, Blank>>
CoreShapes == {"blank", "comment", "cmtblock", "define", "decl", "tdecl",
               "mdecl", "fnobj", "retline", "default", "inline", "body",
               "pure", "ns", "class"}
NsNestedShapes == {"decl", "ns", "nsnested"}
TClassShapes == {"decl", "tclass"}
FriendShapes == {"decl", "class", "friend"}
NsFriendShapes == NsNestedShapes \cup FriendShapes
EofShapes == {"decl", "comment", "ns"}
CommentShapes == {"decl", "comment", "cmtblock", "tdecl"}

MCInit == \E h \in Headers : InitWith(h.ls) /\ expected = h.e
MCNext == Next /\ UNCHANGED expected
MCSpec == MCInit /\ [][MCNext]_<<vars, expected>> /\ WF_<<vars, expected>>(MCNext)

-----------------------------------------------------------------------------
(* The keys of the stubs written, in output order. *)
StubKeys == LET fs == SelectSeq(out, LAMBDA o : o.kind = "func")
            IN  [i \in 1 .. Len(fs) |-> fs[i].key]

(* A scan of a well-formed header that ends writes exactly one stub for    *)
(* every declaration that needs one and none twice (spec.md 8: dedup,      *)
(* pure virtual, multi-line reassembly, qualification).                    *)
StubsExact ==
    pc = "done" => IsInjective(StubKeys) /\ ToSet(StubKeys) = expected

(* The comment spec.md 4.6 says is carried over to the stub of a         *)
(* declaration starting at line s: above s (and above a template line      *)
(* right before it), a /*...*/ block ending there, or the maximal run of   *)
(* // lines ending there; nothing above line 0.                            *)
ExpectedComment(s) ==
    LET k == IF s > 0 /\ "tmpl" \in L(s - 1).f THEN s - 2 ELSE s - 1
        opens == {j \in 0 .. k : "c2s" \in L(j).f}
        runs == {j \in 0 .. k : \A m \in j .. k : "cmt" \in L(m).f}
    IN  CASE k < 0 -> {}
          [] "c2e" \in L(k).f /\ opens # {} -> Max(opens) .. k
          [] runs # {} -> Min(runs) .. k
          [] OTHER -> {}

(* gen_comment copies exactly that comment above every stub written.      *)
CommentCarried ==
    \A i \in DOMAIN out : out[i].kind = "func" => out[i].cmt = ExpectedComment(out[i].at)

(* A well-formed header never makes the scanner raise (spec.md 7: only     *)
(* malformed scope nesting is fatal).                                      *)
NoException == pc \notin Exceptions

=============================================================================
