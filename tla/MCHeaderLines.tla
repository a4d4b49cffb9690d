---------------------------- MODULE MCHeaderLines ----------------------------
(***************************************************************************)
(* The header lines the harnesses build files from: each is the set of    *)
(* the scanner's regular expressions a real line of that kind matches,     *)
(* shown next to it by an example in C++.                                   *)
(***************************************************************************)
EXTENDS H2CC

(* Concrete lines, with an example of each in C++.                        *)
Blank        == [f |-> {"blank"}, n |-> NoName]
Comment      == [f |-> {"cmt"}, n |-> NoName]                   \* // text
CmtOpen      == [f |-> {"c2s"}, n |-> NoName]                   \* /**
CmtClose     == [f |-> {"c2e"}, n |-> NoName]                   \*  */
Define       == [f |-> {"def"}, n |-> NoName]                   \* #define X 1
Endif        == [f |-> {}, n |-> NoName]                        \* #endif  // X_H
NsOpen       == [f |-> {"ns", "lb", "id"}, n |-> NoName]        \* namespace ge {
Close        == [f |-> {"rb"}, n |-> NoName]                    \* }  or  };
TmplLine     == [f |-> {"tmpl", "gt", "id"}, n |-> NoName]      \* template <typename T>
ClassOpen(c) == [f |-> {"cls", "lb", "id"}, n |-> c]            \* class A {
Decl(d)      == [f |-> {"id", "lp", "rp", "semi"}, n |-> d]     \* Status F(int a);
DeclOpen(d)  == [f |-> {"id", "lp"}, n |-> d]                   \* Status F(int a,
FnObjParam   == [f |-> {"id", "lp", "rp", "fnobj"}, n |-> "fp"] \*   const std::function<void()> &input,
DeclClose    == [f |-> {"id", "rp", "semi"}, n |-> "p"]         \*   int b);
RetLine      == [f |-> {"id", "bare"}, n |-> "R"]               \* Status
Defaulted(d) == [f |-> {"id", "lp", "rp", "semi", "nogen"}, n |-> d] \* F() = default;
InlineOne(d) == [f |-> {"id", "lp", "rp", "lb", "rb"}, n |-> d] \* int F() { return 0; }
InlineOpen(d) == [f |-> {"id", "lp", "rp", "lb"}, n |-> d]      \* int F() {
Stmt         == [f |-> {"id", "lp", "rp", "semi"}, n |-> "stmt"] \*   return G(x);
PureVirt(d)  == [f |-> {"id", "lp", "rp", "semi", "virt", "pure"}, n |-> d]
                                                    \* virtual Status F(int a) = 0;
FriendDecl(d) == [f |-> {"id", "lp", "rp", "semi", "friend"}, n |-> d]
                                    \* friend bool F(const A &a);

(* Lines that only malformed or unusual headers put where the scanner     *)
(* reads them.                                                              *)
OpenNoId     == [f |-> {"lp"}, n |-> "F"]                       \* *F(int a,
MidParam     == [f |-> {"id"}, n |-> "p"]                       \*   int b,
ClassHead(c) == [f |-> {"cls", "id"}, n |-> c]                  \* class A : public B
LBrace       == [f |-> {"lb"}, n |-> NoName]                    \* {
TmplOpen     == [f |-> {"tmpl", "id"}, n |-> NoName]            \* template <typename T,
MacroCall    == [f |-> {"id", "lp", "rp"}, n |-> NoName]        \* GE_DEFINE_OP(x)

=============================================================================
