----------------------------- MODULE MCStubGen -----------------------------
(* The register tree of MCRegisterTree with a content for every selected header. *)
(* op_tiling_info.h is read either well formed or with a blank line after *)
(* its #endif, on which the scanner raises IndexError (line 342); two     *)
(* other headers have two well-formed contents each.                       *)
EXTENDS StubGen, MCRegisterTree

LOCAL HL == INSTANCE MCHeaderLines WITH pc <- hpc, Inputs <- {}

(* namespace ge { Status F(); } *)
RegisterH == <<HL!NsOpen, HL!Decl("F"), HL!Close, HL!Endif>>
(* class A { int F() { return G(x); } Status F(int a); }; *)
OpDefH == <<HL!ClassOpen("A"), HL!InlineOpen("F"), HL!Stmt, HL!Close,
            HL!Decl("F"), HL!Close, HL!Endif>>
(* a comment and the same declaration twice *)
FactoryH == <<HL!Comment, HL!Decl("F"), HL!Decl("F"), HL!Endif>>
(* a comment above a function template *)
FactoryTmplH == <<HL!Comment, HL!TmplLine, HL!Decl("F"), HL!Endif>>
TilingH == <<HL!Decl("F"), HL!Endif>>
TilingBlankH == <<HL!Decl("F"), HL!Endif, HL!Blank>>
(* #define, then class A { Status F(int a); }; *)
TilingDefH == <<HL!Define, HL!ClassOpen("A"), HL!Decl("F"), HL!Close, HL!Endif>>
(* the same class with a pure virtual member first *)
TilingDefPureH == <<HL!Define, HL!ClassOpen("A"), HL!PureVirt("F"), HL!Decl("F"),
                   HL!Close, HL!Endif>>
(* Status F(int a,\n int b); *)
TilingRegH == <<HL!DeclOpen("F"), HL!DeclClose, HL!Endif>>

MCContent ==
    [f \in BaseTree |->
        CASE f.base.name = "register.h"           -> {RegisterH}
          [] f.base.name = "op_def.h"             -> {OpDefH}
          [] f.base.name = "op_def_factory.h"     -> {FactoryH, FactoryTmplH}
          [] f.base.name = "op_tiling_info.h"     -> {TilingH, TilingBlankH}
          [] f.base.name = "tilingdata_base.h"    -> {TilingDefH, TilingDefPureH}
          [] f.base.name = "op_tiling_registry.h" -> {TilingRegH}
          [] OTHER                                -> {<<>>}]
=============================================================================
