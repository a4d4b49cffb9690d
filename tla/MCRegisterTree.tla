--------------------------- MODULE MCRegisterTree ---------------------------
(* The register tree the driver runs walk: the white-listed headers spread *)
(* over the root and four subdirectories, with files collect_header_files *)
(* or the white list drop.                                                 *)
EXTENDS Sequences

Base(stem, ext, git) == [name |-> stem \o ext, stem |-> stem, ext |-> ext, git |-> git]
Readme    == Base("README", ".md", FALSE)
OpDef     == Base("op_def", ".h", FALSE)
Factory   == Base("op_def_factory", ".h", FALSE)
ImplReg   == Base("op_impl_register", ".h", FALSE)   \* not on the white list
Tiling    == Base("op_tiling_info", ".h", FALSE)
Register  == Base("register", ".h", FALSE)
GitStub   == Base("tilingdata_base", ".h.git", TRUE)
TilingDef == Base("tilingdata_base", ".h", FALSE)
TilingReg == Base("op_tiling_registry", ".h", FALSE)

(* Base names in the order files.sort() puts them. *)
MCRank == [n \in {"README.md", "op_def.h", "op_def_factory.h", "op_impl_register.h",
                  "op_tiling_info.h", "op_tiling_registry.h", "register.h", "tilingdata_base.h",
                  "tilingdata_base.h.git"} |->
             CASE n = "README.md" -> 1 [] n = "op_def.h" -> 2
               [] n = "op_def_factory.h" -> 3 [] n = "op_impl_register.h" -> 4
               [] n = "op_tiling_info.h" -> 5 [] n = "op_tiling_registry.h" -> 6
               [] n = "register.h" -> 7 [] n = "tilingdata_base.h" -> 8
               [] n = "tilingdata_base.h.git" -> 9]

MCRoot == "register"
MCDirs == {"register/a", "register/b", "register/c", "register/d"}
F(d, b) == [dir |-> d, base |-> b]

BaseTree ==
    {F("register", Register), F("register", OpDef), F("register", Readme),
     F("register/a", ImplReg), F("register/a", Factory),
     F("register/b", Tiling), F("register/b", GitStub),
     F("register/c", TilingDef), F("register/d", TilingReg)}
TilingFails == {F("register/b", Tiling)}
RegisterFails == {F("register", Register)}
=============================================================================
