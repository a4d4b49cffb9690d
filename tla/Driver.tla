------------------------------- MODULE Driver -------------------------------
(***************************************************************************)
(* The driver of gen_stubapi.py: main -> gen_code -> generate_stub_file,   *)
(* which walks inc_dir/register with collect_header_files, keeps the       *)
(* headers file_endswith_white_list_suffix accepts, and for each one       *)
(* constructs an H2CC (opening stub_<name>.cc for writing) and runs h2cc.  *)
(* H2CC.__del__ appends a fixed footer to stub_register.cc and closes the  *)
(* files; it runs when the object loses its last reference: when the loop *)
(* variable h_2_cc is rebound to the next object, when generate_stub_file *)
(* returns, or, after an exception, at interpreter shutdown if at all.     *)
(*                                                                         *)
(* A header is abstracted to its directory and base name; what h2cc does  *)
(* with its lines is the H2CC module, here reduced to its outcome: h2cc   *)
(* returns, or, for a header in Fails, it may end in an exception.       *)
(***************************************************************************)
EXTENDS Naturals, Sequences, SequencesExt

CONSTANTS
    Root,     \* inc_dir + "register", the directory os.walk starts from
    Dirs,     \* its subdirectories
    Tree,     \* the files: [dir, base], base = [name, stem, ext, git]
    Rank,     \* Rank[name]: the position of a base name in sorted order
    Fails     \* the headers whose h2cc may raise

ASSUME Fails \subseteq Tree

(* white_list_for_debug; DEBUG is True. *)
WhiteListForDebug ==
    {"op_def.h", "op_def_factory.h", "op_impl_registry.h", "op_tiling_info.h",
     "op_tiling_registry.h", "register.h", "tilingdata_base.h",
     "tuning_bank_key_registry.h", "tuning_tiling_registry.h"}
DEBUG == TRUE

(* Mutant: the white-list test dropped. *)
FileEndswithAnySuffix(f) == TRUE

(* file.endswith('/' + suffix): the path always has a '/' before the base *)
(* name, so this is equality of the base name with a list entry.          *)
FileEndswithWhiteListSuffix(f) == DEBUG => f.base.name \in WhiteListForDebug

(* re.sub(r'([^/]+)\.h$', r'stub_\1.cc') on the base name. *)
OutName(f) == "stub_" \o f.base.stem \o ".cc"
(* Mutant: the footer test matching every output. *)
IsStubAny(out) == TRUE
IsStubRegister(out) == out = "stub_register.cc"

(* '#include "<path>"' for a header, the path taken from the last '/' of *)
(* inc_dir + "register" on: its directory below inc_dir and its name.      *)
Include(f) == f.dir \o "/" \o f.base.name
(* The lines appended "for acl error code" after the walk. *)
FixedIncludes == <<"register/kernel_register_data.h", "register/opdef/op_def_impl.h",
                   "register/op_impl_register_v2_impl.h", "<iostream>">>
(* shared_includes_content: one include per collected header, in the     *)
(* order of the walk, then the fixed ones.                                *)
Includes(hs) == [i \in DOMAIN hs |-> Include(hs[i])] \o FixedIncludes

(* The files of one directory collect_header_files keeps, in sorted order: *)
(* no "git" in the name, ".h" extension.                                  *)
Collected(d) ==
    SetToSortSeq({f \in Tree : f.dir = d /\ ~f.base.git /\ f.base.ext = ".h"},
                 LAMBDA a, b : Rank[a.base.name] < Rank[b.base.name])

(* os.walk visits Root first and its subdirectories in listing order,     *)
(* which the program does not fix (only files.sort()).                    *)
WalkOrders ==
    {Collected(Root) \o FlattenSeq([i \in 1 .. Len(p) |-> Collected(p[i])])
        : p \in SetToSeqs(Dirs)}

VARIABLES
    headers,  \* target_header_files
    pos,      \* the loop's position in headers
    objs,     \* the H2CC objects constructed: [hdr, out, inc, open, done, footer]
    live,     \* the index in objs of the object h_2_cc refers to, 0 if none
    pc
vars == <<headers, pos, objs, live, pc>>

Objects == [hdr : Tree, out : STRING, inc : Seq(STRING), open : BOOLEAN,
            done : BOOLEAN, footer : Nat]

(* H2CC.__del__ on object i: the footer if its output is stub_register.cc, *)
(* then both files closed.                                                *)
Release(o, i) ==
    IF i = 0 THEN o
    ELSE [o EXCEPT ![i].footer = @ + (IF IsStubRegister(o[i].out) THEN 1 ELSE 0),
                   ![i].open = FALSE]

Init ==
    /\ headers = <<>> /\ pos = 1 /\ objs = <<>> /\ live = 0
    /\ pc = "main"

(* The lengths sys.argv may have: the script name and its arguments. *)
ArgCounts == 1 .. 4

(* main: with other than two arguments it logs an error and returns;      *)
(* otherwise gen_code walks inc_dir + "register".                         *)
Main ==
    /\ pc = "main"
    /\ \E argc \in ArgCounts : pc' = IF argc = 3 THEN "collect" ELSE "usage"
    /\ UNCHANGED <<headers, pos, objs, live>>

(* collect_header_files(inc_dir + "register"): the header list; the      *)
(* include list is Includes(headers).                                     *)
CollectHeaderFiles ==
    /\ pc = "collect"
    /\ \E w \in WalkOrders : headers' = w
    /\ pc' = "loop"
    /\ UNCHANGED <<pos, objs, live>>

(* A header not on the white list is skipped. *)
SkipHeader ==
    /\ pc = "loop" /\ pos <= Len(headers)
    /\ ~FileEndswithWhiteListSuffix(headers[pos])
    /\ pos' = pos + 1
    /\ UNCHANGED <<headers, objs, live, pc>>

(* Mutant: h_2_cc bound one past the object just appended. *)
ConstructH2CCOffByOne ==
    /\ pc = "loop" /\ pos <= Len(headers)
    /\ FileEndswithWhiteListSuffix(headers[pos])
    /\ objs' = Append(Release(objs, live),
                      [hdr |-> headers[pos], out |-> OutName(headers[pos]),
                       inc |-> Includes(headers),
                       open |-> TRUE, done |-> FALSE, footer |-> 0])
    /\ live' = Len(objs) + 2
    /\ pc' = "convert"
    /\ UNCHANGED <<headers, pos>>

(* h_2_cc = H2CC(...): the new object opens its output for writing, then  *)
(* the rebinding drops the previous object, whose __del__ runs.  inc is   *)
(* what the stub file begins with: write_inc_content, the first thing     *)
(* h2cc() does, copies shared_includes_content.                           *)
ConstructH2CC ==
    /\ pc = "loop" /\ pos <= Len(headers)
    /\ FileEndswithWhiteListSuffix(headers[pos])
    /\ objs' = Append(Release(objs, live),
                      [hdr |-> headers[pos], out |-> OutName(headers[pos]),
                       inc |-> Includes(headers),
                       open |-> TRUE, done |-> FALSE, footer |-> 0])
    /\ live' = Len(objs) + 1
    /\ pc' = "convert"
    /\ UNCHANGED <<headers, pos>>

(* h_2_cc.h2cc() returns. *)
H2ccDone ==
    /\ pc = "convert"
    /\ objs' = [objs EXCEPT ![live].done = TRUE]
    /\ pos' = pos + 1
    /\ pc' = "loop"
    /\ UNCHANGED <<headers, live>>

(* h_2_cc.h2cc() raises: nothing catches it, the program stops. *)
H2ccRaises ==
    /\ pc = "convert" /\ headers[pos] \in Fails
    /\ pc' = "aborted"
    /\ UNCHANGED <<headers, pos, objs, live>>

(* generate_stub_file returns, dropping h_2_cc; gen_code has one keyword  *)
(* and main returns.                                                      *)
GenerateStubFileReturns ==
    /\ pc = "loop" /\ pos > Len(headers)
    /\ objs' = Release(objs, live)
    /\ live' = 0
    /\ pc' = "done"
    /\ UNCHANGED <<headers, pos>>

(* Interpreter shutdown after the traceback: the object the failing frame *)
(* still refers to is finalised, or not.                                  *)
ShutdownFinalises ==
    /\ pc = "aborted"
    /\ objs' = Release(objs, live)
    /\ live' = 0
    /\ pc' = "exited"
    /\ UNCHANGED <<headers, pos>>
ShutdownSkipsDel ==
    /\ pc = "aborted"
    /\ pc' = "exited"
    /\ UNCHANGED <<headers, pos, objs, live>>

Next ==
    \/ Main \/ CollectHeaderFiles \/ SkipHeader \/ ConstructH2CC
    \/ H2ccDone \/ H2ccRaises \/ GenerateStubFileReturns
    \/ ShutdownFinalises \/ ShutdownSkipsDel

Spec == Init /\ [][Next]_vars /\ WF_vars(Next)

-----------------------------------------------------------------------------
TypeOK ==
    /\ headers \in Seq(Tree)
    /\ pos \in 1 .. Len(headers) + 1
    /\ objs \in Seq(Objects)
    /\ live \in 0 .. Len(objs)
    /\ pc \in {"main", "usage", "collect", "loop", "convert", "aborted", "done",
                "exited"}

(* The headers spec.md 6 selects: ".h" files on the allow-list. *)
Selected == {f \in Tree : f.base.ext = ".h" /\ f.base.name \in WhiteListForDebug}

(* When the run ends normally, every selected header has exactly one stub  *)
(* file, complete and closed, and the footer is in stub_register.cc once   *)
(* and nowhere else (generate_stub_file, H2CC.__del__).                    *)
AllConverted ==
    pc = "done" =>
        /\ {objs[i].hdr : i \in DOMAIN objs} = Selected
        /\ IsInjective([i \in DOMAIN objs |-> objs[i].hdr])
        /\ \A i \in DOMAIN objs :
              /\ objs[i].done /\ ~objs[i].open
              /\ objs[i].footer = IF IsStubRegister(objs[i].out) THEN 1 ELSE 0

OthersConverted ==
    pc \in {"done", "exited"} =>
        \A f \in Selected \ Fails : \E i \in DOMAIN objs : objs[i].hdr = f /\ objs[i].done

=============================================================================
