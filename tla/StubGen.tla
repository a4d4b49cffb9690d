------------------------------ MODULE StubGen ------------------------------
(***************************************************************************)
(* gen_stubapi.py as a whole: the driver of generate_stub_file running the *)
(* H2CC scanner on the header each object was constructed for.  Driver    *)
(* and H2CC are instantiated over the variables of this module; the       *)
(* driver's variables keep their names, the scanner's pc is hpc.  Between *)
(* ConstructH2CC and the end of h_2_cc.h2cc() the scanner steps through    *)
(* the header's lines; whether h2cc returns or raises is what the scanner *)
(* reaches on those lines, no longer a free choice.                       *)
(*                                                                         *)
(* The content of a header is one of a small set of line sequences,        *)
(* picked when the object reads its file in __init__.                     *)
(***************************************************************************)
EXTENDS Naturals, Sequences

CONSTANTS
    Root, Dirs, Tree, Rank,  \* the register tree, as in Driver
    Names, NoName,           \* the names lines carry, as in H2CC
    Content,                 \* Content[f]: the line sequences file f may hold
    MayRaise                 \* the headers the driver may see fail

ASSUME \A f \in Tree : Content[f] # {}

VARIABLES
    headers, pos, objs, live, pc,                          \* Driver
    input, idx, hpc, stack, stackClass, stackTemplate,     \* H2CC of h_2_cc
    templateString, startI, out, funcList
dvars == <<headers, pos, objs, live, pc>>
hvars == <<input, idx, hpc, stack, stackClass, stackTemplate, templateString,
           startI, out, funcList>>
vars == <<dvars, hvars>>

(* The driver, with every header allowed to fail: the scanner decides.    *)
D == INSTANCE Driver WITH Fails <- Tree
(* The scanner of the object h_2_cc refers to. *)
H == INSTANCE H2CC WITH pc <- hpc, Inputs <- UNION {Content[f] : f \in Tree}

(* H2CC.__init__ on the lines read from the header: line_index 0, empty  *)
(* stacks and function list, nothing written yet.                         *)
Opened(lines) ==
    /\ input' = lines /\ idx' = 0 /\ hpc' = "loop"
    /\ stack' = <<>> /\ stackClass' = <<>> /\ stackTemplate' = <<>>
    /\ templateString' = FALSE /\ startI' = 0 /\ out' = <<>> /\ funcList' = <<>>

Init == D!Init /\ H!InitWith(<<>>)

Main == D!Main /\ UNCHANGED hvars
CollectHeaderFiles == D!CollectHeaderFiles /\ UNCHANGED hvars
SkipHeader == D!SkipHeader /\ UNCHANGED hvars

(* H2CC(header_file, ...): __init__ reads the header (readlines) and      *)
(* starts a scanner on it.                                                *)
ConstructH2CC ==
    /\ D!ConstructH2CC
    /\ \E lines \in Content[headers[pos]] : Opened(lines)

(* One call of the loop body of h2cc(). *)
Scan == pc = "convert" /\ H!Next /\ UNCHANGED dvars

(* h2cc() returns once its loop ends, raises once the scanner raised. *)
H2ccDone == D!H2ccDone /\ hpc = "done" /\ UNCHANGED hvars
H2ccRaises == D!H2ccRaises /\ hpc \in H!Exceptions /\ UNCHANGED hvars

GenerateStubFileReturns == D!GenerateStubFileReturns /\ UNCHANGED hvars
ShutdownFinalises == D!ShutdownFinalises /\ UNCHANGED hvars
ShutdownSkipsDel == D!ShutdownSkipsDel /\ UNCHANGED hvars

Next ==
    \/ Main \/ CollectHeaderFiles \/ SkipHeader \/ ConstructH2CC \/ Scan
    \/ H2ccDone \/ H2ccRaises \/ GenerateStubFileReturns
    \/ ShutdownFinalises \/ ShutdownSkipsDel

(* One sequential program: an enabled step is eventually taken. *)
Spec == Init /\ [][Next]_vars /\ WF_vars(Next)

-----------------------------------------------------------------------------
TypeOK == D!TypeOK /\ H!TypeOK

(* Run to the end, the driver has converted every selected header exactly *)
(* once, completely, and written the footer to stub_register.cc once.     *)
AllConverted == D!AllConverted

(* The composition implements the driver whose h2cc fails only on the     *)
(* headers in MayRaise: the scanner never raises on the others.           *)
Abstract == INSTANCE Driver WITH Fails <- MayRaise
DriverRefinement == Abstract!Spec

=============================================================================
