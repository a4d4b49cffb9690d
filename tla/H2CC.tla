-------------------------------- MODULE H2CC --------------------------------
(***************************************************************************)
(* The header scanner of src/register/stub/gen_stubapi.py: class H2CC and  *)
(* its driver loop h2cc().  One input header is a sequence of lines; the   *)
(* scanner keeps a line index, three parallel stacks (stack, stack_class,  *)
(* stack_template), the list of function keys already written and the     *)
(* output it has produced.  Each pass of the while loop of h2cc() calls    *)
(* just_skip, handle_namespace, handle_template, handle_class,             *)
(* handle_stack, handle_func1 and finally writes a stub; every one of      *)
(* those calls is one action here, sequenced by pc in the loop's order.    *)
(*                                                                         *)
(* A line is abstracted to the set of the code's regular expressions it    *)
(* matches (its "features") and a name (the identifier a class opener or a *)
(* declaration line carries).  Python indexes the list of lines from 0 and *)
(* raises IndexError on a read past the end; a negative index counts from  *)
(* the end.  An uncaught exception stops the scanner: pc then names it.    *)
(***************************************************************************)
EXTENDS Naturals, Sequences, SequencesExt, FiniteSets

CONSTANTS
    Names,      \* identifiers carried by lines (class, function, parameter names)
    NoName,     \* the name of a line that carries none
    Inputs      \* the header files the scanner may be given

(* The regular expressions of lines 212-256 a line can match:              *)
(*  blank  pattern_blank_line       cmt   pattern_comment (//)             *)
(*  c2s    pattern_comment_2_start  c2e   pattern_comment_2_end            *)
(*  def    pattern_define           bs    pattern_define_return (\ at end) *)
(*  virt   pattern_virtual_func     ns    pattern_namespace                *)
(*  tmpl   pattern_template         gt    pattern_template_end             *)
(*  cls    pattern_class            lb/rb pattern_start / pattern_end      *)
(*  lp/rp  '[(]' / '[)]'            fnobj 'std::function<.+?> &input,'     *)
(*  id     starts with [a-zA-Z~_] (pattern_leading_space)                  *)
(*  semi   a ')' later followed by ';' with no '{' after it (pattern_func) *)
(*  friend 'friend ' (pattern_keyword)   nogen  need_generate_func false   *)
(*  bare   a lone identifier (line 472)  pure   '= 0' (line 605)           *)
Features == {"blank", "cmt", "c2s", "c2e", "def", "bs", "virt", "ns", "tmpl",
             "gt", "cls", "lb", "rb", "lp", "rp", "fnobj", "id", "semi",
             "friend", "nogen", "bare", "pure"}

Lines == [f : SUBSET Features, n : Names \cup {NoName}]

ASSUME Inputs \subseteq Seq(Lines)

(* The scope markers pushed on self.stack. *)
Frames == {"namespace_now", "class_now", "normal_now"}

(* The exceptions that end the scanner early, and the halted states. *)
Exceptions == {"IndexError", "NameError", "AttributeError"}
Halted == {"done"} \cup Exceptions

(* The key under which write_func_content deduplicates a stub (func_name): *)
(* the class qualification, whether a method template precedes it, the    *)
(* names on its lines, and a return type reattached from the line above.  *)
Keys == [cls : Seq(Names), tmpl : BOOLEAN, d : Seq(Names \cup {NoName}),
         pre : Names \cup {NoName}]

VARIABLES
    input,          \* self.input_content
    idx,            \* self.line_index
    pc,             \* the next call of the loop body, or how the scan ended
    stack,          \* self.stack
    stackClass,     \* self.stack_class
    stackTemplate,  \* self.stack_template (TRUE: a non-empty template string)
    templateString, \* the local template_string of the current pass
    startI,         \* the local start_i: first line of the current declaration
    out,            \* what has been written to self.output_fd
    funcList        \* self.func_list_exist

vars == <<input, idx, pc, stack, stackClass, stackTemplate, templateString,
          startI, out, funcList>>

N == Len(input)

(* self.input_content[i] for 0 <= i < N, and Python's wrap-around read    *)
(* for -N <= i < 0.                                                        *)
L(i) == input[i + 1]
PyLine(i) == IF i >= 0 THEN input[i + 1] ELSE input[N + i + 1]
Has(i, p) == p \in L(i).f

(* The first index at or after i whose line passes Test, N if none does.  *)
FirstAt(i, Test(_)) ==
    LET j == SelectInSubSeq(input, i + 1, N, Test) IN IF j = 0 THEN N ELSE j - 1

(* A read of line N raises IndexError; Fail stands for that outcome.       *)
Fail == -1

-----------------------------------------------------------------------------
(* Output records: a namespace line copied through, the closing brace of  *)
(* a namespace, and a stub with its first line and the line range of    *)
(* its copied comment.                                                    *)
OpenItem(i) == [kind |-> "open", line |-> i]
CloseItem(i) == [kind |-> "close", line |-> i]
StubItem(k, s, lo, hi) == [kind |-> "func", key |-> k, at |-> s, cmt |-> lo .. hi]

TypeOK ==
    /\ input \in Seq(Lines)
    /\ idx \in 0 .. N
    /\ pc \in {"loop", "skip", "namespace", "template", "class", "stack",
               "func1", "emit"} \cup Halted
    /\ stack \in Seq(Frames)
    /\ stackClass \in Seq(Names \cup {NoName})
    /\ stackTemplate \in Seq(BOOLEAN)
    /\ templateString \in BOOLEAN
    /\ startI \in 0 .. N
    /\ funcList \in Seq(Keys)
    /\ \A o \in ToSet(out) : o.kind \in {"open", "close", "func"}

-----------------------------------------------------------------------------
(* The loop test of h2cc(), line 368. *)
LoopTest ==
    /\ pc = "loop"
    /\ pc' = IF idx < N THEN "skip" ELSE "done"
    /\ UNCHANGED <<input, idx, stack, stackClass, stackTemplate,
                   templateString, startI, out, funcList>>

(* just_skip, lines 337-354: one blank or // line, then one /* */ block,  *)
(* then one #define with its continuation lines, then any run of pure     *)
(* virtual one-liners.  Each step reads the line it lands on.             *)
JustSkipEnd(i0) ==
    LET i1 == IF Has(i0, "blank") \/ Has(i0, "cmt") THEN i0 + 1 ELSE i0
        e2 == FirstAt(i1, LAMBDA l : "c2e" \in l.f)
        i2 == IF i1 >= N THEN Fail
              ELSE IF Has(i1, "c2s") THEN (IF e2 >= N THEN Fail ELSE e2 + 1)
              ELSE i1
        e3 == FirstAt(i2, LAMBDA l : l.f \cap {"blank", "bs"} = {})
        i3 == IF i2 = Fail \/ i2 >= N THEN Fail
              ELSE IF Has(i2, "def") THEN (IF e3 >= N THEN Fail ELSE e3 + 1)
              ELSE i2
        i4 == IF i3 = Fail \/ i3 >= N THEN Fail
              ELSE FirstAt(i3, LAMBDA l : "virt" \notin l.f)
    IN  IF i4 = Fail \/ i4 >= N THEN Fail ELSE i4

JustSkip ==
    /\ pc = "skip"
    /\ \/ /\ JustSkipEnd(idx) # Fail
          /\ idx' = JustSkipEnd(idx)
          /\ pc' = "namespace"
       \/ /\ JustSkipEnd(idx) = Fail
          /\ pc' = "IndexError"
          /\ UNCHANGED idx
    /\ UNCHANGED <<input, stack, stackClass, stackTemplate, templateString,
                   startI, out, funcList>>

(* handle_namespace, lines 555-561: a namespace opener is written through  *)
(* and pushed; the same pass goes on with the next line.                  *)
HandleNamespace ==
    /\ pc = "namespace"
    /\ \/ /\ Has(idx, "ns")
          /\ out' = Append(out, OpenItem(idx))
          /\ stack' = Append(stack, "namespace_now")
          /\ idx' = idx + 1
       \/ /\ ~Has(idx, "ns")
          /\ UNCHANGED <<out, stack, idx>>
    /\ pc' = "template"
    /\ UNCHANGED <<input, stackClass, stackTemplate, templateString, startI,
                   funcList>>

(* handle_template, lines 540-553: a template preamble is read up to the  *)
(* line ending in '>' and the scan goes on after it.                      *)
HandleTemplate ==
    /\ pc = "template"
    /\ \/ /\ idx >= N
          /\ pc' = "IndexError"
          /\ UNCHANGED <<idx, templateString>>
       \/ /\ idx < N
          /\ ~Has(idx, "tmpl")
          /\ templateString' = FALSE
          /\ pc' = "class"
          /\ UNCHANGED idx
       \/ /\ idx < N
          /\ Has(idx, "tmpl")
          /\ LET e == FirstAt(idx, LAMBDA l : "gt" \in l.f) IN
               \/ /\ e >= N
                  /\ pc' = "IndexError"
                  /\ UNCHANGED <<idx, templateString>>
               \/ /\ e < N
                  /\ idx' = e + 1
                  /\ templateString' = TRUE
                  /\ pc' = "class"
    /\ UNCHANGED <<input, stack, stackClass, stackTemplate, startI, out,
                   funcList>>

(* Mutant: the brace search starts on the line after the opener.         *)
ClassBraceAfterOpener(i) == FirstAt(i + 1, LAMBDA l : "lb" \in l.f)

(* Lines 533-536: the line holding the opening brace of a class whose     *)
(* opener is line i (match_start is first tested on line i itself).       *)
ClassBrace(i) == FirstAt(i, LAMBDA l : "lb" \in l.f)

(* Lines 378-387 and handle_class, lines 505-538: a class or struct opener *)
(* pushes class_now, its name and the template string read before it,     *)
(* then the scan skips to the line after its opening brace.               *)
HandleClass ==
    /\ pc = "class"
    /\ \/ /\ idx >= N
          /\ pc' = "IndexError"
          /\ UNCHANGED <<idx, stack, stackClass, stackTemplate>>
       \/ /\ idx < N
          /\ ~Has(idx, "cls")
          /\ pc' = "stack"
          /\ UNCHANGED <<idx, stack, stackClass, stackTemplate>>
       \/ /\ idx < N
          /\ Has(idx, "cls")
          /\ stackTemplate' = Append(stackTemplate, templateString)
          /\ stack' = Append(stack, "class_now")
          /\ stackClass' = Append(stackClass, L(idx).n)
          /\ LET b == ClassBrace(idx) IN
               \/ /\ b >= N
                  /\ pc' = "IndexError"
                  /\ UNCHANGED idx
               \/ /\ b < N
                  /\ idx' = b + 1
                  /\ pc' = "loop"
    /\ UNCHANGED <<input, templateString, startI, out, funcList>>

(* Mutant: the body test of line 500 never holds. *)
InBodyNever == stack # <<>> /\ FALSE

(* The top of self.stack is normal_now: inside a function body. *)
InBody == stack # <<>> /\ Last(stack) = "normal_now"

(* handle_stack, lines 480-503.  Its branches are separate actions:       *)
(* an opening brace pushes normal_now and a closing brace pops the top    *)
(* frame (both may happen on one line); a namespace frame's brace is      *)
(* written through, a class frame drops its name and template; any other  *)
(* line inside a normal_now frame is skipped; the rest goes on to         *)
(* handle_func1.                                                          *)
(* Mutant: an opening brace pushes the line's name instead of a marker.  *)
PushedNamed(i) == IF Has(i, "lb") THEN Append(stack, L(i).n) ELSE stack

Pushed(i) == IF Has(i, "lb") THEN Append(stack, "normal_now") ELSE stack

(* Line 491-492: only a namespace frame's closing brace is written out.   *)
ClosedOut(top, o, i) ==
    IF top = "namespace_now" THEN Append(o, CloseItem(i)) ELSE o

(* Mutant: stack_class and stack_template are never popped.              *)
ClassPoppedNever(top, s) == s

(* Lines 493-495: popping a class frame pops stack_class and              *)
(* stack_template as well.                                                *)
ClassPopped(top, s) == IF top = "class_now" THEN Front(s) ELSE s

(* '}' with nothing to pop: list.pop() raises IndexError (line 490). *)
StackPopEmpty ==
    /\ pc = "stack"
    /\ Has(idx, "rb")
    /\ Pushed(idx) = <<>>
    /\ pc' = "IndexError"
    /\ UNCHANGED <<input, idx, stack, stackClass, stackTemplate,
                   templateString, startI, out, funcList>>

StackClose ==
    /\ pc = "stack"
    /\ Has(idx, "rb")
    /\ Pushed(idx) # <<>>
    /\ LET top == Last(Pushed(idx)) IN
         /\ stack' = Front(Pushed(idx))
         /\ out' = ClosedOut(top, out, idx)
         /\ stackClass' = ClassPopped(top, stackClass)
         /\ stackTemplate' = ClassPopped(top, stackTemplate)
    /\ idx' = idx + 1
    /\ pc' = "loop"
    /\ UNCHANGED <<input, templateString, startI, funcList>>

StackOpen ==
    /\ pc = "stack"
    /\ ~Has(idx, "rb")
    /\ Has(idx, "lb")
    /\ stack' = Pushed(idx)
    /\ idx' = idx + 1
    /\ pc' = "loop"
    /\ UNCHANGED <<input, stackClass, stackTemplate, templateString, startI,
                   out, funcList>>

SkipBodyLine ==
    /\ pc = "stack"
    /\ ~Has(idx, "rb")
    /\ ~Has(idx, "lb")
    /\ InBody
    /\ idx' = idx + 1
    /\ pc' = "loop"
    /\ UNCHANGED <<input, stack, stackClass, stackTemplate, templateString,
                   startI, out, funcList>>

StackPass ==
    /\ pc = "stack"
    /\ ~Has(idx, "rb")
    /\ ~Has(idx, "lb")
    /\ ~InBody
    /\ pc' = "func1"
    /\ UNCHANGED <<input, idx, stack, stackClass, stackTemplate,
                   templateString, startI, out, funcList>>

HandleStack == StackPopEmpty \/ StackClose \/ StackOpen \/ SkipBodyLine \/ StackPass

(* line 454 calls space_match.group(1) with no match: AttributeError *)
NoGroup == -2

(* The last line of a declaration that starts at line s: handle_func1's    *)
(* continuation loop, lines 442-455, reads on until a line with ')' that   *)
(* is not a std::function parameter; it has no end-of-input guard.         *)
ClosingLine(s) ==
    LET c == FirstAt(s + 1, LAMBDA l : "rp" \in l.f /\ "fnobj" \notin l.f)
    IN  IF Has(s, "rp") THEN s
        ELSE IF s + 1 >= N THEN Fail
        ELSE IF c = s + 1 THEN c
        ELSE IF s + 2 >= N THEN Fail
        ELSE IF ~Has(s, "id") THEN NoGroup
        ELSE IF c >= N THEN Fail
        ELSE c

(* pattern_func.subn on the joined lines s..e (line 469): some line starts *)
(* with an identifier and a ')' is followed by ';' with no '{' after it.   *)
PatternFunc(s, e) == Has(e, "semi") /\ \E j \in s .. e : Has(j, "id")

(* handle_func1, lines 427-478: a line without '(' is passed over; a       *)
(* declaration is joined up to its closing line; one followed by '{' is an *)
(* inline body (pushed as normal_now unless closed on that line) and needs *)
(* no stub; one that pattern_func does not match is dropped.               *)
HandleFunc1 ==
    /\ pc = "func1"
    /\ \/ /\ ~Has(idx, "lp")
          /\ idx' = idx + 1
          /\ pc' = "loop"
          /\ UNCHANGED <<stack, startI>>
       \/ /\ Has(idx, "lp")
          /\ ClosingLine(idx) = Fail
          /\ pc' = "IndexError"
          /\ UNCHANGED <<idx, stack, startI>>
       \/ /\ Has(idx, "lp")
          /\ ClosingLine(idx) = NoGroup
          /\ pc' = "AttributeError"
          /\ UNCHANGED <<idx, stack, startI>>
       \/ /\ Has(idx, "lp")
          /\ ClosingLine(idx) >= 0
          /\ LET e == ClosingLine(idx) IN
               \/ /\ Has(e, "lb")
                  /\ stack' = IF Has(e, "rb") THEN stack
                              ELSE Append(stack, "normal_now")
                  /\ idx' = e + 1
                  /\ pc' = "loop"
                  /\ UNCHANGED startI
               \/ /\ ~Has(e, "lb")
                  /\ ~PatternFunc(idx, e)
                  /\ idx' = e + 1
                  /\ pc' = "loop"
                  /\ UNCHANGED <<stack, startI>>
               \/ /\ ~Has(e, "lb")
                  /\ PatternFunc(idx, e)
                  /\ startI' = idx
                  /\ idx' = e
                  /\ pc' = "emit"
                  /\ UNCHANGED stack
    /\ UNCHANGED <<input, stackClass, stackTemplate, templateString, out,
                   funcList>>

-----------------------------------------------------------------------------
(* The features and names of the joined declaration lines s..e.           *)
Joined(s, e) == UNION {L(j).f : j \in s .. e}
DeclNames(s, e) == [j \in 1 .. (e - s + 1) |-> L(s + j - 1).n]

(* Line 472: a lone return type on the line above is reattached; for      *)
(* s = 0 Python reads input_content[-1], the last line of the file.       *)
Pre(s) == IF "bare" \in PyLine(s - 1).f THEN PyLine(s - 1).n ELSE NoName

(* Line 402 removes 'virtual ', 'explicit ', 'friend ' and 'static '      *)
(* before line 407 searches the line for 'friend '.                       *)
KeywordStripped(fs) == fs \ {"friend"}
IsFriend(s, e) == "friend" \in KeywordStripped(Joined(s, e))

(* need_generate_func, lines 182-190 *)
NeedGenerate(s, e) == "nogen" \notin Joined(s, e)

(* gen_comment, lines 640-659: the Python indices of the comment copied    *)
(* above the declaration starting at s, as lo..hi.  A block comment is    *)
(* walked up to its '/*' line with no lower bound (negative              *)
(* indices wrap); a run of // lines is collected down to index 1 only.     *)
(* ok is FALSE where the walk raises IndexError.                          *)
CommentRange(s) ==
    LET k0 == s - 1
        k == IF "tmpl" \in PyLine(k0).f THEN k0 - 1 ELSE k0
        opens == {j \in -N .. k : "c2s" \in PyLine(j).f}
        runs == {j \in 1 .. k : \A m \in j .. k : "cmt" \in PyLine(m).f}
        Got(lo, hi) == [ok |-> TRUE, lo |-> lo, hi |-> hi]
    IN  IF k < -N THEN [ok |-> FALSE, lo |-> 0, hi |-> 0]
        ELSE IF "c2e" \in PyLine(k).f
               THEN (IF opens = {} THEN [ok |-> FALSE, lo |-> 0, hi |-> 0]
                     ELSE Got(Max(opens), k))
        ELSE IF runs = {} THEN Got(1, 0)
        ELSE Got(Min(runs), k)

(* The key write_func_content deduplicates on (func_name): a member gets   *)
(* the innermost class name only (handle_class_member_func, line 611).     *)
StubKey(s, e, member) ==
    [cls  |-> IF member THEN <<Last(stackClass)>> ELSE <<>>,
     tmpl |-> templateString,
     d    |-> DeclNames(s, e),
     pre  |-> Pre(s)]

(* Mutant: the func_list_exist check is dropped.                         *)
ShouldWriteNoDedup(key, s, e) == NeedGenerate(s, e)

(* write_func_content, line 635: a stub is written if its key is new and  *)
(* need_generate_func allowed it.                                          *)
ShouldWrite(key, s, e) == key \notin ToSet(funcList) /\ NeedGenerate(s, e)

(* Lines 400-422 with handle_class_member_func / handle_normal_func,      *)
(* need_generate_func, implement_function, gen_comment and                *)
(* write_func_content: a member of a templated class reaches line 590,    *)
(* which names an undefined global stack_template; otherwise the stub is  *)
(* written unless its key was written before or it needs no stub.         *)
WriteStub ==
    /\ pc = "emit"
    /\ LET s == startI
           e == idx
           member == stackClass # <<>> /\ ~IsFriend(s, e)
           key == StubKey(s, e, member)
           c == CommentRange(s)
       IN  \/ /\ member
              /\ Last(stackTemplate)
              /\ pc' = "NameError"
              /\ UNCHANGED <<idx, out, funcList>>
           \/ /\ ~(member /\ Last(stackTemplate))
              /\ ~c.ok
              /\ pc' = "IndexError"
              /\ UNCHANGED <<idx, out, funcList>>
           \/ /\ ~(member /\ Last(stackTemplate))
              /\ c.ok
              /\ IF ShouldWrite(key, s, e)
                   THEN /\ out' = Append(out, StubItem(key, s, c.lo, c.hi))
                        /\ funcList' = Append(funcList, key)
                   ELSE UNCHANGED <<out, funcList>>
              /\ idx' = idx + 1
              /\ pc' = "loop"
    /\ UNCHANGED <<input, stack, stackClass, stackTemplate, templateString,
                   startI>>

-----------------------------------------------------------------------------
(* H2CC.__init__ and the start of h2cc(): a fresh scanner on one file.    *)
InitWith(lines) ==
    /\ input = lines
    /\ idx = 0
    /\ pc = "loop"
    /\ stack = <<>>
    /\ stackClass = <<>>
    /\ stackTemplate = <<>>
    /\ templateString = FALSE
    /\ startI = 0
    /\ out = <<>>
    /\ funcList = <<>>

Init == \E lines \in Inputs : InitWith(lines)

Next ==
    \/ LoopTest
    \/ JustSkip
    \/ HandleNamespace
    \/ HandleTemplate
    \/ HandleClass
    \/ HandleStack
    \/ HandleFunc1
    \/ WriteStub

(* The scanner is one sequential loop that is never descheduled for good. *)
Spec == Init /\ [][Next]_vars /\ WF_vars(Next)


-----------------------------------------------------------------------------
Count(seq, x) == Cardinality({i \in DOMAIN seq : seq[i] = x})

(* stack_class and stack_template are pushed in handle_class and popped in *)
(* handle_stack only when the frame popped from stack is class_now: both   *)
(* must always hold one entry per open class_now frame, or line 494/495    *)
(* pops the wrong class's name and template.                               *)
ScopeStacksAligned ==
    /\ Len(stackClass) = Count(stack, "class_now")
    /\ Len(stackTemplate) = Count(stack, "class_now")

(* The refinement mapping onto the abstract scope tracker: frames by kind, *)
(* stack_class as the class names, the output items by kind.              *)
FrameKind(f) == CASE f = "namespace_now" -> "namespace"
                  [] f = "class_now" -> "class"
                  [] OTHER -> "body"
ItemKind(o) == IF o.kind = "func" THEN "stub" ELSE o.kind
Scope == INSTANCE ScopeStack
            WITH ClassNames <- Names \cup {NoName},
                 scopes <- [i \in DOMAIN stack |-> FrameKind(stack[i])],
                 classes <- stackClass,
                 written <- [i \in DOMAIN out |-> ItemKind(out[i])]

(* h2cc implements the scope tracker of spec.md 4.1: every step pushes or *)
(* pops at most one frame at the top of self.stack, moves stack_class with *)
(* class frames, writes a namespace's opener and closing brace in the same *)
(* step that pushes or pops it, and writes a stub only outside function    *)
(* bodies.                                                                 *)
ScopeRefinement == Scope!Spec

=============================================================================
