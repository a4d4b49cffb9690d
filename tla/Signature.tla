----------------------------- MODULE Signature -----------------------------
(***************************************************************************)
(* The text rewriting of the signature normaliser of gen_stubapi.py:       *)
(* H2CC.handle_normal_func and H2CC.handle_class_member_func, which strip  *)
(* default arguments from the declaration line and from its template      *)
(* preamble with re.sub, and qualify a member function with its class.    *)
(*                                                                         *)
(* A line is a sequence of tokens.  "w" is a word (a type, a name, a      *)
(* keyword or a literal not starting with 0), "0" the digit 0 that starts *)
(* a literal and "r" what follows it in the same literal (".5f" of        *)
(* "0.5f"), "sp" a run of blanks, "nl" a newline, "q" the text "Cls::"   *)
(* that qualifies a member; the other tokens are the characters they      *)
(* name.  re.sub is modelled by what Python's regex engine does on these  *)
(* tokens: the leftmost match, greedy quantifiers, '.' not crossing a     *)
(* newline, '\s' matching blanks and newlines, '$' at the end of the      *)
(* string, matches replaced left to right without overlap.                *)
(*                                                                         *)
(* Rewrites that only add or remove blanks and newlines (the '\s*template' *)
(* subs, the wrap at MAX_CODE_LEN_PER_LINE) and the KernelInfo, OpType... *)
(* renames are left out: the properties compare the words of a line.      *)
(***************************************************************************)
EXTENDS Naturals, Sequences, FiniteSetsExt

CONSTANT Decls   \* the declarations [line, tmpl, member] fed to the handlers

Ws == {"sp", "nl"}
Toks == Ws \cup {"w", "0", "r", "q", "=", ",", "(", ")", "<", ">"}

(* The patterns of the default-stripping re.sub calls, all of the form     *)
(* \s*= GAP .* END, and the text each match is replaced by.  gap: the '\s+' *)
(* after '='; end: the token ending the match ("" when none); lit: END     *)
(* follows the gap at once (no '.*'); anchor: blanks, then '$', after END. *)
Pat(gap, end, lit, anchor, rep) ==
    [gap |-> gap, end |-> end, lit |-> lit, anchor |-> anchor, rep |-> rep]
DefComma    == Pat(FALSE, ",", FALSE, FALSE, <<",">>)  \* r'\s*=.*,'   -> ','
DefParen    == Pat(FALSE, ")", FALSE, FALSE, <<")">>)  \* r'\s*=.*\)'  -> ')'
DefAny      == Pat(FALSE, "",  FALSE, FALSE, <<>>)     \* r'\s*=.*'    -> ''
DefTail     == Pat(FALSE, ">", FALSE, TRUE,  <<">">>)  \* r'\s*=.*>(\s*)$' -> '>\1'
DefSpZero   == Pat(TRUE,  "0", TRUE,  FALSE, <<>>)     \* r'\s*=\s+0'  -> ''
DefSpComma  == Pat(TRUE,  ",", FALSE, FALSE, <<",">>)  \* r'\s*=\s+.*,' -> ','
DefSpParen  == Pat(TRUE,  ")", FALSE, FALSE, <<")">>)  \* r'\s*=\s+.*\)' -> ')'

(* The first index at or after i holding a newline, or after a non-blank, *)
(* Len(s) + 1 if there is none.                                            *)
NextNl(s, i) == Min({j \in i .. Len(s) : s[j] = "nl"} \cup {Len(s) + 1})
WsEnd(s, i)  == Min({j \in i .. Len(s) : s[j] \notin Ws} \cup {Len(s) + 1})

(* The index of the last token of the match of pat whose '=' is s[k], or  *)
(* 0 if there is none: past the gap, '.*' runs to the end of the line and *)
(* gives back tokens until END, keeping the last END of the line; with    *)
(* the anchor only blanks may follow that END.  The blanks of the group   *)
(* before '$' are put back, so the match is taken to end at END.      *)
MatchEnd(s, k, pat) ==
    LET b    == IF pat.gap THEN WsEnd(s, k + 1) ELSE k + 1
        ends == CASE pat.end = "" -> {NextNl(s, b) - 1}
                  [] pat.lit      -> {j \in {b} : j <= Len(s) /\ s[j] = pat.end}
                  [] OTHER ->
                       {j \in b .. NextNl(s, b) - 1 :
                           /\ s[j] = pat.end
                           /\ pat.anchor => \A t \in j + 1 .. Len(s) : s[t] \in Ws}
    IN  IF (pat.gap => b > k + 1) /\ ends # {} THEN Max(ends) ELSE 0

(* re.sub(pat, rep, s): the leftmost '=' a match can start from, the match *)
(* taking the blanks before it; the scan goes on after the match.          *)
RECURSIVE ReSub(_, _)
ReSub(s, pat) ==
    LET eqs == {k \in DOMAIN s : s[k] = "=" /\ MatchEnd(s, k, pat) > 0}
    IN  IF eqs = {} THEN s
        ELSE LET k == Min(eqs)
                 p == Min({i \in 1 .. k : \A t \in i .. k - 1 : s[t] \in Ws})
                 j == MatchEnd(s, k, pat)
             IN  SubSeq(s, 1, p - 1) \o pat.rep \o ReSub(SubSeq(s, j + 1, Len(s)), pat)

(* The three subs applied to a template preamble, in both handlers. *)
StripTemplate(t) == ReSub(ReSub(ReSub(t, DefTail), DefComma), DefAny)

(* handle_normal_func: the template line is the preamble with its defaults *)
(* stripped, the line loses '= ...' up to a ',' and then up to a ')'.      *)
HandleNormalFunc(line, tmpl) ==
    StripTemplate(tmpl) \o ReSub(ReSub(line, DefComma), DefParen)

(* pattern_func_name.sub(rep_fmt, line, count=1): "Cls::" goes in front of *)
(* the leftmost word followed, after blanks, by '('.                      *)
Qualify(line) ==
    LET at == Min({i \in DOMAIN line :
                     /\ line[i] = "w"
                     /\ WsEnd(line, i + 1) <= Len(line)
                     /\ line[WsEnd(line, i + 1)] = "("})
    IN  SubSeq(line, 1, at - 1) \o <<"q">> \o SubSeq(line, at, Len(line))

(* handle_class_member_func in a class that is not a template (in one that *)
(* is, line 590 raises NameError first, the template_class run): the      *)
(* method's own preamble is stripped like a free function's, the line     *)
(* loses ' = 0', then '= ...' up to a ',' and up to a ')', each needing a *)
(* blank after '=', and is qualified; template_line stays ''.             *)
HandleClassMemberFunc(line, tmpl) ==
    LET l == ReSub(ReSub(ReSub(line, DefSpZero), DefSpComma), DefSpParen)
    IN  StripTemplate(tmpl) \o Qualify(l)

-----------------------------------------------------------------------------
VARIABLES decl, line, pc
vars == <<decl, line, pc>>

Init == decl \in Decls /\ line = <<>> /\ pc = "start"

(* h2cc: a declaration outside any class goes to handle_normal_func, one  *)
(* in a class to handle_class_member_func (a friend too: line 402 has     *)
(* removed 'friend ' before line 407 looks for it).                       *)
NormalFunc ==
    /\ pc = "start" /\ ~decl.member
    /\ line' = HandleNormalFunc(decl.line, decl.tmpl)
    /\ pc' = "done"
    /\ UNCHANGED decl

ClassMemberFunc ==
    /\ pc = "start" /\ decl.member
    /\ line' = HandleClassMemberFunc(decl.line, decl.tmpl)
    /\ pc' = "done"
    /\ UNCHANGED decl

Next == NormalFunc \/ ClassMemberFunc
Spec == Init /\ [][Next]_vars

-----------------------------------------------------------------------------
TypeOK == line \in Seq(Toks) /\ pc \in {"start", "done"}

(* The words of a line, its blanks and newlines dropped. *)
Words(s) == SelectSeq(s, LAMBDA t : t \notin Ws)

=============================================================================
