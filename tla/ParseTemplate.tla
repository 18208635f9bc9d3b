--------------------------- MODULE ParseTemplate ---------------------------
(***************************************************************************)
(* The two ways REXX/370 runs a PARSE clause, given the same clause: the   *)
(* walk over the tokens of the template (src/src/irx#pars.c), which has    *)
(* all targets of a segment at hand when it meets the pattern, and the     *)
(* compiled template (irx#bcom.c, irx#bvm.c), whose opcodes know one       *)
(* target at a time.                                                       *)
(***************************************************************************)
EXTENDS ParseRules

VARIABLES clause,         \* [from, upper, texts, templates, pool]
          w, v, code      \* the walk, the VM, the compiled clause

parsevars == <<clause, w, v, code>>

NoText == <<"no text">>     \* a source pointer that is NULL

---------------------------------------------------------------------------
(* The compiler: a pattern flushes the targets before it, all but the last *)
(* with a word each.                                                       *)

U16(n) == n % 65536

\* A mutant: the operand of TR_REL read back without its sign.
I16Unsigned(n) == U16(n)
I16(n) == U16(n + 32768) - 32768

\* bpse_emit_item
EmitItem(item) ==
    CASE item.kind = "dot" -> <<[op |-> "PDOT"]>>
      [] item.kind = "stem" -> <<[op |-> "PVAR_STEM", item |-> item]>>
      [] OTHER -> <<[op |-> "PVAR", name |-> item.name]>>

\* bpse_flush
Flush(c, trigger) ==
    LET word(item) == EmitItem(item) \o <<[op |-> "TR_SPACE"]>>
        n == Len(c.items)
        words == FoldLeft(LAMBDA acc, item : acc \o word(item), <<>>, SubSeq(c.items, 1, n - 1))
        last == IF n = 0 THEN <<[op |-> "PDOT"]>> ELSE EmitItem(c.items[n])
    IN  [c EXCEPT !.items = <<>>, !.code = @ \o words \o last \o <<trigger>>]

CompileFails(c, rc) == [c EXCEPT !.rc = rc]

\* One item of bc_parse_template.
CompileItem(c, item) ==
    IF c.rc # "OK" THEN c
    ELSE CASE item.kind \in TargetKinds ->
                 IF Len(c.items) < MaxVars THEN [c EXCEPT !.items = Append(@, item)] ELSE c
           [] item.kind = "const" -> c
           [] item.kind = "str" ->
                 IF Len(item.text) > StrMax THEN CompileFails(c, "STRTOOLONG")
                 ELSE Flush(c, [op |-> "TR_LIT", text |-> item.text])
           [] item.kind = "ref" -> Flush(c, [op |-> "TR_VAR", name |-> item.name])
           [] item.kind = "col" -> Flush(c, [op |-> "TR_ABS", n |-> U16(item.n)])
           [] item.kind = "rel" -> Flush(c, [op |-> "TR_REL", n |-> I16(item.n)])
           [] OTHER -> CompileFails(c, "UNSUP")

\* bc_parse_template, between PARSE_BEGIN and PARSE_END.
CompileTemplate(c, template) ==
    LET began == [c EXCEPT !.code = Append(@, [op |-> "PARSE_BEGIN"])]
        body == FoldLeft(CompileItem, began, template)
        flushed == IF body.rc = "OK" /\ body.items # <<>> THEN Flush(body, [op |-> "TR_END"])
                   ELSE body
    IN  [flushed EXCEPT !.code = Append(@, [op |-> "PARSE_END"])]

\* bc_parse_stmt
CompileClause(c) ==
    LET source == IF c.from = "pull" THEN <<[op |-> "PULL"]>> ELSE <<>>
    IN  FoldLeft(CompileTemplate, [items |-> <<>>, code |-> source, rc |-> "OK"], c.templates)

---------------------------------------------------------------------------
(* The text a template is applied to.                                      *)

\* PARSE ARG takes the next argument for each template, all else the same text.
Argument(c, t) ==
    IF c.from # "arg" THEN c.texts[1]
    ELSE IF t <= Len(c.texts) THEN c.texts[t] ELSE NoText

Raised(c, text) == IF c.upper THEN Capitals(text) ELSE text

\* kw_parse gives a missing argument to the template as a NULL source.
WalkSource(c, t) ==
    IF Argument(c, t) = NoText THEN NoText ELSE Raised(c, Argument(c, t))

\* ARG(n) gives the VM the null string for it.
VmSource(c, t) ==
    IF Argument(c, t) = NoText THEN <<>> ELSE Raised(c, Argument(c, t))

---------------------------------------------------------------------------
(* The walk.                                                               *)

ParseInit(c) ==
    LET compiled == CompileClause(c) IN
    /\ clause = c
    /\ code = compiled.code
    /\ w = [rc |-> IF c.from = "pull" THEN "SYNTAX" ELSE "OK", t |-> 1, at |-> 1, scan |-> 0,
            pending |-> <<>>, src |-> WalkSource(c, 1), pool |-> c.pool, done |-> c.from = "pull"]
    /\ v = [rc |-> compiled.rc, pc |-> 1, t |-> 0, scan |-> 0, src |-> <<>>,
            cur |-> [kind |-> "none"], pool |-> c.pool, done |-> compiled.rc # "OK"]

\* The name the walk gives a target: it does not resolve the tail of a compound one.
WalkName(item) == IF item.kind = "stem" THEN <<item.name, item.tail>> ELSE <<item.name>>

SkipBlanks(s, from, end) == Min({i \in from..end : i = end \/ s[i + 1] # " "})
SkipWord(s, from, end) == Min({i \in from..end : i = end \/ s[i + 1] = " "})

\* Where the next word is looked for: past the one blank that ended this one.
\* A mutant: the blank is left to the next target.
AfterKeepsBlank(stop, end) == stop
After(stop, end) == IF stop < end THEN stop + 1 ELSE stop

\* parse_assign_segment
AssignSegment(pool, s, spos, end, items) ==
    LET epos == IF s = NoText \/ end < spos THEN spos ELSE end
        Item(acc, i) ==
            LET start == SkipBlanks(s, acc.pos, epos)
                stop == SkipWord(s, start, epos)
            IN  IF i = Len(items) /\ items[i].kind # "dot"
                THEN [pos |-> epos, pool |-> Put(acc.pool, WalkName(items[i]), Within(s, acc.pos, epos))]
                ELSE [pos |-> After(stop, epos),
                      pool |-> IF items[i].kind = "dot" THEN acc.pool
                               ELSE Put(acc.pool, WalkName(items[i]), Within(s, start, stop))]
    IN  FoldLeftDomain(Item, [pos |-> spos, pool |-> pool], items).pool

Item == clause.templates[w.t][w.at]
InTemplate == w.at <= Len(clause.templates[w.t])
SrcLen == IF w.src = NoText THEN 0 ELSE Len(w.src)

\* The pending targets share the segment from the scan to end.
Assigned(end) == AssignSegment(w.pool, w.src, w.scan, end, w.pending)

Walk(kinds) == ~w.done /\ InTemplate /\ Item.kind \in kinds /\ UNCHANGED <<clause, v, code>>

CutAt(end, scan) ==
    w' = [w EXCEPT !.pool = Assigned(end), !.pending = <<>>, !.scan = scan, !.at = @ + 1]

\* A literal search from the scan; without a match the segment is the rest.
CutBySearch(pattern) ==
    LET found == Matches(w.src, pattern, w.scan) IN
    IF found = {} THEN CutAt(SrcLen, SrcLen) ELSE CutAt(Min(found), Min(found) + Len(pattern))

WalkVarPattern ==
    /\ Walk({"ref", "refcmpd"})
    /\ LET name == IF Item.kind = "ref" THEN <<Item.name>> ELSE <<Item.name, Item.tail>>
           pattern == IF name \in DOMAIN w.pool THEN w.pool[name] ELSE <<>>
       IN  IF pattern = <<>> \/ w.src = NoText THEN CutAt(w.scan, w.scan)
           ELSE CutBySearch(pattern)

WalkRelative ==
    /\ Walk({"rel"})
    /\ IF Item.n >= 0
       THEN LET next == Min({w.scan + Item.n, SrcLen}) IN CutAt(next, next)
       ELSE CutAt(w.scan, Max({w.scan + Item.n, 0}))

WalkAbsolute ==
    /\ Walk({"col"})
    /\ LET npos == Min({IF Item.n >= 1 THEN Item.n - 1 ELSE 0, SrcLen})
       IN  CutAt(Max({npos, w.scan}), npos)

WalkString ==
    /\ Walk({"str"})
    /\ IF Item.text = <<>> \/ w.src = NoText THEN w' = [w EXCEPT !.at = @ + 1]
       ELSE CutBySearch(Item.text)

WalkSymbol ==
    /\ Walk(TargetKinds \cup {"const"})
    /\ w' = [w EXCEPT !.at = @ + 1,
                      !.pending = IF Item.kind = "const" \/ Len(@) >= MaxVars THEN @
                                  ELSE Append(@, Item)]

WalkRefuses == Walk({"bad"}) /\ w' = [w EXCEPT !.rc = "SYNTAX", !.done = TRUE]

\* The final segment; a comma starts the next template.
WalkEnd ==
    /\ ~w.done /\ ~InTemplate
    /\ LET last == w.t = Len(clause.templates)
           ended == [w EXCEPT !.pool = Assigned(SrcLen), !.pending = <<>>, !.done = last]
       IN  w' = IF last THEN ended
                ELSE [ended EXCEPT !.t = @ + 1, !.at = 1, !.scan = 0,
                                   !.src = WalkSource(clause, w.t + 1)]
    /\ UNCHANGED <<clause, v, code>>

---------------------------------------------------------------------------
(* The VM.                                                                 *)

Op == code[v.pc]

\* The VM's turn: it runs once the walk is through, on a pool of its own.
Vm(ops) ==
    w.done /\ ~v.done /\ v.pc <= Len(code) /\ Op.op \in ops /\ UNCHANGED <<clause, w, code>>

VmGoes(s) == v' = [s EXCEPT !.pc = @ + 1, !.done = v.pc = Len(code)]

\* pframe_assign
Give(value) == IF v.cur.kind = "var" THEN Put(v.pool, v.cur.name, value) ELSE v.pool

AssignRest(segEnd, newScan) ==
    LET end == Max({Min({segEnd, Len(v.src)}), v.scan}) IN
    VmGoes([v EXCEPT !.scan = newScan, !.cur = [kind |-> "none"],
                     !.pool = Give(Within(v.src, v.scan, end))])

VmParseBegin ==
    /\ Vm({"PARSE_BEGIN"})
    /\ VmGoes([v EXCEPT !.t = @ + 1, !.scan = 0, !.src = VmSource(clause, v.t + 1),
                        !.cur = [kind |-> "none"]])

VmParseEnd ==
    /\ Vm({"PARSE_END"})
    /\ VmGoes([v EXCEPT !.src = <<>>, !.scan = 0])

VmTarget ==
    /\ Vm({"PVAR", "PVAR_STEM", "PDOT"})
    /\ VmGoes([v EXCEPT !.cur =
           CASE Op.op = "PVAR" -> [kind |-> "var", name |-> <<Op.name>>]
             [] Op.op = "PVAR_STEM" -> [kind |-> "var", name |-> Compound(v.pool, Op.item)]
             [] OTHER -> [kind |-> "dot"]])

VmSpace ==
    /\ Vm({"TR_SPACE"})
    /\ LET end == Len(v.src)
           start == SkipBlanks(v.src, v.scan, end)
           stop == SkipWord(v.src, start, end)
       IN  VmGoes([v EXCEPT !.scan = After(stop, end),
                            !.cur = [kind |-> "none"],
                            !.pool = Give(Within(v.src, start, stop))])

Search(pattern) ==
    LET found == Matches(v.src, pattern, v.scan) IN
    IF found = {} THEN AssignRest(Len(v.src), Len(v.src))
    ELSE AssignRest(Min(found), Min(found) + Len(pattern))

\* A null literal drops the target before it, which keeps its old value.
VmLiteral ==
    /\ Vm({"TR_LIT"})
    /\ IF Op.text = <<>>
       THEN VmGoes([v EXCEPT !.cur = [kind |-> "none"]])
       ELSE Search(Op.text)

VmAbsolute ==
    /\ Vm({"TR_ABS"})
    /\ LET npos == Min({IF Op.n >= 1 THEN Op.n - 1 ELSE 0, Len(v.src)})
       IN  AssignRest(Max({npos, v.scan}), npos)

VmRelative ==
    /\ Vm({"TR_REL"})
    /\ IF Op.n >= 0
       THEN LET next == Min({v.scan + Op.n, Len(v.src)}) IN AssignRest(next, next)
       ELSE AssignRest(v.scan, IF v.scan >= -Op.n THEN v.scan + Op.n ELSE 0)

VmEnd == Vm({"TR_END"}) /\ AssignRest(Len(v.src), Len(v.src))

VmVarPattern ==
    /\ Vm({"TR_VAR"})
    /\ LET pattern == IF <<Op.name>> \in DOMAIN v.pool THEN v.pool[<<Op.name>>] ELSE <<>>
       IN  IF pattern = <<>> THEN AssignRest(v.scan, v.scan) ELSE Search(pattern)

\* OP_PULL_FROM_QUEUE is not implemented.
VmPull == Vm({"PULL"}) /\ v' = [v EXCEPT !.rc = "UNSUP", !.done = TRUE]

ParseNext ==
    \/ WalkVarPattern \/ WalkRelative \/ WalkAbsolute \/ WalkString \/ WalkSymbol
    \/ WalkRefuses \/ WalkEnd
    \/ VmParseBegin \/ VmParseEnd \/ VmTarget \/ VmSpace \/ VmLiteral \/ VmAbsolute
    \/ VmRelative \/ VmEnd \/ VmVarPattern \/ VmPull

---------------------------------------------------------------------------
(* Properties.                                                             *)

Walked == w.done /\ w.rc = "OK"
Ran == v.done /\ v.rc = "OK"

\* The promise for a clause: its templates one after the other.
Promised(c) ==
    LET Text(t) == IF Argument(c, t) = NoText THEN <<>> ELSE Raised(c, Argument(c, t))
        Both(p, made) ==
            [pool |-> made.pool, plain |-> p.plain /\ made.plain,
             inside |-> p.inside /\ made.inside, tails |-> p.tails \/ made.tails]
        One(p, t) == Both(p, Promise(p.pool, Text(t), c.templates[t]))
    IN  FoldLeftDomain(One, [pool |-> c.pool, tails |-> FALSE, inside |-> TRUE,
                             plain |-> c.from = "arg" \/ Len(c.templates) = 1], c.templates)

Honours(promised) ==
    promised.plain =>
        /\ Walked /\ ~promised.tails => w.pool = promised.pool
        /\ Ran /\ promised.inside => v.pool = promised.pool

\* Every target of a template gets its share of the text and no other variable
\* changes: through parse_apply_template when no tail is to be resolved, and through
\* the opcodes when the words of a segment end in it.
ParsedAsPromised == Walked \/ Ran => Honours(Promised(clause))

\* Segments that leave no word to TR_SPACE, with operands the code has room for.
Single(template) ==
    \A i \in DOMAIN template :
        /\ i > 1 /\ template[i].kind \in TargetKinds => template[i - 1].kind \notin TargetKinds
        /\ template[i].kind = "str" => template[i].text # <<>>
        /\ template[i].kind \in {"col", "rel"} => template[i].n \in -32768..32767
        /\ template[i].kind \notin {"stem", "refcmpd", "const"}

\* A program means the same in both engines, even where they leave the rules: a
\* position behind the scan, a pattern variable without a value, one text for
\* several templates, a missing argument.
EnginesAgree ==
    v.done /\ w.done =>
        /\ v.rc = "OK" /\ (\A t \in DOMAIN clause.templates : Single(clause.templates[t]))
              => w.rc = "OK" /\ v.pool = w.pool
        /\ w.rc = "SYNTAX" => v.rc # "OK"
=============================================================================
