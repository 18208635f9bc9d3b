----------------------------- MODULE ParseRules -----------------------------
(***************************************************************************)
(* What a PARSE clause promises, as the conformance execs test/spec/PARSE1 *)
(* to PARSE4 state it: patterns cut the string into segments, and the      *)
(* targets before a pattern share its segment word by word.                *)
(*                                                                         *)
(* A text is a sequence of characters; positions count from 0, as in the   *)
(* code.  A template is a sequence of items:                               *)
(*     [kind |-> "var", name]          a variable                          *)
(*     [kind |-> "stem", name, tail]   a compound variable                 *)
(*     [kind |-> "dot"]                a placeholder                       *)
(*     [kind |-> "const"]              a constant symbol                   *)
(*     [kind |-> "str", text]          a literal pattern                   *)
(*     [kind |-> "ref", name]          a pattern held by a variable        *)
(*     [kind |-> "refcmpd", name, tail]   the same with a compound name    *)
(*     [kind |-> "col", n]             an absolute position                *)
(*     [kind |-> "rel", n]             a relative one                      *)
(*     [kind |-> "bad"]                a token that no template may have   *)
(***************************************************************************)
EXTENDS Integers, Sequences, FiniteSets, SequencesExt, TLC

CONSTANTS MaxVars,    \* targets a segment may have: IRX_MAX_ARGS, BPSE_MAX_ITEMS
          StrMax      \* longest literal a constant table entry holds

TargetKinds == {"var", "stem", "dot"}

Within(text, from, end) == SubSeq(text, from + 1, end)

\* The pool maps a name to its value; a name is the sequence of its parts.
Put(pool, name, text) == (name :> text) @@ pool

\* The value of a simple variable; it is its own name while it has none.
Load(pool, name) == IF <<name>> \in DOMAIN pool THEN pool[<<name>>] ELSE <<name>>

Capital(c) == CASE c = "a" -> "A" [] c = "b" -> "B" [] c = "c" -> "C" [] OTHER -> c
Capitals(text) == [i \in DOMAIN text |-> Capital(text[i])]

\* The name of a compound variable: its tail is the value of the tail's variable.
Compound(pool, item) == <<item.name>> \o Capitals(Load(pool, item.tail))

Matches(text, pattern, from) ==
    {i \in from..Len(text) - Len(pattern) : Within(text, i, i + Len(pattern)) = pattern}

---------------------------------------------------------------------------

\* The words of text between two positions, by where they start.
WordStarts(text, from, end) ==
    {i \in from..end - 1 : text[i + 1] # " " /\ (i = from \/ text[i] = " ")}

WordStop(text, start, end) == Min({i \in start..end : i = end \/ text[i + 1] = " "})

\* Where the i-th of these words starts; after the last word there is nothing.
NthStart(text, from, end, i) ==
    LET starts == WordStarts(text, from, end)
    IN  IF i > Cardinality(starts) THEN end
        ELSE CHOOSE s \in starts : Cardinality({t \in starts : t <= s}) = i

\* What the i-th of n targets gets of the text between from and end: a word, and
\* the last one all that the words before it and one blank leave.
Share(text, from, end, i, n) ==
    LET nth == NthStart(text, from, end, i)
        before == NthStart(text, from, end, i - 1)
        stop == WordStop(text, before, end)
        rest == IF i = 1 THEN from ELSE Min({stop + 1, end})
    IN  IF i = n THEN Within(text, rest, end)
        ELSE Within(text, nth, WordStop(text, nth, end))

\* The targets before a pattern, and the pattern, for each pattern.
Segments(template) ==
    LET Item(acc, item) ==
            IF item.kind \in TargetKinds THEN [acc EXCEPT !.targets = Append(@, item)]
            ELSE IF item.kind = "const" THEN acc
            ELSE [segments |-> Append(acc.segments, [targets |-> acc.targets, by |-> item]),
                  targets |-> <<>>]
        all == FoldLeft(Item, [segments |-> <<>>, targets |-> <<>>], template)
    IN  Append(all.segments, [targets |-> all.targets, by |-> [kind |-> "end"]])

\* Where a pattern puts the end of its segment, its match and the scan after it.
Cut(text, p, by, pool) ==
    LET Literal(pattern) ==
            LET found == Matches(text, pattern, p.scan)
                at == IF found = {} THEN Len(text) ELSE Min(found)
            IN  [end |-> at, match |-> at, scan |-> Min({at + Len(pattern), Len(text)})]
        Position(n) ==
            LET at == Max({0, Min({n, Len(text)})})
            IN  [end |-> IF at > p.match THEN at ELSE Len(text), match |-> at, scan |-> at]
    IN  CASE by.kind = "str" -> Literal(by.text)
          [] by.kind = "ref" -> Literal(Load(pool, by.name))
          [] by.kind = "col" -> Position(by.n - 1)
          [] by.kind = "rel" -> Position(p.match + by.n)
          [] OTHER -> [end |-> Len(text), match |-> Len(text), scan |-> Len(text)]

\* The patterns whose rules the manual and both engines share: literals that are
\* not empty, and positions that lie ahead and do not count from a literal.
Plain(p, seg, cut, pool) ==
    /\ seg.by.kind = "str" => seg.by.text # <<>>
    /\ seg.by.kind = "ref" =>
          <<seg.by.name>> \in DOMAIN pool /\ pool[<<seg.by.name>>] # <<>>
    /\ seg.by.kind = "rel" => p.match = p.scan
    /\ seg.by.kind \in {"col", "rel"} =>
          seg.by.n \in -32768..32767 /\ cut.match >= p.scan
          /\ (cut.match > p.scan \/ seg.targets = <<>>)
    /\ seg.by.kind \notin {"bad", "refcmpd"}
    /\ Len(seg.targets) <= MaxVars

\* The words of a segment end in it even when they are taken from the whole text,
\* and none of them is the variable that holds the pattern.
Inside(text, p, seg, cut) ==
    LET n == Len(seg.targets) - 1
        nth == NthStart(text, p.scan, Len(text), n)
        stop == WordStop(text, nth, Len(text))
    IN  n > 0 => /\ stop < cut.end \/ cut.end = Len(text)
                 /\ seg.by.kind = "ref" =>
                       \A i \in 1..n : seg.targets[i].kind # "var"
                                       \/ seg.targets[i].name # seg.by.name

\* The pool after the targets of a segment have their shares.
Shared(text, p, seg, cut) ==
    LET n == Len(seg.targets)
        Give(acc, i) ==
            LET item == seg.targets[i] IN
            IF item.kind = "dot" THEN acc
            ELSE Put(acc, IF item.kind = "var" THEN <<item.name>> ELSE Compound(acc, item),
                     Share(text, p.scan, cut.end, i, n))
    IN  FoldLeftDomain(Give, p.pool, seg.targets)

\* What a segment leaves, and how hard it was.
Leaves(text, p, seg, cut, pool) ==
    [pool |-> pool, match |-> cut.match, scan |-> cut.scan,
     plain |-> p.plain /\ Plain(p, seg, cut, p.pool),
     inside |-> p.inside /\ Inside(text, p, seg, cut),
     tails |-> p.tails \/ \E i \in DOMAIN seg.targets :
                  seg.targets[i].kind = "stem" /\ <<seg.targets[i].tail>> \in DOMAIN pool]

\* What a template makes of a text.
Promise(pool, text, template) ==
    LET Taken(p, seg, cut) == Leaves(text, p, seg, cut, Shared(text, p, seg, cut))
        One(p, seg) == Taken(p, seg, Cut(text, p, seg.by, p.pool))
    IN  FoldLeft(One, [pool |-> pool, match |-> 0, scan |-> 0, plain |-> TRUE,
                       inside |-> TRUE, tails |-> FALSE], Segments(template))
=============================================================================
