---------------------------- MODULE MCVmControl ----------------------------
(***************************************************************************)
(* VmControl for TLC.                                                      *)
(***************************************************************************)
EXTENDS VmControl, FiniteSetsExt

\* Arithmetic, a logical operator, or a variable for which storage runs out fails.
MCFailures ==
    {[class |-> "arith", how |-> "ifnone", num |-> 42],
     [class |-> "bool", how |-> "none", num |-> 34],
     [class |-> "other", how |-> "none", num |-> 5]}

\* Bound on what goes on at a time: open loops, counts left behind by loops that
\* ended, operands that wait, traps that differ from the caller's.
MaxBusy == 3
Open == FoldSeq(LAMBDA a, n : n + Len(SelectSeq(a.loops, LAMBDA l : l.kind # "plain")), 0, acts)
Plain == FoldSeq(LAMBDA a, n : n + Len(SelectSeq(a.loops, LAMBDA l : l.kind = "plain")), 0, acts)
HiddenUse == {p \in (1 .. Len(hidden)) \X (0 .. DoNames - 1) :
                 hidden[p[1]][p[2]] # NewPool[p[2]]}
Busy ==
    Plain + Len(stack)
    + Max({Open, Cardinality({i \in DOMAIN counters : counters[i] # 0})
                 + Cardinality(HiddenUse)})
    + Cardinality({k \in DOMAIN acts :
                      acts[k].trap # (IF k = 1 THEN AllOff ELSE acts[k - 1].trap)})

Given == FoldSeq(LAMBDA f, n : n + f.argc, 0, frames)

Trapped == {c \in Conds : \E k \in DOMAIN acts : acts[k].trap[c] # "off"}

\* Fewer things at a time with all frames in use, with a trap on, and once a
\* condition was raised, when the run starts over but for its record and what
\* counters held.  The two kinds of counts are in different places and are not
\* mixed in one exec.
Bounded ==
    /\ Busy <= CASE cond.code # 0 -> 1 [] Len(frames) = CallMax -> 0 [] OTHER -> MaxBusy
    /\ cond.code # 0 => Len(frames) <= 1
    /\ Cardinality(Trapped) <= 1
    /\ Trapped # {} => Open + Plain + Len(frames) <= 2
    /\ HiddenUse # {} =>
          /\ stack = <<>> /\ Trapped = {} /\ cond.code = 0
          /\ \A i \in DOMAIN counters : counters[i] = 0
          /\ Len(frames) + Max({Open + Plain, Cardinality(HiddenUse)}) <= 3
          /\ \A k \in DOMAIN frames : frames[k].argc = 0
    /\ Given > 0 => Trapped = {} /\ Open + Plain <= 1 /\ Given <= 2
=============================================================================
