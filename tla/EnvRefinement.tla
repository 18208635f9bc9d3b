--------------------------- MODULE EnvRefinement ---------------------------
(***************************************************************************)
(* How the registry, its tokens, its high-watermark and ECTENVBK are read  *)
(* as the numbered environments of EnvService.                             *)
(***************************************************************************)
EXTENDS EnvRegistry

\* The slot of an environment whose IRXTERM is between freeing the slot and
\* rolling the anchor back still counts as listed.
Ends(t, i) == op[t].pc = "termRollback" /\ op[t].slot = i
Ending(i) == \E t \in Tasks : Ends(t, i)
ListedSlots == {i \in SlotIx : LiveSlot(i) \/ Ending(i)}
EnvIn(i) == IF LiveSlot(i) THEN slots[i].eb ELSE op[CHOOSE t \in Tasks : Ends(t, i)].b

Entries ==
    [i \in ListedSlots |->
        [eb |-> EnvIn(i), tcb |-> slots[i].tcb, tso |-> slots[i].tso,
         rent |-> env[EnvIn(i)].rent]]

\* What is in the slots, by the tokens of the slots.
Numbered(s, e) ==
    [n \in {s[i].token : i \in DOMAIN e} |->
        e[CHOOSE i \in DOMAIN e : s[i].token = n]]

Envs == Numbered(slots, Entries)
Answers == [t \in Tasks |-> IF op[t].pc = "found" THEN op[t].b ELSE None]

Usables == SlotIx \ Sentinels

Abstract == INSTANCE EnvService WITH
    Capacity <- Cardinality(Usables),
    envs <- Envs,
    opened <- counter,
    anchor <- ectenvbk,
    answer <- Answers

\* One service at a time, the registry with its tokens, its high-watermark and
\* the ECTENVBK cache behaves as the abstract list of environments does.
ImplementsEnvService == Abstract!Spec
=============================================================================
