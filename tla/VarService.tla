----------------------------- MODULE VarService -----------------------------
(***************************************************************************)
(* What PROCEDURE EXPOSE promises a program, without pools, references or  *)
(* a cache: each scope shares some names with the scope that called it and *)
(* owns the others.                                                        *)
(***************************************************************************)
EXTENDS Integers, Sequences, FiniteSetsExt

CONSTANTS Simple, StemOf, RESULT, SIGL, RC, Values, Number, Unset

Compounds == DOMAIN StemOf
Stems == {StemOf[n] : n \in Compounds}
Names == Simple \cup Stems \cup Compounds
StemsOf(n) == {m \in Stems : n = m \/ (n \in Compounds /\ StemOf[n] = m)}
Under(m) == {n \in Names : m \in StemsOf(n)}

VARIABLE scopes   \* the exec's own scope first

NewScope == [stems |-> {}, shared |-> {}, val |-> [n \in Names |-> Unset]]

ByStem(s, k, n) == StemsOf(n) \cap s[k].stems # {}
Passes(s, k, n) == ByStem(s, k, n) \/ n \in s[k].shared

\* The scope that owns what the k-th calls n.
Owner(s, k, n) == Max({j \in 1 .. k : ~Passes(s, j, n)})
Value(s, n) == s[Owner(s, Len(s), n)].val[n]

\* A compound that is not set has the value of its stem.
Read(s, n) ==
    LET set == {m \in {n} \cup StemsOf(n) : Value(s, m) # Unset} IN
    IF n \in set THEN Value(s, n)
    ELSE IF set = {} THEN Unset ELSE Value(s, CHOOSE m \in set : TRUE)

Assigned(s, n, v) == [s EXCEPT ![Owner(s, Len(s), n)].val[n] = v]

\* DROP, seen from level k, unsets the variables and ends their exposure.
Dropped(s, k, S) ==
    [j \in DOMAIN s |->
        [s[j] EXCEPT
            !.val = [n \in Names |-> IF n \in S /\ Owner(s, k, n) = j THEN Unset ELSE @[n]],
            !.shared = @ \ {n \in S : Owner(s, k, n) <= j /\ j <= k}]]

StemHome(s, m) == Max({j \in 1 .. Len(s) : m \notin s[j].stems})
Reset(s, m) == Dropped(s, StemHome(s, m), Under(m))

Init == scopes = <<>>

Start == scopes = <<>> /\ scopes' = <<NewScope>>
Enter == scopes # <<>> /\ scopes' = Append(scopes, NewScope)

Share(n) ==
    /\ Len(scopes) > 1
    /\ scopes' = IF n \in Stems
                 THEN [scopes EXCEPT ![Len(scopes)].stems = @ \cup {n}]
                 ELSE [scopes EXCEPT ![Len(scopes)].shared = @ \cup {n}]

Assign(n, v) ==
    /\ scopes # <<>>
    /\ scopes' = Assigned(IF n \in Stems THEN Reset(scopes, n) ELSE scopes, n, v)

Drop(n) ==
    /\ scopes # <<>>
    /\ scopes' = IF n \in Stems THEN Reset(scopes, n)
                 ELSE Dropped(scopes, Len(scopes), {n})

Outer(k) == SubSeq(scopes, 1, k)

\* A scope ends; the caller may be given a result.
Leave ==
    /\ Len(scopes) > 1
    /\ \/ scopes' = Outer(Len(scopes) - 1)
       \/ \E v \in Values : scopes' = Assigned(Outer(Len(scopes) - 1), RESULT, v)

\* SIGNAL and traps give up all but the exec's own scope, and tell it where,
\* and maybe which error.
Abandon ==
    /\ scopes # <<>>
    /\ LET s == Assigned(Outer(1), SIGL, Number) IN
          scopes' \in {s, Assigned(s, RC, Number)}
End == scopes' = <<>>

Next ==
    \/ Start \/ Enter \/ Leave \/ Abandon \/ End
    \/ \E n \in Names : Share(n) \/ Drop(n) \/ \E v \in Values : Assign(n, v)

Spec == Init /\ [][Next]_scopes
=============================================================================
