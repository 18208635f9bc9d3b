----------------------------- MODULE EnvService -----------------------------
(***************************************************************************)
(* What the environment services promise a program, without slots, tokens  *)
(* or a cache: the registered environments are known by the order of their *)
(* registration, and one of them may be the anchor.                        *)
(***************************************************************************)
EXTENDS Integers

CONSTANTS Tasks, Blocks, Capacity, TsoChoices, None, Foreign

VARIABLES
    isTso,   \* the address space is a TSO one
    envs,    \* the n-th environment ever registered, while it is
    opened,  \* how many were ever registered
    anchor,  \* the default environment
    answer   \* what FINDENVB is returning to each task

svars == <<isTso, envs, opened, anchor, answer>>

Listed(b) == \E k \in DOMAIN envs : envs[k].eb = b

Init ==
    /\ isTso \in TsoChoices
    /\ envs = [n \in {} |-> None]
    /\ opened = 0
    /\ anchor \in IF isTso THEN {None, Foreign} ELSE {None}
    /\ answer = [t \in Tasks |-> None]

\* A new environment; a TSO environment becomes the anchor.  Beyond the
\* capacity of the registry it is not listed.
Open(t, b, tso, rent) ==
    /\ ~Listed(b)
    /\ IF opened < Capacity
       THEN /\ opened' = opened + 1
            /\ envs' = [n \in DOMAIN envs \cup {opened'} |->
                           IF n = opened'
                           THEN [eb |-> b, tcb |-> t, tso |-> tso, rent |-> rent]
                           ELSE envs[n]]
       ELSE UNCHANGED <<envs, opened>>
    /\ anchor' = IF tso /\ isTso THEN b ELSE anchor
    /\ UNCHANGED <<isTso, answer>>

\* The TSO environments created before the k-th that still exist.
Predecessors(k) == {j \in DOMAIN envs : j < k /\ envs[j].tso}

\* The k-th environment ends.  If it is the anchor, the newest TSO environment
\* created before it becomes the anchor.
Close(k) ==
    /\ envs' = [n \in DOMAIN envs \ {k} |-> envs[n]]
    /\ IF anchor # envs[k].eb
       THEN anchor' = anchor
       ELSE IF Predecessors(k) = {} THEN anchor' = None
       ELSE \E j \in Predecessors(k) :
               /\ \A m \in Predecessors(k) : m <= j
               /\ anchor' = envs[j].eb
    /\ UNCHANGED <<isTso, opened, answer>>

IsLast(k, S) == k \in S /\ \A m \in S : m <= k
Own(t) == {k \in DOMAIN envs : envs[k].tcb = t /\ ~envs[k].rent}
Shared == {k \in DOMAIN envs : isTso /\ envs[k].tso /\ ~envs[k].rent}

\* The caller's newest environment, or else the newest TSO environment, which
\* is made the anchor.
Find(t) ==
    /\ answer[t] = None
    /\ \/ \E k \in DOMAIN envs :
             /\ IsLast(k, Own(t))
             /\ answer' = [answer EXCEPT ![t] = envs[k].eb]
             /\ UNCHANGED anchor
       \/ \E k \in DOMAIN envs :
             /\ Own(t) = {}
             /\ IsLast(k, Shared)
             /\ answer' = [answer EXCEPT ![t] = envs[k].eb]
             /\ anchor' = envs[k].eb
    /\ UNCHANGED <<isTso, envs, opened>>

Answered(t) ==
    /\ answer' = [answer EXCEPT ![t] = None]
    /\ UNCHANGED <<isTso, envs, opened, anchor>>

ForeignAnchor ==
    /\ isTso
    /\ \/ anchor' = Foreign
       \/ anchor = Foreign /\ anchor' = None
    /\ UNCHANGED <<isTso, envs, opened, answer>>

Next ==
    \/ \E t \in Tasks :
          \/ \E b \in Blocks, tso, rent \in BOOLEAN : Open(t, b, tso, rent)
          \/ Find(t)
          \/ Answered(t)
    \/ \E k \in DOMAIN envs : Close(k)
    \/ ForeignAnchor

Spec == Init /\ [][Next]_svars
=============================================================================
