----------------------------- MODULE MCVarPool -----------------------------
(***************************************************************************)
(* VarPool for TLC, and the sharing of variables it implements.            *)
(***************************************************************************)
EXTENDS VarRefinement, TLC

MCStemOf == [n \in {"A.1"} |-> "A."]
NoStems == <<>>
AddrSymmetry == Permutations(Addrs)

\* For runs without a cache, where addresses do not matter: pools get them in
\* order.
InOrder == \A k \in DOMAIN scopes : scopes[k].addr = k
=============================================================================
