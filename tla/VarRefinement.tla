--------------------------- MODULE VarRefinement ---------------------------
(***************************************************************************)
(* How the entries of the pools are read as the scopes of VarService.      *)
(***************************************************************************)
EXTENDS VarPool

\* What the entries of pools s say about sharing and values.
SeenIn(s) ==
    [k \in DOMAIN s |->
        [stems |-> s[k].exposed,
         shared |-> {n \in Names : s[k].entry[n] = Ref},
         val |-> [n \in Names |-> IF s[k].entry[n] \in Values
                                  THEN s[k].entry[n] ELSE Unset]]]
Seen == SeenIn(scopes)

Promise == INSTANCE VarService WITH scopes <- Seen

\* The pools share and separate variables as PROCEDURE EXPOSE promises.
ImplementsVarService == Promise!Spec

\* Every variable reads as the promise says, stem defaults included.
ReadsAsPromised ==
    Running => \A n \in Names :
        Get(scopes, n) = Promise!Read(Seen, n)
=============================================================================
