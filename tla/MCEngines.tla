----------------------------- MODULE MCEngines -----------------------------
(***************************************************************************)
(* What the engines do with one program of DO, IF and SELECT, one PARSE    *)
(* clause or one expression.  A behaviour has one of the three; the rest   *)
(* of its state is that of an exec that has nothing to run.                *)
(***************************************************************************)
EXTENDS MCControlFlow

CONSTANTS MaxVars, StrMax, DefaultDigits, Slack, DigitsMax, PowLimit

VARIABLES clause, w, v, parseCode, sum, parsed, slot, vmTexts

otherVars == <<clause, w, v, parseCode, sum, parsed, slot, vmTexts>>

Other == INSTANCE MCAlgorithms WITH code <- parseCode

\* A program that no engine runs: its compile fails.
NoProgram == P(Wide, FALSE, TRUE)

EnginesInit ==
    \/ Init /\ Other!Idle
    \/ Called(NoProgram) /\ engine = "none" /\ Other!Init

EnginesNext ==
    \/ Next /\ UNCHANGED otherVars
    \/ Other!Next /\ UNCHANGED vars

\* An engine is called and runs until it returns.
EnginesSpec == EnginesInit /\ [][EnginesNext]_<<vars, otherVars>> /\ WF_vars(Next)

ParsedAsPromised == Other!ParsedAsPromised
EnginesAgree == Other!EnginesAgree
ComputesAsPromised == Other!ComputesAsPromised
ComparesAsPromised == Other!ComparesAsPromised
=============================================================================
