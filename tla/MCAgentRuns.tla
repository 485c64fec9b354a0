----------------------------- MODULE MCAgentRuns -----------------------------
(***************************************************************************)
(* Two jobs of one agent about one deal, and two decisions by people.       *)
(***************************************************************************)
EXTENDS AgentRuns

CONSTANTS r1, r2

\* The run people decide holds a step and a draft, the other nothing gated.
OneAsks == [r \in {r1, r2} |-> IF r = r1 THEN Action ELSE {}]
=============================================================================
