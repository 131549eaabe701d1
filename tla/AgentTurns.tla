----------------------------- MODULE AgentTurns -----------------------------
(***************************************************************************)
(* An agent loop as the worker and the servers see it: it asks for one     *)
(* answer at a time, at least once and at most MaxTurns times, and then    *)
(* ends; or an exception ends it.  ToolAgentLoop implements this module,   *)
(* and AgentRouting runs one of it for every row of a batch.               *)
(***************************************************************************)
EXTENDS Naturals
CONSTANT MaxTurns

VARIABLES phase, turns
vars == <<phase, turns>>

Init == phase = "turn" /\ turns = 0

Ask == /\ phase = "turn" /\ turns < MaxTurns
       /\ phase' = "asking" /\ turns' = turns + 1

Answer == /\ phase = "asking"
          /\ phase' = "turn" /\ UNCHANGED turns

End == /\ phase = "turn" /\ turns > 0
       /\ phase' = "over" /\ UNCHANGED turns

Raise == /\ phase \in {"turn", "asking"}
         /\ phase' = "raised" /\ UNCHANGED turns

Next == Ask \/ Answer \/ End \/ Raise

Spec == Init /\ [][Next]_vars /\ WF_vars(Ask \/ Answer \/ End)
=============================================================================
