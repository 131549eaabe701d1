-------------------------- MODULE MCAgentRouting ---------------------------
(* Instances of AgentRouting for TLC: two servers with different hashes.   *)
EXTENDS AgentRouting
CONSTANTS sv1, sv2

MCServer == {sv1, sv2}
MCHashOf == sv1 :> 1 @@ sv2 :> 2
=============================================================================
