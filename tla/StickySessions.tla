--------------------------- MODULE StickySessions ---------------------------
(***************************************************************************)
(* What an agent loop needs from the choice of a server: all the turns of  *)
(* a conversation are answered by one server, the one that answered the    *)
(* first of them, since only that one has the prefix of the conversation   *)
(* in its cache.  AgentRouting implements this module.                     *)
(***************************************************************************)
CONSTANTS Request, Server

VARIABLES home,     \* the server of a conversation that has begun, or none
          busy      \* the server that is answering it, or none

vars == <<home, busy>>

Init == /\ home = [r \in Request |-> {}]
        /\ busy = [r \in Request |-> {}]

(* The first turn of a conversation chooses its home. *)
Begin(r, s) == /\ home[r] = {}
               /\ home' = [home EXCEPT ![r] = {s}]
               /\ busy' = [busy EXCEPT ![r] = {s}]

(* Every later turn goes back to it. *)
Return(r) == /\ home[r] # {} /\ busy[r] = {}
             /\ busy' = [busy EXCEPT ![r] = home[r]]
             /\ UNCHANGED home

Answer(r) == /\ busy[r] # {}
             /\ busy' = [busy EXCEPT ![r] = {}]
             /\ UNCHANGED home

(* It is over, answered or not, and has no home any more. *)
End(r) == /\ home' = [home EXCEPT ![r] = {}]
          /\ busy' = [busy EXCEPT ![r] = {}]

Next == \E r \in Request : \/ \E s \in Server : Begin(r, s)
                           \/ Return(r) \/ Answer(r) \/ End(r)

Spec == Init /\ [][Next]_vars
=============================================================================
