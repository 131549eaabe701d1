-------------------------- MODULE DurableTraining --------------------------
(***************************************************************************)
(* What the trainer promises to someone whose job can be killed: training  *)
(* steps are made durable now and then, and a process that starts resumes  *)
(* exactly after the last durable step, or refuses to start.  It never     *)
(* resumes from anything else.  CheckpointResume implements this module.   *)
(***************************************************************************)
EXTENDS Naturals

VARIABLES alive,            \* a training process is in its loop
          at,               \* the step it executes next (0 when none runs)
          saved             \* the last durable step (0 when there is none)

vars == <<alive, at, saved>>

Init == /\ alive = FALSE
        /\ at = 0
        /\ saved = 0

(* A process enters its loop right after the last durable step. *)
Resume == /\ ~alive
          /\ alive' = TRUE
          /\ at' = saved + 1
          /\ UNCHANGED saved

(* The step it executes becomes durable; it can only be a newer one. *)
Persist == /\ alive
           /\ saved < at
           /\ saved' = at
           /\ UNCHANGED <<alive, at>>

(* It goes on to the next step. *)
Advance == /\ alive
           /\ at' = at + 1
           /\ UNCHANGED <<alive, saved>>

(* It is killed, or it finishes: what is durable stays. *)
Stop == /\ alive
        /\ alive' = FALSE
        /\ at' = 0
        /\ UNCHANGED saved

Next == Resume \/ Persist \/ Advance \/ Stop

Spec == Init /\ [][Next]_vars
=============================================================================
