-------------------------- MODULE CheckpointResume --------------------------
(***************************************************************************)
(* Saving, retention, crash and resume of a PPO training job.              *)
(*                                                                         *)
(* The driver (RayPPOTrainer.fit) executes training steps and, every       *)
(* SaveFreq steps, saves a checkpoint: the ranks of the actor and then of  *)
(* the critic write their shards between two barriers                      *)
(* (FSDPCheckpointManager.save_checkpoint), the driver writes data.pt and  *)
(* last the tracker file latest_checkpointed_iteration.txt.  Rank 0 first  *)
(* deletes the oldest checkpoints of its in-memory list.  Every file write *)
(* is two steps, open (truncate) and write, so that a crash can fall       *)
(* between any two.  The disk survives a crash, the memory does not.       *)
(*                                                                         *)
(* The ranks share a file system.  A worker's exception reaches the driver *)
(* through ray.get and ends the job: it is a Crash at that point.          *)
(* The three files of a rank (model, optim, extra_state) are one shard.    *)
(***************************************************************************)
EXTENDS Integers, Sequences, FiniteSets

CONSTANTS Rank,             \* the ranks of a worker group
          Rank0,            \* the one that prunes
          UseCritic,        \* self.use_critic
          MaxKeep,          \* max_{actor,critic}_ckpt_to_keep, 0 for null
          SaveFreq,         \* trainer.save_freq
          Total,            \* total_training_steps
          Batches,          \* len(train_dataloader)
          Epochs,           \* trainer.total_epochs
          ResumeModes,      \* the resume_mode a start may be given
          MaxStep,          \* bound: no step beyond this one
          MaxStarts         \* bound: how often the job is started

Role == {"actor", "critic"}
Step == 1 .. MaxStep
Run  == 0 .. MaxStarts

ASSUME CkptAssumption ==
    /\ Rank0 \in Rank
    /\ UseCritic \in BOOLEAN
    /\ MaxKeep \in [Role -> Nat]
    /\ SaveFreq \in Int
    /\ Total \in Nat
    /\ Batches \in Nat \ {0}
    /\ Epochs \in Nat
    /\ ResumeModes \subseteq {"auto", "disable", "resume_path"}
    /\ MaxStep \in Nat
    /\ MaxStarts \in Nat

Roles == IF UseCritic THEN Role ELSE {"actor"}

(* Contents of a file: none, truncated, or what was written (> Torn). *)
NoFile == -2
Torn   == -1

VARIABLES
  \* the disk
  shard,        \* [role][step][rank]: NoFile, Torn, or the run that wrote it
  folder,       \* the steps whose global_step_N directory exists
  data,         \* [step]: data.pt, its contents the dataloader position
  tracker,      \* latest_checkpointed_iteration.txt
  \* the memory of the driver
  mode,         \* what the driver is doing
  step,         \* self.global_steps
  pos,          \* batches of this epoch the dataloader has yielded
  epoch,        \* the epoch loop of this process
  isLast,       \* is_last_step of the step being executed
  role,         \* the worker group that is saving
  \* the memory of the workers
  prev,         \* [role]: rank 0's previous_saved_paths
  victims,      \* the paths rank 0 is removing
  at,           \* [rank]: where it is in save_checkpoint
  \* history
  run,          \* the number of times the job was started
  durable       \* the last step whose checkpoint was completed

disk   == <<shard, folder, data, tracker>>
driver == <<mode, step, pos, epoch, isLast, role>>
worker == <<prev, victims, at>>
ghost  == <<run, durable>>
vars   == <<disk, driver, worker, ghost>>

Idle == {"down", "done", "failed"}

TypeOK ==
  /\ shard \in [Role -> [Step -> [Rank -> {NoFile, Torn} \cup Run]]]
  /\ folder \subseteq Step
  /\ data \in [Step -> {NoFile, Torn} \cup 0 .. Batches]
  /\ tracker \in {NoFile, Torn} \cup Step
  /\ mode \in Idle \cup {"load", "train", "save", "data", "dataWrite",
                         "track", "trackWrite", "stepped"}
  /\ step \in 0 .. MaxStep + 1
  /\ pos \in 0 .. Batches
  /\ epoch \in 0 .. Epochs
  /\ isLast \in BOOLEAN
  /\ role \in Role
  /\ prev \in [Role -> Seq(Step)]
  /\ victims \subseteq Step
  /\ at \in [Rank -> {"enter", "prune", "ready", "writing", "written"}]
  /\ run \in Run
  /\ durable \in 0 .. MaxStep

Init ==
  /\ shard = [ro \in Role |-> [s \in Step |-> [r \in Rank |-> NoFile]]]
  /\ folder = {}
  /\ data = [s \in Step |-> NoFile]
  /\ tracker = NoFile
  /\ mode = "down" /\ step = 0 /\ pos = 0 /\ epoch = 0 /\ isLast = FALSE
  /\ role = "actor"
  /\ prev = [ro \in Role |-> <<>>]
  /\ victims = {}
  /\ at = [r \in Rank |-> "enter"]
  /\ run = 0 /\ durable = 0

-----------------------------------------------------------------------------
(* Starts, crashes and loading.                                            *)

(* A process starts: nothing of an earlier one's memory is left. *)
ForgetAll ==
  /\ step' = 0 /\ pos' = 0 /\ epoch' = 0 /\ isLast' = FALSE /\ role' = "actor"
  /\ prev' = [ro \in Role |-> <<>>]
  /\ victims' = {}
  /\ at' = [r \in Rank |-> "enter"]

Start ==
  /\ mode \in Idle
  /\ run < MaxStarts
  /\ run' = run + 1
  /\ mode' = "load"
  /\ ForgetAll
  /\ UNCHANGED <<disk, durable>>

(* The job is killed, or an exception ends it, between any two steps. *)
Crash ==
  /\ mode \notin Idle
  /\ mode' = "down"
  /\ ForgetAll
  /\ UNCHANGED <<disk, ghost>>

(* The folders a start may load from: find_latest_ckpt_path for auto, and  *)
(* whatever the user names for resume_path.                                *)
Latest == {s \in folder : s = tracker}

Source(m) == IF m = "auto" THEN Latest ELSE Step

ShardsLoad(ro, s) == \A r \in Rank : shard[ro][s][r] > Torn

(* Every rank's torch.load succeeds, and data.pt is not a truncated file. *)
Loadable(s) == /\ \A ro \in Roles : ShardsLoad(ro, s)
               /\ data[s] # Torn

(* Mutant: a truncated tracker counts as none. *)
LoadNothing_TornIsNone ==
  /\ mode = "load"
  /\ \E m \in ResumeModes : m = "disable" \/ (m = "auto" /\ Latest = {})
  /\ mode' = "train"
  /\ step' = 1
  /\ UNCHANGED <<disk, pos, epoch, isLast, role, worker, ghost>>

(* resume_mode disable, or auto without a checkpoint: step 0, then + 1. *)
LoadNothing ==
  /\ mode = "load"
  /\ \E m \in ResumeModes : \/ m = "disable"
                            \/ m = "auto" /\ tracker # Torn /\ Latest = {}
  /\ mode' = "train"
  /\ step' = 1
  /\ UNCHANGED <<disk, pos, epoch, isLast, role, worker, ghost>>

(* Mutant: data.pt is not restored. *)
LoadFrom_NoData(s) ==
  /\ Loadable(s)
  /\ s < MaxStep
  /\ mode' = "train"
  /\ step' = s + 1
  /\ UNCHANGED <<disk, pos, epoch, isLast, role, worker, ghost>>

LoadFrom(s) ==
  /\ Loadable(s)
  /\ s < MaxStep
  /\ mode' = "train"
  /\ step' = s + 1
  /\ pos' = IF data[s] = NoFile THEN 0 ELSE data[s]
  /\ UNCHANGED <<disk, epoch, isLast, role, worker, ghost>>

LoadCheckpoint ==
  /\ mode = "load"
  /\ tracker # Torn
  /\ \E m \in ResumeModes \ {"disable"} : \E s \in Source(m) : LoadFrom(s)

(* int('') of a truncated tracker raises, even for resume_path; so does a  *)
(* missing or truncated file below the folder.                             *)
LoadFails ==
  /\ mode = "load"
  /\ \E m \in ResumeModes \ {"disable"} :
       \/ tracker = Torn
       \/ \E s \in Source(m) : ~Loadable(s)
  /\ mode' = "failed"
  /\ UNCHANGED <<disk, step, pos, epoch, isLast, role, worker, ghost>>

-----------------------------------------------------------------------------
(* The training loop.                                                      *)

(* Mutant: the last step is saved like any other. *)
SaveDue_NotLast(last, esi) == SaveFreq > 0 /\ (step % SaveFreq = 0 \/ esi)

(* esi: the instance is about to expire (should_save_ckpt_esi). *)
SaveDue(last, esi) ==
  SaveFreq > 0 /\ (last \/ step % SaveFreq = 0 \/ esi)

TrainStep ==
  /\ mode = "train"
  /\ step \in Step
  /\ epoch < Epochs /\ pos < Batches
  /\ pos' = pos + 1
  /\ isLast' = (step >= Total)
  /\ \E esi \in BOOLEAN :
       mode' = IF SaveDue(step >= Total, esi) THEN "save" ELSE "stepped"
  /\ UNCHANGED <<disk, step, epoch, role, worker, ghost>>

EndStep ==
  /\ mode = "stepped"
  /\ step' = step + 1
  /\ mode' = IF isLast THEN "done" ELSE "train"
  /\ UNCHANGED <<disk, pos, epoch, isLast, role, worker, ghost>>

(* The dataloader is exhausted: the next epoch starts it over. *)
NextEpoch ==
  /\ mode = "train"
  /\ epoch < Epochs /\ pos = Batches
  /\ epoch' = epoch + 1
  /\ pos' = 0
  /\ UNCHANGED <<disk, mode, step, isLast, role, worker, ghost>>

(* The epochs are over before total_training_steps: fit returns. *)
EpochsOver ==
  /\ mode = "train"
  /\ epoch = Epochs
  /\ mode' = "done"
  /\ UNCHANGED <<disk, step, pos, epoch, isLast, role, worker, ghost>>

-----------------------------------------------------------------------------
(* save_checkpoint on the ranks of the group that is saving.               *)

(* Mutants: one path too many is kept, one path too many is removed. *)
KeepStart_OneMore(ro) ==
  IF MaxKeep[ro] > 0 /\ Len(prev[ro]) >= MaxKeep[ro]
  THEN Len(prev[ro]) - MaxKeep[ro] ELSE 0

KeepStart_OneLess(ro) ==
  IF MaxKeep[ro] > 0 /\ Len(prev[ro]) >= MaxKeep[ro]
  THEN Len(prev[ro]) - MaxKeep[ro] + 2 ELSE 0

(* How many of the oldest paths rank 0 removes: len - max + 1. *)
KeepStart(ro) ==
  IF MaxKeep[ro] > 0 /\ Len(prev[ro]) >= MaxKeep[ro]
  THEN Len(prev[ro]) - MaxKeep[ro] + 1 ELSE 0

(* Rank 0 picks what to remove and forgets it. *)
Prune ==
  /\ mode = "save" /\ at[Rank0] = "enter"
  /\ victims' = {prev[role][i] : i \in 1 .. KeepStart(role)}
  /\ prev' = [prev EXCEPT ![role] = SubSeq(@, KeepStart(role) + 1, Len(@))]
  /\ at' = [at EXCEPT ![Rank0] = "prune"]
  /\ UNCHANGED <<disk, driver, ghost>>

(* rmtree of the next path in the list, one file at a time. *)
RemoveFile ==
  /\ at[Rank0] = "prune"
  /\ \E s \in victims :
       /\ \A t \in victims : s <= t
       /\ \E r \in Rank :
            /\ shard[role][s][r] # NoFile
            /\ shard' = [shard EXCEPT ![role][s][r] = NoFile]
  /\ UNCHANGED <<folder, data, tracker, driver, worker, ghost>>

PathRemoved ==
  /\ at[Rank0] = "prune"
  /\ \E s \in victims :
       /\ \A t \in victims : s <= t
       /\ \A r \in Rank : shard[role][s][r] = NoFile
       /\ victims' = victims \ {s}
  /\ UNCHANGED <<disk, driver, prev, at, ghost>>

(* local_mkdir_safe, and the rank waits at the first barrier. *)
MakeDir(r) ==
  /\ mode = "save"
  /\ IF r = Rank0 THEN at[r] = "prune" /\ victims = {} ELSE at[r] = "enter"
  /\ at' = [at EXCEPT ![r] = "ready"]
  /\ folder' = folder \cup {step}
  /\ UNCHANGED <<shard, data, tracker, driver, prev, victims, ghost>>

(* Mutant: a barrier that a rank no longer passes once another left it. *)
OpenShard_Barrier(r) ==
  /\ at[r] = "ready"
  /\ \A q \in Rank : at[q] = "ready"
  /\ at' = [at EXCEPT ![r] = "writing"]
  /\ shard' = [shard EXCEPT ![role][step][r] = Torn]
  /\ UNCHANGED <<folder, data, tracker, driver, prev, victims, ghost>>

(* All ranks reached the first barrier: a rank opens its files. *)
OpenShard(r) ==
  /\ at[r] = "ready"
  /\ \A q \in Rank : at[q] \in {"ready", "writing", "written"}
  /\ at' = [at EXCEPT ![r] = "writing"]
  /\ shard' = [shard EXCEPT ![role][step][r] = Torn]
  /\ UNCHANGED <<folder, data, tracker, driver, prev, victims, ghost>>

WriteShard(r) ==
  /\ at[r] = "writing"
  /\ at' = [at EXCEPT ![r] = "written"]
  /\ shard' = [shard EXCEPT ![role][step][r] = run]
  /\ UNCHANGED <<folder, data, tracker, driver, prev, victims, ghost>>

(* The last barrier: the path is remembered, the driver goes on with the   *)
(* critic or with its own files.                                           *)
GroupSaved ==
  /\ mode = "save"
  /\ \A r \in Rank : at[r] = "written"
  /\ prev' = [prev EXCEPT ![role] = Append(@, step)]
  /\ at' = [r \in Rank |-> "enter"]
  /\ IF UseCritic /\ role = "actor"
     THEN role' = "critic" /\ UNCHANGED mode
     ELSE role' = "actor" /\ mode' = "data"
  /\ UNCHANGED <<disk, step, pos, epoch, isLast, victims, ghost>>

(* data.pt and the tracker file, each opened and then written. *)
OpenData ==
  /\ mode = "data"
  /\ mode' = "dataWrite"
  /\ folder' = folder \cup {step}
  /\ data' = [data EXCEPT ![step] = Torn]
  /\ UNCHANGED <<shard, tracker, step, pos, epoch, isLast, role, worker, ghost>>

WriteData ==
  /\ mode = "dataWrite"
  /\ mode' = "track"
  /\ data' = [data EXCEPT ![step] = pos]
  /\ UNCHANGED <<shard, folder, tracker, step, pos, epoch, isLast, role, worker, ghost>>

OpenTracker ==
  /\ mode = "track"
  /\ mode' = "trackWrite"
  /\ tracker' = Torn
  /\ UNCHANGED <<shard, folder, data, step, pos, epoch, isLast, role, worker, ghost>>

WriteTracker ==
  /\ mode = "trackWrite"
  /\ mode' = "stepped"
  /\ tracker' = step
  /\ durable' = step
  /\ UNCHANGED <<shard, folder, data, step, pos, epoch, isLast, role, worker, run>>

-----------------------------------------------------------------------------
DriverStep ==
  \/ LoadNothing \/ LoadCheckpoint \/ LoadFails
  \/ TrainStep \/ EndStep \/ NextEpoch \/ EpochsOver
  \/ GroupSaved \/ OpenData \/ WriteData \/ OpenTracker \/ WriteTracker

RankStep(r) == MakeDir(r) \/ OpenShard(r) \/ WriteShard(r)

PruneStep == Prune \/ RemoveFile \/ PathRemoved

Next == \/ Start
        \/ Crash
        \/ DriverStep
        \/ PruneStep
        \/ \E r \in Rank : RankStep(r)

Spec == Init /\ [][Next]_vars

(* A started job keeps computing; nobody has to start it, or to kill it. *)
Fairness == /\ WF_vars(DriverStep)
            /\ WF_vars(PruneStep)
            /\ \A r \in Rank : WF_vars(RankStep(r))

FairSpec == Spec /\ Fairness

-----------------------------------------------------------------------------
(* Safety.                                                                 *)

(* The step the tracker file names can be resumed from: every shard of     *)
(* every group is complete, all were written by one run, and so is         *)
(* data.pt.  Needs a retention bound that spares the last checkpoint while *)
(* the next is written, and starts that resume where the tracker points.   *)
WholeCheckpoint(s) ==
  /\ s \in folder
  /\ \A ro \in Roles : \E g \in Run : \A r \in Rank : shard[ro][s][r] = g
  /\ data[s] >= 0

TrackerNamesWhole == tracker \in Step => WholeCheckpoint(tracker)

(* While a step is about to be executed, the dataloader stands where the   *)
(* step number says: no batch is skipped or repeated across a resume.      *)
DataAligned == mode = "train" => (step - 1 - pos) % Batches = 0

(* A run never holds more checkpoints of its own than the retention bound, *)
(* counted even while the new one is being written.                        *)
OwnCheckpoints(ro) ==
  {s \in Step : \E r \in Rank : shard[ro][s][r] = run}

RetentionOfRun ==
  \A ro \in Roles : MaxKeep[ro] > 0 =>
    Cardinality(OwnCheckpoints(ro)) <= MaxKeep[ro]

(* A job that ended did so with its last step saved. *)
FinalStepSaved == mode = "done" => durable = step - 1

(* A job that cannot crash any more ends: no rank waits at a barrier for   *)
(* ever and every save completes.                                          *)
JobEnds == mode \notin Idle ~> mode \in Idle

(* What DurableTraining promises. *)
Durable == INSTANCE DurableTraining WITH
             alive <- mode \notin Idle \cup {"load"},
             at    <- IF mode \in Idle \cup {"load"} THEN 0 ELSE step,
             saved <- durable

ImplementsDurable == Durable!Spec

(* "auto": resume from last checkpoint if available (ppo_trainer.yaml:282). *)
AutoStarts == mode # "failed"
=============================================================================
