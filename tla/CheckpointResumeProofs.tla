----------------------- MODULE CheckpointResumeProofs -----------------------
(***************************************************************************)
(* Proofs about CheckpointResume for every set of ranks, every number of   *)
(* steps and of starts.  Types and retention need no hypothesis; the rest  *)
(* needs SafeConfig: a retention bound other than 1, and starts that       *)
(* resume where the tracker points.                                        *)
(***************************************************************************)
EXTENDS CheckpointResume, SequenceTheorems, FiniteSetTheorems, TLAPS

SafeConfig == /\ ResumeModes = {"auto"}
              /\ \A ro \in Role : MaxKeep[ro] # 1

Saving == {"save", "data", "dataWrite", "track", "trackWrite"}
Alive  == Saving \cup {"train", "stepped"}

(* A step that is being saved is within the bound, and ranks move only     *)
(* during a save: what TypeOK needs to be inductive.                       *)
TypeInv == /\ TypeOK
           /\ mode \in Saving \cup {"stepped"} => step \in Step
           /\ \A r \in Rank : at[r] # "enter" => mode = "save"

(* What the step number, the history and the tracker say of each other. *)
StepInv ==
  /\ mode \in Alive => step >= 1
  /\ mode \in Saving \cup {"train"} => durable < step
  /\ mode = "stepped" => durable <= step
  /\ tracker \in Step => durable = tracker
  /\ tracker = NoFile => durable = 0

(* Rank 0 leaves the removal only when nothing is left to remove; what it   *)
(* removes is older than the last durable step.                            *)
RankInv ==
  /\ role \in Roles
  /\ mode # "save" => role = "actor"
  /\ \A s \in victims : at[Rank0] = "prune" /\ s < durable

(* Rank 0's list grows with the steps; the group about to prune has not    *)
(* saved the current step yet.                                             *)
PrevInv ==
  /\ \A ro \in Role : \A i, j \in 1 .. Len(prev[ro]) :
        i < j => prev[ro][i] < prev[ro][j]
  /\ mode = "load" => \A ro \in Role : prev[ro] = <<>>
  /\ mode \in Alive =>
        \A ro \in Role : \A i \in 1 .. Len(prev[ro]) : prev[ro][i] <= step
  /\ mode \in {"train", "stepped"} =>
        \A ro \in Role : \A i \in 1 .. Len(prev[ro]) : prev[ro][i] <= durable
  /\ mode = "save" =>
        \A ro \in Role : ro = role \/ role = "actor" =>
           \A i \in 1 .. Len(prev[ro]) : prev[ro][i] <= durable

(* What the save in progress has completed. *)
SaveInv ==
  /\ \A r \in Rank : at[r] \in {"ready", "writing", "written"} => step \in folder
  /\ \A r \in Rank : at[r] = "written" => shard[role][step][r] = run
  /\ mode = "save" /\ role = "critic" =>
        \A r \in Rank : shard["actor"][step][r] = run
  /\ mode \in Saving \ {"save"} =>
        /\ \A ro \in Roles : \A r \in Rank : shard[ro][step][r] = run
        /\ step \in folder
  /\ mode \in {"track", "trackWrite"} => data[step] >= 0

IInv == /\ TypeInv
        /\ StepInv
        /\ RankInv
        /\ PrevInv
        /\ SaveInv
        /\ TrackerNamesWhole

-----------------------------------------------------------------------------
(* Writing one shard changes that shard only, and keeps the type. *)
LEMMA ShardUpdate ==
  ASSUME TypeOK, NEW ro \in Role, NEW s \in Step, NEW r \in Rank,
         NEW v \in {NoFile, Torn} \cup Run,
         shard' = [shard EXCEPT ![ro][s][r] = v]
  PROVE  /\ shard' \in [Role -> [Step -> [Rank -> {NoFile, Torn} \cup Run]]]
         /\ \A o \in Role, t \in Step, q \in Rank :
              shard'[o][t][q] = IF o = ro /\ t = s /\ q = r
                                THEN v ELSE shard[o][t][q]
  BY DEF TypeOK

(* The list rank 0 keeps after pruning: its last elements, in order. *)
LEMMA PruneList ==
  ASSUME TypeOK, NEW ro \in Role
  PROVE  LET k == KeepStart(ro)
             rest == SubSeq(prev[ro], k + 1, Len(prev[ro]))
         IN  /\ k \in 0 .. Len(prev[ro])
             /\ MaxKeep[ro] # 1 /\ k > 0 => k < Len(prev[ro])
             /\ rest \in Seq(Step)
             /\ Len(rest) = Len(prev[ro]) - k
             /\ \A i \in 1 .. Len(rest) : rest[i] = prev[ro][i + k]
<1> DEFINE n == Len(prev[ro])
           k == KeepStart(ro)
           rest == SubSeq(prev[ro], k + 1, n)
<1>1. prev[ro] \in Seq(Step) /\ n \in Nat
  BY LenProperties DEF TypeOK
<1>2. MaxKeep[ro] \in Nat
  BY CkptAssumption DEF CkptAssumption
<1>3. k \in 0 .. n /\ (MaxKeep[ro] # 1 /\ k > 0 => k < n)
  BY <1>1, <1>2 DEF KeepStart
<1>4. rest = [i \in 1 .. (n - k) |-> prev[ro][i + k]]
  BY <1>1, <1>3
<1>5. \A i \in 1 .. (n - k) : prev[ro][i + k] \in Step
  BY <1>1, <1>3, ElementOfSeq
<1>6. rest \in Seq(Step) /\ Len(rest) = n - k
  BY <1>1, <1>3, <1>4, <1>5, SubSeqProperties
<1> QED
  BY <1>3, <1>4, <1>6

LEMMA TypeInit == Init => TypeInv
<1> SUFFICES ASSUME Init PROVE TypeInv
  OBVIOUS
<1> USE CkptAssumption DEF CkptAssumption
<1>1. prev \in [Role -> Seq(Step)]
  BY EmptySeq DEF Init
<1>2. shard \in [Role -> [Step -> [Rank -> {NoFile, Torn} \cup Run]]]
  BY DEF Init
<1>3. data \in [Step -> {NoFile, Torn} \cup 0 .. Batches]
  BY DEF Init
<1>4. at \in [Rank -> {"enter"}]
  BY DEF Init
<1>5. run \in Run /\ durable \in 0 .. MaxStep /\ step \in 0 .. MaxStep + 1
      /\ pos \in 0 .. Batches /\ epoch \in 0 .. Epochs
  BY DEF Init, Run
<1> QED
  BY <1>1, <1>2, <1>3, <1>4, <1>5
  DEF Init, TypeOK, TypeInv, Idle, Role, Saving

LEMMA ForgetType ==
  ASSUME ForgetAll
  PROVE  /\ prev' \in [Role -> Seq(Step)]
         /\ step' = 0 /\ pos' = 0 /\ epoch' = 0 /\ isLast' = FALSE
         /\ role' = "actor" /\ victims' = {}
         /\ at' \in [Rank -> {"enter"}]
  BY EmptySeq DEF ForgetAll

LEMMA TypeStep == TypeInv /\ [Next]_vars => TypeInv'
<1> SUFFICES ASSUME TypeInv, [Next]_vars PROVE TypeInv'
  OBVIOUS
<1> USE CkptAssumption DEF Idle, Saving
<1>1. CASE Start
  <2>1. run' \in Run
    BY <1>1 DEF Start, TypeInv, TypeOK, CkptAssumption, Run
  <2> QED
    BY <1>1, <2>1, ForgetType
    DEF Start, disk, TypeInv, TypeOK, CkptAssumption, Role
<1>2. CASE Crash
  BY <1>2, ForgetType DEF Crash, disk, ghost, TypeInv, TypeOK, CkptAssumption, Role
<1>3. CASE LoadNothing
  BY <1>3 DEF LoadNothing, disk, worker, ghost, TypeInv, TypeOK, CkptAssumption
<1>4. CASE LoadCheckpoint
  <2>1. PICK m \in ResumeModes \ {"disable"} : \E s \in Source(m) : LoadFrom(s)
    BY <1>4 DEF LoadCheckpoint
  <2>2. PICK s \in Step : LoadFrom(s)
    BY <2>1 DEF Source, Latest, TypeInv, TypeOK
  <2>3. mode = "load"
    BY <1>4 DEF LoadCheckpoint
  <2> QED
    BY <2>2, <2>3 DEF LoadFrom, Loadable, disk, worker, ghost, TypeInv, TypeOK, Step,
                CkptAssumption, NoFile, Torn
<1>5. CASE LoadFails
  BY <1>5 DEF LoadFails, disk, worker, ghost, TypeInv, TypeOK
<1>6. CASE TrainStep
  BY <1>6 DEF TrainStep, disk, worker, ghost, TypeInv, TypeOK, CkptAssumption
<1>7. CASE EndStep
  BY <1>7 DEF EndStep, disk, worker, ghost, TypeInv, TypeOK, Step, CkptAssumption
<1>8. CASE NextEpoch
  BY <1>8 DEF NextEpoch, disk, worker, ghost, TypeInv, TypeOK, CkptAssumption
<1>9. CASE EpochsOver
  BY <1>9 DEF EpochsOver, disk, worker, ghost, TypeInv, TypeOK
<1>10. CASE Prune
  <2>1. role \in Role /\ Rank0 \in Rank
    BY DEF TypeInv, TypeOK, CkptAssumption
  <2>2. prev' \in [Role -> Seq(Step)]
    BY <1>10, <2>1, PruneList DEF Prune, TypeInv, TypeOK
  <2>3. victims' \subseteq Step
    BY <1>10, <2>1, PruneList, ElementOfSeq DEF Prune, TypeInv, TypeOK
  <2> QED
    BY <1>10, <2>1, <2>2, <2>3 DEF Prune, disk, driver, ghost, TypeInv, TypeOK
<1>11. CASE RemoveFile
  <2>1. PICK s \in victims, r \in Rank :
           shard' = [shard EXCEPT ![role][s][r] = NoFile]
    BY <1>11 DEF RemoveFile
  <2> QED
    BY <1>11, <2>1, ShardUpdate
    DEF RemoveFile, driver, worker, ghost, TypeInv, TypeOK
<1>12. CASE PathRemoved
  BY <1>12 DEF PathRemoved, disk, driver, ghost, TypeInv, TypeOK
<1>13. CASE \E r \in Rank : MakeDir(r)
  BY <1>13 DEF MakeDir, driver, ghost, TypeInv, TypeOK
<1>14. CASE \E r \in Rank : OpenShard(r)
  <2>1. PICK r \in Rank : OpenShard(r)
    BY <1>14
  <2> QED
    BY <2>1, ShardUpdate DEF OpenShard, driver, ghost, TypeInv, TypeOK
<1>15. CASE \E r \in Rank : WriteShard(r)
  <2>1. PICK r \in Rank : WriteShard(r)
    BY <1>15
  <2>2. run \in {NoFile, Torn} \cup Run /\ role \in Role /\ step \in Step
    BY <2>1 DEF WriteShard, TypeInv, TypeOK
  <2> QED
    BY <2>1, <2>2, ShardUpdate DEF WriteShard, driver, ghost, TypeInv, TypeOK
<1>16. CASE GroupSaved
  <2>1. prev' \in [Role -> Seq(Step)]
    BY <1>16, AppendProperties DEF GroupSaved, TypeInv, TypeOK
  <2> QED
    BY <1>16, <2>1 DEF GroupSaved, disk, ghost, TypeInv, TypeOK, Role
<1>17. CASE OpenData
  BY <1>17 DEF OpenData, worker, ghost, TypeInv, TypeOK
<1>18. CASE WriteData
  BY <1>18 DEF WriteData, worker, ghost, TypeInv, TypeOK
<1>19. CASE OpenTracker
  BY <1>19 DEF OpenTracker, worker, ghost, TypeInv, TypeOK
<1>20. CASE WriteTracker
  BY <1>20 DEF WriteTracker, worker, TypeInv, TypeOK, Step, CkptAssumption
<1>21. CASE UNCHANGED vars
  BY <1>21 DEF vars, disk, driver, worker, ghost, TypeInv, TypeOK
<1> QED
  BY <1>1, <1>2, <1>3, <1>4, <1>5, <1>6, <1>7, <1>8, <1>9, <1>10, <1>11, <1>12,
     <1>13, <1>14, <1>15, <1>16, <1>17, <1>18, <1>19, <1>20, <1>21
  DEF Next, DriverStep, RankStep, PruneStep

(* Every variable keeps its type, whatever the configuration. *)
THEOREM TypeCorrect == Spec => []TypeOK
  BY TypeInit, TypeStep, PTL DEF Spec, TypeInv

-----------------------------------------------------------------------------
(* The invariant behind TrackerNamesWhole and ImplementsDurable, one lemma *)
(* per conjunct.                                                           *)

LEMMA RolesFact == Roles \subseteq Role /\ "actor" \in Roles /\ (UseCritic => Roles = Role)
  BY DEF Roles, Role

(* A start under SafeConfig finds nothing, or what was made durable last. *)
LEMMA LoadFact ==
  ASSUME IInv, SafeConfig
  PROVE  /\ LoadNothing => durable = 0 /\ mode = "load" /\ tracker = NoFile
         /\ LoadCheckpoint => durable \in Step /\ mode = "load" /\ LoadFrom(durable)
<1>1. tracker \in {NoFile, Torn} \cup Step /\ folder \subseteq Step
  BY DEF IInv, TypeInv, TypeOK
<1>2. ASSUME LoadNothing PROVE durable = 0 /\ mode = "load" /\ tracker = NoFile
  <2>1. tracker # Torn /\ tracker \notin folder
    BY <1>2 DEF LoadNothing, SafeConfig, Latest
  <2> QED
    BY <1>1, <1>2, <2>1
    DEF LoadNothing, IInv, TrackerNamesWhole, WholeCheckpoint, StepInv
<1>3. ASSUME LoadCheckpoint
      PROVE durable \in Step /\ mode = "load" /\ LoadFrom(durable)
  <2>1. PICK s \in Source("auto") : LoadFrom(s)
    BY <1>3 DEF LoadCheckpoint, SafeConfig
  <2>2. s \in Step /\ s = tracker
    BY <1>1, <2>1 DEF Source, Latest
  <2> QED
    BY <1>3, <2>1, <2>2 DEF LoadCheckpoint, IInv, StepInv
<1> QED
  BY <1>2, <1>3

LEMMA StepInvStep == IInv /\ SafeConfig /\ [Next]_vars => StepInv'
<1> SUFFICES ASSUME IInv, SafeConfig, [Next]_vars PROVE StepInv'
  OBVIOUS
<1>t. /\ TypeOK /\ StepInv /\ step \in Int /\ durable \in Int
      /\ mode \in Saving \cup {"stepped"} => step \in Step
  BY CkptAssumption DEF IInv, TypeInv, TypeOK, CkptAssumption
<1> USE DEF StepInv, Saving, Alive, Idle
<1>1. CASE Start \/ Crash
  BY <1>1, <1>t DEF Start, Crash, ForgetAll, disk, ghost
<1>2. CASE LoadNothing
  BY <1>2, <1>t, LoadFact DEF LoadNothing, disk, ghost
<1>3. CASE LoadCheckpoint
  BY <1>3, <1>t, LoadFact DEF LoadFrom, disk, ghost, Step
<1>4. CASE LoadFails \/ EpochsOver
  BY <1>4, <1>t DEF LoadFails, EpochsOver, disk, ghost
<1>5. CASE TrainStep \/ NextEpoch
  BY <1>5, <1>t DEF TrainStep, NextEpoch, disk, ghost
<1>6. CASE EndStep
  BY <1>6, <1>t DEF EndStep, disk, ghost
<1>7. CASE PruneStep
  BY <1>7, <1>t DEF PruneStep, Prune, RemoveFile, PathRemoved, disk, driver, ghost
<1>8. CASE \E r \in Rank : RankStep(r)
  BY <1>8, <1>t DEF RankStep, MakeDir, OpenShard, WriteShard, driver, ghost
<1>9. CASE GroupSaved
  BY <1>9, <1>t DEF GroupSaved, disk, ghost
<1>10. CASE OpenData \/ WriteData
  BY <1>10, <1>t DEF OpenData, WriteData, ghost
<1>11. CASE OpenTracker
  BY <1>11, <1>t DEF OpenTracker, ghost, Torn, NoFile, Step
<1>12. CASE WriteTracker
  BY <1>12, <1>t DEF WriteTracker, Step, NoFile
<1>13. CASE UNCHANGED vars
  BY <1>13, <1>t DEF vars, disk, driver, ghost
<1> QED
  BY <1>1, <1>2, <1>3, <1>4, <1>5, <1>6, <1>7, <1>8, <1>9, <1>10, <1>11, <1>12, <1>13
  DEF Next, DriverStep

LEMMA RankInvStep == IInv /\ SafeConfig /\ [Next]_vars => RankInv'
<1> SUFFICES ASSUME IInv, SafeConfig, [Next]_vars PROVE RankInv'
  OBVIOUS
<1>t. /\ RankInv /\ role \in Role /\ victims \subseteq Step /\ Rank0 \in Rank
      /\ at \in [Rank -> {"enter", "prune", "ready", "writing", "written"}]
      /\ \A r \in Rank : at[r] # "enter" => mode = "save"
  BY CkptAssumption DEF IInv, TypeInv, TypeOK, CkptAssumption
<1> USE DEF RankInv
<1>1. CASE Start \/ Crash
  BY <1>1, RolesFact DEF Start, Crash, ForgetAll
<1>2. CASE Prune
  <2> DEFINE k == KeepStart(role)
             n == Len(prev[role])
  <2>1. ASSUME NEW s \in victims' PROVE s < durable
    <3>1. PICK i \in 1 .. k : s = prev[role][i]
      BY <1>2, <2>1 DEF Prune
    <3>2. MaxKeep[role] # 1
      BY <1>t DEF SafeConfig
    <3>3. k \in 0 .. n /\ n \in Nat /\ (k > 0 => k < n)
      BY <1>t, <3>2, PruneList, LenProperties DEF IInv, TypeInv, TypeOK
    <3>4. i \in 1 .. n /\ n \in 1 .. n /\ i < n
      BY <3>3
    <3>5. prev[role][i] < prev[role][n] /\ prev[role][n] <= durable
      BY <1>2, <1>t, <3>4 DEF Prune, IInv, PrevInv
    <3>6. prev[role][i] \in Step /\ prev[role][n] \in Step /\ durable \in Int
      BY <1>t, <3>4, ElementOfSeq, CkptAssumption
      DEF IInv, TypeInv, TypeOK, CkptAssumption
    <3> QED
      BY <3>1, <3>5, <3>6 DEF Step
  <2> QED
    BY <1>2, <1>t, <2>1 DEF Prune, driver, ghost, IInv, TypeInv, TypeOK
<1>3. CASE RemoveFile \/ PathRemoved
  BY <1>3, <1>t DEF RemoveFile, PathRemoved, driver, worker, ghost
<1>4. CASE \E r \in Rank : RankStep(r)
  <2>1. PICK r \in Rank : RankStep(r)
    BY <1>4
  <2>2. UNCHANGED <<mode, role, victims, durable>>
    BY <2>1 DEF RankStep, MakeDir, OpenShard, WriteShard, driver, ghost
  <2>3. at[Rank0] = "prune" => at'[Rank0] = "prune" \/ victims = {}
    BY <2>1, <1>t DEF RankStep, MakeDir, OpenShard, WriteShard
  <2> QED
    BY <1>t, <2>2, <2>3
<1>5. CASE GroupSaved
  <2>1. victims = {}
    BY <1>5, <1>t DEF GroupSaved
  <2>2. /\ role' \in Roles /\ victims' = victims
        /\ mode' # "save" => role' = "actor"
    BY <1>5, RolesFact DEF GroupSaved, Role
  <2> QED
    BY <2>1, <2>2
<1>6. CASE DriverStep /\ ~GroupSaved
  <2>1. victims = {} \/ mode = "save"
    BY <1>t
  <2>2. UNCHANGED <<role, victims, at>> /\ mode # "save"
    BY <1>6 DEF DriverStep, LoadNothing, LoadCheckpoint, LoadFrom, LoadFails,
                TrainStep, EndStep, NextEpoch, EpochsOver, OpenData, WriteData,
                OpenTracker, WriteTracker, worker
  <2> QED
    BY <1>t, <2>1, <2>2
<1>7. CASE UNCHANGED vars
  BY <1>7, <1>t DEF vars, driver, worker, ghost
<1> QED
  BY <1>1, <1>2, <1>3, <1>4, <1>5, <1>6, <1>7 DEF Next, PruneStep

LEMMA PrevInvStep == IInv /\ SafeConfig /\ [Next]_vars => PrevInv'
<1> SUFFICES ASSUME IInv, SafeConfig, [Next]_vars PROVE PrevInv'
  OBVIOUS
<1>t. /\ PrevInv /\ StepInv /\ role \in Role
      /\ prev \in [Role -> Seq(Step)] /\ step \in Int /\ durable \in Int
      /\ \A ro \in Role : Len(prev[ro]) \in Nat
      /\ \A ro \in Role : \A i \in 1 .. Len(prev[ro]) : prev[ro][i] \in Int
  <2>1. \A ro \in Role : prev[ro] \in Seq(Step)
    BY DEF IInv, TypeInv, TypeOK
  <2>2. \A ro \in Role : \A i \in 1 .. Len(prev[ro]) : prev[ro][i] \in Step
    BY <2>1, ElementOfSeq
  <2>3. \A ro \in Role : Len(prev[ro]) \in Nat
    BY <2>1, LenProperties
  <2> QED
    BY <2>2, <2>3, CkptAssumption DEF IInv, TypeInv, TypeOK, CkptAssumption, Step
<1> USE DEF Saving, Alive, Idle
<1>1. CASE Start \/ Crash
  <2>1. \A ro \in Role : prev'[ro] = <<>>
    BY <1>1 DEF Start, Crash, ForgetAll
  <2>2. \A ro \in Role : Len(prev'[ro]) = 0
    BY <2>1
  <2> QED
    BY <1>1, <2>1, <2>2 DEF Start, Crash, PrevInv
<1>2. CASE LoadNothing \/ LoadCheckpoint
  <2>1. mode = "load" /\ mode' = "train" /\ UNCHANGED prev
    BY <1>2, LoadFact DEF LoadNothing, LoadFrom, worker
  <2>2. \A ro \in Role : Len(prev[ro]) = 0
    BY <2>1, <1>t DEF PrevInv
  <2> QED
    BY <2>1, <2>2, <1>t DEF PrevInv
<1>3. CASE LoadFails \/ EpochsOver
  BY <1>3, <1>t DEF LoadFails, EpochsOver, PrevInv, worker, ghost
<1>4. CASE TrainStep \/ NextEpoch
  BY <1>4, <1>t DEF TrainStep, NextEpoch, PrevInv, worker, ghost
<1>5. CASE EndStep
  <2>1. \A ro \in Role : \A i \in 1 .. Len(prev[ro]) : prev[ro][i] <= step + 1
    BY <1>5, <1>t DEF EndStep, PrevInv
  <2> QED
    BY <1>5, <1>t, <2>1 DEF EndStep, PrevInv, worker, ghost
<1>6. CASE Prune
  <2> DEFINE k == KeepStart(role)
  <2>1. /\ k \in Nat
        /\ Len(prev'[role]) = Len(prev[role]) - k
        /\ \A i \in 1 .. Len(prev'[role]) : prev'[role][i] = prev[role][i + k]
        /\ \A ro \in Role : ro # role => prev'[ro] = prev[ro]
    BY <1>6, <1>t, PruneList DEF Prune, IInv, TypeInv
  <2>2. \A i \in 1 .. Len(prev'[role]) : i + k \in 1 .. Len(prev[role])
    BY <2>1, <1>t
  <2>3. \A i, j \in 1 .. Len(prev'[role]) :
           i < j => prev'[role][i] < prev'[role][j]
    <3> SUFFICES ASSUME NEW i \in 1 .. Len(prev'[role]),
                        NEW j \in 1 .. Len(prev'[role]), i < j
                 PROVE  prev'[role][i] < prev'[role][j]
      OBVIOUS
    <3>1. i \in Nat /\ j \in Nat /\ i + k < j + k
      BY <2>1, <1>t
    <3> HIDE DEF k
    <3>2. prev[role][i + k] < prev[role][j + k]
      BY <2>2, <3>1, <1>t DEF PrevInv
    <3> QED
      BY <2>1, <3>2
  <2>4. UNCHANGED <<mode, step, role, durable>> /\ mode = "save"
    BY <1>6 DEF Prune, driver, ghost
  <2>5. \A i \in 1 .. Len(prev'[role]) :
           prev'[role][i] <= step /\ prev'[role][i] <= durable
    BY <2>1, <2>2, <2>4, <1>t DEF PrevInv
  <2> QED
    BY <2>1, <2>3, <2>4, <2>5, <1>t DEF PrevInv
<1>7. CASE RemoveFile \/ PathRemoved
  BY <1>7, <1>t DEF RemoveFile, PathRemoved, PrevInv, driver, worker, ghost
<1>8. CASE \E r \in Rank : RankStep(r)
  BY <1>8, <1>t DEF RankStep, MakeDir, OpenShard, WriteShard, PrevInv, driver, ghost
<1>9. CASE GroupSaved
  <2> DEFINE n == Len(prev[role])
  <2>1. /\ Len(prev'[role]) = n + 1
        /\ prev'[role][n + 1] = step
        /\ \A i \in 1 .. n : prev'[role][i] = prev[role][i]
        /\ \A ro \in Role : ro # role => prev'[ro] = prev[ro]
    BY <1>9, <1>t, AppendProperties DEF GroupSaved
  <2>2. \A i \in 1 .. n : prev[role][i] < step
    BY <1>9, <1>t DEF GroupSaved, PrevInv, StepInv
  <2>3. \A i \in 1 .. n + 1 : i \in 1 .. n \/ i = n + 1
    BY <1>t
  <2>4. \A i, j \in 1 .. Len(prev'[role]) :
           i < j => prev'[role][i] < prev'[role][j]
    BY <2>1, <2>2, <2>3, <1>t DEF PrevInv
  <2>5. \A i \in 1 .. Len(prev'[role]) : prev'[role][i] <= step
    BY <2>1, <2>2, <2>3, <1>t
  <2>6. mode = "save" /\ UNCHANGED <<step, durable>>
    BY <1>9 DEF GroupSaved, ghost
  <2>7. \/ role' = "critic" /\ role = "actor" /\ mode' = "save"
        \/ mode' = "data"
    BY <1>9 DEF GroupSaved
  <2> QED
    BY <2>1, <2>4, <2>5, <2>6, <2>7, <1>t DEF PrevInv
<1>10. CASE OpenData \/ WriteData \/ OpenTracker
  BY <1>10, <1>t DEF OpenData, WriteData, OpenTracker, PrevInv, worker, ghost
<1>11. CASE WriteTracker
  BY <1>11, <1>t DEF WriteTracker, PrevInv, worker
<1>12. CASE UNCHANGED vars
  BY <1>12, <1>t DEF vars, driver, worker, ghost, PrevInv
<1> QED
  BY <1>1, <1>2, <1>3, <1>4, <1>5, <1>6, <1>7, <1>8, <1>9, <1>10, <1>11, <1>12
  DEF Next, DriverStep, PruneStep

LEMMA SaveInvStep == IInv /\ SafeConfig /\ [Next]_vars => SaveInv'
<1> SUFFICES ASSUME IInv, SafeConfig, [Next]_vars PROVE SaveInv'
  OBVIOUS
<1>t. /\ SaveInv /\ StepInv /\ RankInv /\ TypeOK /\ role \in Role
      /\ step \in Int /\ durable \in Int
      /\ \A r \in Rank : at[r] # "enter" => mode = "save"
      /\ mode \in Saving \cup {"stepped"} => step \in Step
  BY CkptAssumption DEF IInv, TypeInv, TypeOK, CkptAssumption
<1> USE DEF Saving, Alive, Idle
<1>1. CASE Start \/ Crash
  <2>1. \A r \in Rank : at'[r] = "enter"
    BY <1>1 DEF Start, Crash, ForgetAll
  <2> QED
    BY <1>1, <2>1 DEF Start, Crash, SaveInv
<1>2. CASE /\ mode \notin Saving
           /\ UNCHANGED <<shard, folder, data, at, role, run>>
           /\ mode' \in {"save"} \cup Idle \cup {"load", "train", "stepped"}
           /\ mode' = "save" => role' = "actor"
  <2>1. \A r \in Rank : at[r] = "enter"
    BY <1>2, <1>t
  <2> QED
    BY <1>2, <2>1 DEF SaveInv
<1>3. CASE Prune \/ PathRemoved
  BY <1>3, <1>t DEF Prune, PathRemoved, SaveInv, disk, driver, ghost, TypeOK
<1>4. CASE RemoveFile
  <2>1. PICK s \in victims, r \in Rank :
           shard' = [shard EXCEPT ![role][s][r] = NoFile]
    BY <1>4 DEF RemoveFile
  <2>2. s \in Step /\ s # step /\ mode = "save"
    BY <1>t, CkptAssumption DEF RankInv, StepInv, TypeOK, CkptAssumption, Step
  <2>3. \A o \in Role, q \in Rank : shard'[o][step][q] = shard[o][step][q]
    BY <1>t, <2>1, <2>2, ShardUpdate
  <2> QED
    BY <1>4, <1>t, <2>2, <2>3, RolesFact
    DEF RemoveFile, SaveInv, driver, worker, ghost, Role
<1>5. CASE \E r \in Rank : MakeDir(r)
  BY <1>5, <1>t DEF MakeDir, SaveInv, driver, ghost, TypeOK
<1>6. CASE \E r \in Rank : OpenShard(r) \/ WriteShard(r)
  <2>1. PICK r \in Rank, v \in {Torn} \cup Run :
           /\ shard' = [shard EXCEPT ![role][step][r] = v]
           /\ at[r] # "enter" /\ at[r] \in {"ready", "writing"}
           /\ \/ at' = [at EXCEPT ![r] = "writing"]
              \/ at' = [at EXCEPT ![r] = "written"] /\ v = run
           /\ UNCHANGED <<folder, data, driver, ghost>>
    BY <1>6, <1>t DEF OpenShard, WriteShard, TypeOK
  <2>2. mode = "save" /\ step \in Step
    BY <1>t, <2>1
  <2>3. \A o \in Role, q \in Rank :
           shard'[o][step][q] = IF o = role /\ q = r THEN v ELSE shard[o][step][q]
    BY <1>t, <2>1, <2>2 DEF TypeOK
  <2>4. step \in folder
    BY <1>t, <2>1 DEF SaveInv
  <2> QED
    BY <1>t, <2>1, <2>2, <2>3, <2>4 DEF SaveInv, driver, ghost, TypeOK, Role
<1>7. CASE GroupSaved
  <2>1. /\ \A r \in Rank : shard[role][step][r] = run
        /\ step \in folder /\ mode = "save"
        /\ \A r \in Rank : at'[r] = "enter"
    BY <1>7, <1>t, CkptAssumption DEF GroupSaved, SaveInv, CkptAssumption
  <2>2. \/ role = "actor" /\ role' = "critic" /\ mode' = "save"
        \/ role = "critic" /\ mode' = "data"
        \/ ~UseCritic /\ role = "actor" /\ mode' = "data"
    BY <1>7, <1>t DEF GroupSaved, Role
  <2>3. UNCHANGED <<shard, folder, step, run>>
    BY <1>7 DEF GroupSaved, disk, ghost
  <2> QED
    BY <2>1, <2>2, <2>3, <1>t DEF SaveInv, Roles, Role
<1>8. CASE OpenData
  BY <1>8, <1>t DEF OpenData, SaveInv, worker, ghost
<1>9. CASE WriteData
  <2>1. data'[step] >= 0
    BY <1>9, <1>t, CkptAssumption DEF WriteData, TypeOK, CkptAssumption
  <2> QED
    BY <1>9, <2>1, <1>t DEF WriteData, SaveInv, worker, ghost
<1>10. CASE OpenTracker \/ WriteTracker
  BY <1>10, <1>t DEF OpenTracker, WriteTracker, SaveInv, worker, ghost
<1>11. CASE UNCHANGED vars
  BY <1>11, <1>t DEF vars, disk, driver, worker, ghost, SaveInv
<1>12. CASE \/ LoadNothing \/ LoadCheckpoint \/ LoadFails
            \/ TrainStep \/ EndStep \/ NextEpoch \/ EpochsOver
  <2> QED
    BY <1>2, <1>12, <1>t DEF RankInv, LoadNothing, LoadCheckpoint, LoadFrom, LoadFails,
       TrainStep, EndStep, NextEpoch, EpochsOver, disk, worker, ghost
<1> QED
  BY <1>1, <1>3, <1>4, <1>5, <1>6, <1>7, <1>8, <1>9, <1>10, <1>11, <1>12
  DEF Next, DriverStep, PruneStep, RankStep

LEMMA TrackerStep == IInv /\ SafeConfig /\ [Next]_vars => TrackerNamesWhole'
<1> SUFFICES ASSUME IInv, SafeConfig, [Next]_vars, tracker' \in Step
             PROVE  WholeCheckpoint(tracker)'
  BY DEF TrackerNamesWhole
<1>t. /\ TypeOK /\ StepInv /\ RankInv /\ SaveInv /\ role \in Role
      /\ tracker \in Step => WholeCheckpoint(tracker) /\ durable = tracker
      /\ mode \in Saving \cup {"stepped"} => step \in Step
      /\ \A r \in Rank : at[r] # "enter" => mode = "save"
      /\ step \in Int
  BY CkptAssumption
  DEF IInv, TypeInv, TypeOK, StepInv, TrackerNamesWhole, CkptAssumption
<1>1. CASE UNCHANGED disk
  BY <1>1, <1>t DEF disk, WholeCheckpoint
<1>2. CASE RemoveFile
  <2>1. PICK s \in victims, r \in Rank :
           shard' = [shard EXCEPT ![role][s][r] = NoFile]
    BY <1>2 DEF RemoveFile
  <2>2. s \in Step /\ s # tracker /\ UNCHANGED <<tracker, folder, data>>
    BY <1>2, <1>t, CkptAssumption DEF RemoveFile, RankInv, TypeOK, CkptAssumption, Step
  <2>3. \A o \in Role, q \in Rank : shard'[o][tracker][q] = shard[o][tracker][q]
    BY <1>t, <2>1, <2>2, ShardUpdate
  <2> QED
    BY <1>t, <2>2, <2>3, RolesFact DEF WholeCheckpoint
<1>3. CASE \E r \in Rank : MakeDir(r)
  BY <1>3, <1>t DEF MakeDir, WholeCheckpoint
<1>4. CASE \E r \in Rank : OpenShard(r) \/ WriteShard(r)
  <2>1. PICK r \in Rank, v \in {Torn} \cup Run :
           /\ shard' = [shard EXCEPT ![role][step][r] = v]
           /\ at[r] # "enter"
           /\ UNCHANGED <<folder, data, tracker>>
    BY <1>4, <1>t DEF OpenShard, WriteShard, TypeOK
  <2>2. mode = "save" /\ step \in Step /\ step # tracker
    BY <1>t, <2>1 DEF StepInv, Saving
  <2>3. \A o \in Role, q \in Rank : shard'[o][tracker][q] = shard[o][tracker][q]
    BY <1>t, <2>1, <2>2 DEF TypeOK
  <2> QED
    BY <1>t, <2>1, <2>3, RolesFact DEF WholeCheckpoint
<1>5. CASE OpenData \/ WriteData
  <2>1. mode \in Saving /\ step # tracker
    BY <1>5, <1>t DEF OpenData, WriteData, StepInv, Saving
  <2>2. /\ UNCHANGED <<shard, tracker>> /\ folder \subseteq folder'
        /\ data'[tracker] = data[tracker]
    BY <1>5, <1>t, <2>1 DEF OpenData, WriteData, TypeOK
  <2> QED
    BY <1>t, <2>2 DEF WholeCheckpoint
<1>6. CASE OpenTracker
  BY <1>6 DEF OpenTracker, Torn, Step
<1>7. CASE WriteTracker
  <2>1. run \in Run
    BY <1>t DEF TypeOK
  <2> QED
    BY <1>7, <1>t, <2>1 DEF WriteTracker, SaveInv, Saving, WholeCheckpoint
<1> QED
  BY <1>1, <1>2, <1>3, <1>4, <1>5, <1>6, <1>7
  DEF Next, DriverStep, PruneStep, RankStep, Start, Crash, LoadNothing,
      LoadCheckpoint, LoadFrom, LoadFails, TrainStep, EndStep, NextEpoch,
      EpochsOver, GroupSaved, Prune, PathRemoved, vars

LEMMA IInvInit == Init => IInv
<1> SUFFICES ASSUME Init PROVE IInv
  OBVIOUS
<1>1. /\ \A ro \in Role : prev[ro] = <<>> /\ Len(prev[ro]) = 0
      /\ \A r \in Rank : at[r] = "enter"
  BY DEF Init
<1>2. TypeInv
  BY TypeInit
<1>3. StepInv /\ RankInv /\ TrackerNamesWhole
  BY RolesFact DEF Init, StepInv, RankInv, TrackerNamesWhole, Saving, Alive, NoFile, Step
<1>4. PrevInv
  BY <1>1 DEF Init, PrevInv, Alive, Saving
<1>5. SaveInv
  BY <1>1 DEF Init, SaveInv, Saving
<1> QED
  BY <1>2, <1>3, <1>4, <1>5 DEF IInv

LEMMA IInvStep == IInv /\ SafeConfig /\ [Next]_vars => IInv'
  BY TypeStep, StepInvStep, RankInvStep, PrevInvStep, SaveInvStep, TrackerStep
  DEF IInv

(* The step the tracker names always has a whole checkpoint, so a start    *)
(* never finds it half written, half removed, or mixed from two runs.      *)
THEOREM TrackerAlwaysWhole == SafeConfig /\ Spec => []TrackerNamesWhole
<1>1. IInv => TrackerNamesWhole
  BY DEF IInv
<1>2. SafeConfig => (Spec => []TrackerNamesWhole)
  <2> SUFFICES ASSUME SafeConfig PROVE Spec => []TrackerNamesWhole
    OBVIOUS
  <2> QED
    BY <1>1, IInvInit, IInvStep, PTL DEF Spec
<1> QED
  BY <1>2

-----------------------------------------------------------------------------
(* Every step of the job is a step of DurableTraining or changes nothing   *)
(* it can see.                                                             *)
LEMMA DurableStep ==
  IInv /\ SafeConfig /\ [Next]_vars => [Durable!Next]_Durable!vars
<1> SUFFICES ASSUME IInv, SafeConfig, [Next]_vars
             PROVE  Durable!Next \/ UNCHANGED Durable!vars
  OBVIOUS
<1> USE DEF Durable!vars, Idle
<1>t. /\ StepInv /\ step \in Int /\ durable \in Int
  BY CkptAssumption DEF IInv, TypeInv, TypeOK, CkptAssumption
<1>1. CASE Start \/ LoadFails
  BY <1>1 DEF Start, LoadFails, ForgetAll, ghost
<1>2. CASE Crash
  BY <1>2 DEF Crash, ghost, Durable!Next, Durable!Stop
<1>3. CASE LoadNothing
  BY <1>3, LoadFact DEF LoadNothing, ghost, Durable!Next, Durable!Resume
<1>4. CASE LoadCheckpoint
  BY <1>4, LoadFact DEF LoadFrom, ghost, Durable!Next, Durable!Resume
<1>5. CASE TrainStep \/ NextEpoch
  BY <1>5 DEF TrainStep, NextEpoch, ghost
<1>6. CASE EndStep
  BY <1>6 DEF EndStep, ghost, Durable!Next, Durable!Advance, Durable!Stop
<1>7. CASE EpochsOver
  BY <1>7 DEF EpochsOver, ghost, Durable!Next, Durable!Stop
<1>8. CASE WriteTracker
  BY <1>8, <1>t DEF WriteTracker, StepInv, Saving, Durable!Next, Durable!Persist
<1>9. CASE GroupSaved
  BY <1>9 DEF GroupSaved, ghost
<1>10. CASE OpenData \/ WriteData \/ OpenTracker
  BY <1>10 DEF OpenData, WriteData, OpenTracker, ghost
<1>11. CASE PruneStep \/ \E r \in Rank : RankStep(r)
  BY <1>11 DEF PruneStep, Prune, RemoveFile, PathRemoved, RankStep, MakeDir,
               OpenShard, WriteShard, driver, ghost
<1>12. CASE UNCHANGED vars
  BY <1>12 DEF vars, driver, ghost
<1> QED
  BY <1>1, <1>2, <1>3, <1>4, <1>5, <1>6, <1>7, <1>8, <1>9, <1>10, <1>11, <1>12
  DEF Next, DriverStep

(* A restarted job resumes right after the last step made durable, or      *)
(* refuses to start: it never resumes from anything else.                  *)
THEOREM Refinement == SafeConfig /\ Spec => ImplementsDurable
<1>1. Init => Durable!Init
  BY DEF Init, Durable!Init, Idle
<1>2. SafeConfig => (Spec => Durable!Spec)
  <2> SUFFICES ASSUME SafeConfig PROVE Spec => Durable!Spec
    OBVIOUS
  <2> QED
    BY <1>1, IInvInit, IInvStep, DurableStep, PTL DEF Spec, Durable!Spec
<1> QED
  BY <1>2 DEF ImplementsDurable

-----------------------------------------------------------------------------
(* The dataloader.                                                         *)

Even(n) == n % Batches = 0

(* Where the dataloader stands, in memory and in every data.pt on disk. *)
AlignInv ==
  /\ mode = "load" => pos = 0
  /\ mode = "train" => Even(step - 1 - pos)
  /\ mode \in Saving \cup {"stepped"} => Even(step - pos)
  /\ \A s \in Step : data[s] >= 0 => Even(s - data[s])

(* An epoch more or less. *)
LEMMA WholeEpochs ==
  /\ Even(0)
  /\ \A n \in Int : Even(n - Batches) => Even(n)
<1>1. Batches \in Nat \ {0}
  BY CkptAssumption
<1>2. 0 % Batches = 0
  BY <1>1
<1>3. ASSUME NEW n \in Int, (n - Batches) % Batches = 0
      PROVE  n % Batches = 0
  BY <1>1, <1>3
<1> QED
  BY <1>2, <1>3 DEF Even

LEMMA AlignStep == IInv /\ SafeConfig /\ AlignInv /\ [Next]_vars => AlignInv'
<1> SUFFICES ASSUME IInv, SafeConfig, AlignInv, [Next]_vars PROVE AlignInv'
  OBVIOUS
<1>t. /\ TypeOK /\ step \in Int /\ pos \in Int /\ Batches \in Int
      /\ data \in [Step -> Int]
      /\ mode \in Saving \cup {"stepped"} => step \in Step
  <2>1. Batches \in Nat /\ MaxStep \in Nat
    BY CkptAssumption
  <2>2. /\ TypeOK
        /\ mode \in Saving \cup {"stepped"} => step \in Step
    BY DEF IInv, TypeInv
  <2>3. step \in Int /\ pos \in Int
    BY <2>1, <2>2 DEF TypeOK
  <2>4. {NoFile, Torn} \cup 0 .. Batches \subseteq Int
    BY <2>1 DEF NoFile, Torn
  <2>5. data \in [Step -> Int]
    BY <2>2, <2>4 DEF TypeOK
  <2> QED
    BY <2>1, <2>2, <2>3, <2>5
<1> USE DEF Saving, Idle
<1>1. CASE Start \/ Crash
  BY <1>1 DEF Start, Crash, ForgetAll, disk, AlignInv
<1>2. CASE LoadNothing
  <2>1. step' - 1 - pos' = 0 /\ mode' = "train" /\ data' = data
    <3>1. /\ mode = "load" /\ mode' = "train" /\ step' = 1 /\ pos' = pos
          /\ data' = data
      BY <1>2 DEF LoadNothing, disk
    <3>2. pos = 0
      BY <3>1 DEF AlignInv
    <3> QED
      BY <3>1, <3>2
  <2> QED
    BY <2>1, WholeEpochs DEF AlignInv
<1>3. CASE LoadCheckpoint
  <2>1. durable \in Step /\ LoadFrom(durable)
    BY <1>3, LoadFact
  <2>2. tracker = durable
    BY <1>3, <2>1 DEF LoadCheckpoint, IInv, StepInv, TypeInv, TypeOK, Step
  <2>3. data[durable] >= 0
    BY <2>1, <2>2 DEF IInv, TrackerNamesWhole, WholeCheckpoint
  <2>4. /\ step' = durable + 1 /\ pos' = data[durable] /\ mode' = "train"
        /\ data' = data
    BY <2>1, <2>3 DEF LoadFrom, NoFile, disk
  <2>5. step' - 1 - pos' = durable - data[durable]
    BY <2>1, <2>4, <1>t DEF Step
  <2> QED
    BY <2>1, <2>3, <2>4, <2>5 DEF AlignInv
<1>4. CASE LoadFails \/ EpochsOver
  BY <1>4 DEF LoadFails, EpochsOver, disk, AlignInv
<1>5. CASE TrainStep
  <2>1. /\ step' - pos' = step - 1 - pos /\ mode = "train" /\ data' = data
        /\ mode' \in {"save", "stepped"}
    BY <1>5, <1>t DEF TrainStep, disk
  <2> QED
    BY <2>1 DEF AlignInv
<1>6. CASE EndStep
  <2>1. /\ step' - 1 - pos' = step - pos /\ mode = "stepped" /\ data' = data
        /\ mode' \in {"done", "train"}
    BY <1>6, <1>t DEF EndStep, disk
  <2> QED
    BY <2>1 DEF AlignInv
<1>7. CASE NextEpoch
  <2>1. /\ (step' - 1 - pos') - Batches = step - 1 - pos
        /\ step' - 1 - pos' \in Int
        /\ mode = "train" /\ mode' = "train" /\ data' = data
    BY <1>7, <1>t DEF NextEpoch, disk
  <2> QED
    BY <2>1, WholeEpochs DEF AlignInv
<1>8. CASE WriteData
  <2>1. /\ mode' = "track" /\ step' = step /\ pos' = pos /\ step \in Step
        /\ Even(step - pos)
        /\ \A s \in Step : data'[s] = IF s = step THEN pos ELSE data[s]
    BY <1>8, <1>t DEF WriteData, AlignInv
  <2> QED
    BY <2>1 DEF AlignInv
<1>9. CASE OpenData
  <2>1. /\ mode' = "dataWrite" /\ step' = step /\ pos' = pos
        /\ Even(step - pos)
        /\ \A s \in Step : data'[s] = data[s] \/ data'[s] = Torn
    BY <1>9, <1>t DEF OpenData, AlignInv
  <2> QED
    BY <2>1 DEF AlignInv, Torn
<1>10. CASE OpenTracker \/ WriteTracker \/ GroupSaved
  BY <1>10 DEF OpenTracker, WriteTracker, GroupSaved, disk, AlignInv
<1>11. CASE PruneStep \/ \E r \in Rank : RankStep(r)
  BY <1>11 DEF PruneStep, Prune, RemoveFile, PathRemoved, RankStep, MakeDir,
               OpenShard, WriteShard, disk, driver, AlignInv
<1>12. CASE UNCHANGED vars
  BY <1>12 DEF vars, disk, driver, AlignInv
<1> QED
  BY <1>1, <1>2, <1>3, <1>4, <1>5, <1>6, <1>7, <1>8, <1>9, <1>10, <1>11, <1>12
  DEF Next, DriverStep

(* No batch is skipped or repeated across a resume: the dataloader stands  *)
(* where the step number says, wherever the kills have fallen and however  *)
(* often the epoch loop has begun anew.                                    *)
THEOREM DataStaysAligned == SafeConfig /\ Spec => []DataAligned
<1>1. Init => AlignInv
  BY DEF Init, AlignInv, Saving, NoFile
<1>2. AlignInv => DataAligned
  BY DEF AlignInv, DataAligned, Even
<1>3. SafeConfig => (Spec => []DataAligned)
  <2> SUFFICES ASSUME SafeConfig PROVE Spec => []DataAligned
    OBVIOUS
  <2> QED
    BY <1>1, <1>2, IInvInit, IInvStep, AlignStep, PTL DEF Spec
<1> QED
  BY <1>3

-----------------------------------------------------------------------------
(* The last step.                                                          *)

(* Checkpoints are wanted, and the epochs are enough for the steps:        *)
(* total_training_steps is len(train_dataloader) * total_epochs unless the *)
(* user sets it (ray_trainer.py:458-461).                                  *)
WholeRun == /\ SafeConfig
            /\ SaveFreq > 0
            /\ Total <= Batches * Epochs

(* The steps are never behind the epochs, so that the epochs are over only *)
(* after the last step; a step beyond the last starts from a saved one.    *)
FinalInv ==
  /\ mode = "load" => pos = 0 /\ epoch = 0
  /\ mode = "train" => /\ epoch * Batches <= step - 1 - pos
                       /\ step <= Total \/ durable = step - 1
  /\ mode \in Saving \cup {"stepped"} => /\ epoch * Batches <= step - pos
                                         /\ isLast <=> step >= Total
  /\ mode = "stepped" /\ isLast => durable = step
  /\ FinalStepSaved
  /\ \A s \in Step : data[s] <= s

LEMMA FinalStep == IInv /\ WholeRun /\ FinalInv /\ [Next]_vars => FinalInv'
<1> SUFFICES ASSUME IInv, WholeRun, FinalInv, [Next]_vars PROVE FinalInv'
  OBVIOUS
<1>t. /\ step \in Int /\ pos \in Nat /\ epoch \in Nat /\ durable \in Int
      /\ Batches \in Nat /\ Epochs \in Nat /\ Total \in Nat /\ SaveFreq \in Int
      /\ epoch * Batches \in Nat
      /\ data \in [Step -> Int]
      /\ mode \in Saving \cup {"stepped"} => step \in Step
      /\ Step = 1 .. MaxStep /\ MaxStep \in Nat
  <2>1. /\ Batches \in Nat /\ Epochs \in Nat /\ Total \in Nat /\ MaxStep \in Nat
        /\ SaveFreq \in Int
    BY CkptAssumption
  <2>2. /\ TypeOK
        /\ mode \in Saving \cup {"stepped"} => step \in Step
    BY DEF IInv, TypeInv
  <2>3. /\ step \in Int /\ pos \in Nat /\ epoch \in Nat /\ durable \in Int
    BY <2>1, <2>2 DEF TypeOK
  <2>4. {NoFile, Torn} \cup 0 .. Batches \subseteq Int
    BY <2>1 DEF NoFile, Torn
  <2>5. data \in [Step -> Int]
    BY <2>2, <2>4 DEF TypeOK
  <2>6. epoch * Batches \in Nat
    BY <2>1, <2>3
  <2> QED
    BY <2>1, <2>2, <2>3, <2>5, <2>6 DEF Step
<1> USE DEF Saving, Idle, FinalStepSaved
<1>1. CASE Start \/ Crash
  BY <1>1, <1>t DEF Start, Crash, ForgetAll, disk, ghost, FinalInv
<1>2. CASE LoadNothing
  <2>1. /\ mode = "load" /\ durable = 0
    BY <1>2, LoadFact DEF WholeRun
  <2>2. /\ mode' = "train" /\ step' = 1 /\ pos' = 0 /\ epoch' = 0
        /\ data' = data /\ durable' = 0
    BY <1>2, <2>1 DEF LoadNothing, disk, ghost, FinalInv
  <2>3. epoch' * Batches = 0
    BY <2>2, <1>t
  <2> QED
    BY <2>2, <2>3, <1>t DEF FinalInv
<1>3. CASE LoadCheckpoint
  <2>1. durable \in Step /\ LoadFrom(durable) /\ mode = "load"
    BY <1>3, LoadFact DEF WholeRun
  <2>2. tracker = durable
    BY <1>3, <2>1 DEF LoadCheckpoint, IInv, StepInv, TypeInv, TypeOK, Step
  <2>3. data[durable] >= 0
    BY <2>1, <2>2 DEF IInv, TrackerNamesWhole, WholeCheckpoint
  <2>4. /\ step' = durable + 1 /\ pos' = data[durable] /\ mode' = "train"
        /\ data' = data /\ durable' = durable /\ epoch' = 0
    BY <2>1, <2>3 DEF LoadFrom, NoFile, disk, ghost, FinalInv
  <2>5. pos' <= durable /\ epoch' * Batches = 0 /\ pos' \in Int
    BY <2>1, <2>4, <1>t DEF FinalInv
  <2> QED
    BY <2>1, <2>4, <2>5, <1>t DEF FinalInv
<1>4. CASE LoadFails
  BY <1>4, <1>t DEF LoadFails, disk, ghost, FinalInv
<1>5. CASE EpochsOver
  <2>1. /\ mode = "train" /\ epoch = Epochs /\ mode' = "done"
        /\ step' = step /\ durable' = durable /\ data' = data
    BY <1>5 DEF EpochsOver, disk, ghost
  <2>2. Batches * Epochs = epoch * Batches
    BY <2>1, <1>t
  <2>3. Total <= step - 1
    BY <2>1, <2>2, <1>t DEF FinalInv, WholeRun
  <2>4. durable = step - 1
    BY <2>1, <2>3, <1>t DEF FinalInv
  <2> QED
    BY <2>1, <2>4, <1>t DEF FinalInv
<1>6. CASE TrainStep
  <2>1. /\ mode = "train" /\ pos' = pos + 1 /\ step' = step /\ epoch' = epoch
        /\ data' = data /\ durable' = durable
        /\ mode' = "save" \/ (mode' = "stepped" /\ ~(step >= Total))
    BY <1>6, <1>t DEF TrainStep, SaveDue, WholeRun, disk, ghost
  <2>2. isLast' <=> step >= Total
    BY <1>6 DEF TrainStep
  <2>3. epoch' * Batches <= step' - pos'
    BY <2>1, <1>t DEF FinalInv
  <2> QED
    BY <2>1, <2>2, <2>3, <1>t DEF FinalInv
<1>7. CASE EndStep
  <2>1. /\ mode = "stepped" /\ step' = step + 1 /\ pos' = pos /\ epoch' = epoch
        /\ data' = data /\ durable' = durable
        /\ mode' = IF isLast THEN "done" ELSE "train"
    BY <1>7 DEF EndStep, disk, ghost
  <2> QED
    BY <2>1, <1>t DEF FinalInv
<1>8. CASE NextEpoch
  <2>1. /\ mode = "train" /\ mode' = "train" /\ pos = Batches /\ pos' = 0
        /\ epoch' = epoch + 1 /\ step' = step /\ data' = data /\ durable' = durable
    BY <1>8 DEF NextEpoch, disk, ghost
  <2>2. epoch' * Batches = epoch * Batches + Batches
    BY <2>1, <1>t
  <2> QED
    BY <2>1, <2>2, <1>t DEF FinalInv
<1>9. CASE WriteData
  <2>1. /\ mode = "dataWrite" /\ mode' = "track" /\ step' = step /\ pos' = pos
        /\ epoch' = epoch /\ isLast' = isLast /\ durable' = durable
        /\ step \in Step
        /\ \A s \in Step : data'[s] = IF s = step THEN pos ELSE data[s]
    BY <1>9, <1>t DEF WriteData, ghost
  <2>2. pos <= step
    BY <2>1, <1>t DEF FinalInv
  <2> QED
    BY <2>1, <2>2, <1>t DEF FinalInv
<1>10. CASE OpenData
  <2>1. /\ mode = "data" /\ mode' = "dataWrite" /\ step' = step /\ pos' = pos
        /\ epoch' = epoch /\ isLast' = isLast /\ durable' = durable
        /\ \A s \in Step : data'[s] = data[s] \/ data'[s] = Torn
    BY <1>10, <1>t DEF OpenData, ghost
  <2> QED
    BY <2>1, <1>t DEF FinalInv, Torn
<1>11. CASE WriteTracker
  BY <1>11, <1>t DEF WriteTracker, FinalInv
<1>12. CASE OpenTracker \/ GroupSaved
  BY <1>12, <1>t DEF OpenTracker, GroupSaved, disk, ghost, FinalInv
<1>13. CASE PruneStep \/ \E r \in Rank : RankStep(r)
  BY <1>13, <1>t DEF PruneStep, Prune, RemoveFile, PathRemoved, RankStep, MakeDir,
               OpenShard, WriteShard, disk, driver, ghost, FinalInv
<1>14. CASE UNCHANGED vars
  BY <1>14 DEF vars, disk, driver, ghost, FinalInv
<1> QED
  BY <1>1, <1>2, <1>3, <1>4, <1>5, <1>6, <1>7, <1>8, <1>9, <1>10, <1>11, <1>12,
     <1>13, <1>14 DEF Next, DriverStep

(* A job that comes to its end has saved its last step, also when the end  *)
(* is that of the epochs, and also after resumes: then the number of steps *)
(* is beyond total_training_steps, or the epoch loop has begun anew        *)
(* (ray_trainer.py:1153-1181).                                             *)
THEOREM LastStepIsSaved == WholeRun /\ Spec => []FinalStepSaved
<1>1. Init => FinalInv
  BY DEF Init, FinalInv, FinalStepSaved, Saving, NoFile, Step
<1>2. FinalInv => FinalStepSaved
  BY DEF FinalInv
<1>3. WholeRun => (Spec => []FinalStepSaved)
  <2> SUFFICES ASSUME WholeRun PROVE Spec => []FinalStepSaved
    OBVIOUS
  <2>1. SafeConfig
    BY DEF WholeRun
  <2> QED
    BY <1>1, <1>2, <2>1, IInvInit, IInvStep, FinalStep, PTL DEF Spec
<1> QED
  BY <1>3

-----------------------------------------------------------------------------
(* Retention, for every configuration.                                     *)

Listed(ro) == {prev[ro][i] : i \in 1 .. Len(prev[ro])}

AtSave(ro, places) == mode = "save" /\ ro = role /\ at[Rank0] \in places

Behind == {"ready", "writing", "written"}

(* What a run has written and not removed is in rank 0's list, but for the *)
(* paths it is removing and the one it is writing; while it writes there   *)
(* is room for that one.                                                   *)
ListInv(ro) ==
  /\ OwnCheckpoints(ro) \subseteq
       Listed(ro) \cup (IF AtSave(ro, {"prune"}) THEN victims ELSE {})
                  \cup (IF AtSave(ro, Behind) THEN {step} ELSE {})
  /\ MaxKeep[ro] > 0 =>
       IF AtSave(ro, {"prune"} \cup Behind) THEN Len(prev[ro]) < MaxKeep[ro]
                                            ELSE Len(prev[ro]) <= MaxKeep[ro]

Bounded(ro) ==
  MaxKeep[ro] > 0 => Cardinality(OwnCheckpoints(ro)) <= MaxKeep[ro]

(* The first barrier: no rank is past it before rank 0 has pruned. *)
BarrierInv ==
  \A r \in Rank : at[r] \in {"writing", "written"} => at[Rank0] \in Behind

(* No shard is of a run to come. *)
NoneAhead == \A ro \in Role, s \in Step, r \in Rank : shard[ro][s][r] <= run

OwnInv ==
  /\ TypeInv
  /\ NoneAhead
  /\ \A ro \in Role : Bounded(ro)
  /\ mode \notin Idle => \A ro \in Role : ListInv(ro)
  /\ BarrierInv

(* A list has at most as many elements as entries. *)
LEMMA ListedFinite ==
  ASSUME NEW s \in Seq(Step)
  PROVE  LET T == {s[i] : i \in 1 .. Len(s)}
         IN IsFiniteSet(T) /\ Cardinality(T) <= Len(s)
<1> DEFINE T == {s[i] : i \in 1 .. Len(s)}
           f == [i \in 1 .. Len(s) |-> s[i]]
<1>1. Len(s) \in Nat /\ IsFiniteSet(1 .. Len(s)) /\ Cardinality(1 .. Len(s)) = Len(s)
  <2>1. Len(s) \in Nat /\ 1 \in Int /\ Len(s) \in Int
    BY LenProperties
  <2>2. /\ IsFiniteSet(1 .. Len(s))
        /\ Cardinality(1 .. Len(s)) = IF 1 > Len(s) THEN 0 ELSE Len(s) - 1 + 1
    BY <2>1, FS_Interval
  <2> QED
    BY <2>1, <2>2
<1>2. f \in Surjection(1 .. Len(s), T)
  BY DEF Surjection
<1> HIDE DEF f, T
<1>3. IsFiniteSet(T) /\ Cardinality(T) <= Cardinality(1 .. Len(s))
  BY <1>1, <1>2, FS_Surjection
<1> QED
  BY <1>1, <1>3 DEF T

(* The checkpoints of a run are finitely many. *)
LEMMA OwnFinite ==
  ASSUME NEW ro \in Role
  PROVE  IsFiniteSet(OwnCheckpoints(ro)) /\ OwnCheckpoints(ro) \subseteq Step
<1>1. IsFiniteSet(Step)
  BY CkptAssumption, FS_Interval DEF Step
<1>2. OwnCheckpoints(ro) \in SUBSET Step
  BY DEF OwnCheckpoints
<1> QED
  BY <1>1, <1>2, FS_Subset

(* Removing, or opening, a shard adds no checkpoint. *)
LEMMA FewerOwn ==
  ASSUME OwnInv, NEW ro \in Role, OwnCheckpoints(ro)' \subseteq OwnCheckpoints(ro)
  PROVE  Bounded(ro)'
<1>1. OwnCheckpoints(ro)' \in SUBSET OwnCheckpoints(ro)
  OBVIOUS
<1>2. /\ IsFiniteSet(OwnCheckpoints(ro)) /\ IsFiniteSet(OwnCheckpoints(ro)')
      /\ Cardinality(OwnCheckpoints(ro)') <= Cardinality(OwnCheckpoints(ro))
  BY <1>1, OwnFinite, FS_Subset
<1>3. Cardinality(OwnCheckpoints(ro)) \in Nat /\ Cardinality(OwnCheckpoints(ro)') \in Nat
  BY <1>2, FS_CardinalityType
<1>4. MaxKeep[ro] \in Nat
  BY CkptAssumption
<1> QED
  BY <1>2, <1>3, <1>4 DEF OwnInv, Bounded

(* With the one being written the list is still within the bound. *)
LEMMA RoomForOne ==
  ASSUME NEW ro \in Role, NEW l \in Seq(Step), NEW S, NEW x, IsFiniteSet(S),
         S \subseteq {l[i] : i \in 1 .. Len(l)} \cup {x}, Len(l) < MaxKeep[ro]
  PROVE  Cardinality(S) <= MaxKeep[ro]
<1> DEFINE T == {l[i] : i \in 1 .. Len(l)}
<1>1. IsFiniteSet(T) /\ Cardinality(T) <= Len(l)
  BY ListedFinite
<1> HIDE DEF T
<1>2. /\ IsFiniteSet(T \cup {x}) /\ Cardinality(T \cup {x}) <= Cardinality(T) + 1
  <2>1. Cardinality(T) \in Nat
    BY <1>1, FS_CardinalityType
  <2>2. /\ IsFiniteSet(T \cup {x})
        /\ Cardinality(T \cup {x}) = IF x \in T THEN Cardinality(T) ELSE Cardinality(T) + 1
    BY <1>1, FS_AddElement
  <2> QED
    BY <2>1, <2>2
<1>3. Cardinality(S) <= Cardinality(T \cup {x})
  <2>1. S \in SUBSET (T \cup {x})
    BY DEF T
  <2> QED
    BY <1>2, <2>1, FS_Subset
<1>4. /\ Cardinality(S) \in Nat /\ Cardinality(T) \in Nat /\ Cardinality(T \cup {x}) \in Nat
      /\ Len(l) \in Nat /\ MaxKeep[ro] \in Nat
  BY <1>1, <1>2, FS_CardinalityType, CkptAssumption
<1> QED
  BY <1>1, <1>2, <1>3, <1>4

LEMMA OwnStep == OwnInv /\ [Next]_vars => OwnInv'
<1> SUFFICES ASSUME OwnInv, [Next]_vars PROVE OwnInv'
  OBVIOUS
<1> USE DEF Idle
<1>t. /\ TypeOK /\ role \in Role /\ Rank0 \in Rank /\ run \in Nat
      /\ \A r \in Rank : at[r] # "enter" => mode = "save"
      /\ mode \in Saving \cup {"stepped"} => step \in Step
      /\ \A ro \in Role : prev[ro] \in Seq(Step) /\ Len(prev[ro]) \in Nat
      /\ \A ro \in Role : MaxKeep[ro] \in Nat
  <2>1. TypeOK /\ Rank0 \in Rank
    BY CkptAssumption DEF OwnInv, TypeInv
  <2>2. \A ro \in Role : prev[ro] \in Seq(Step)
    BY <2>1 DEF TypeOK
  <2>3. \A ro \in Role : Len(prev[ro]) \in Nat
    BY <2>2, LenProperties
  <2> QED
    BY <2>1, <2>2, <2>3, CkptAssumption DEF OwnInv, TypeInv, TypeOK, Run
<1>y. TypeOK /\ role \in Role
  BY <1>t
<1>n. \A ro \in Role, s \in Step, r \in Rank : shard[ro][s][r] \in Int
  <2>1. {NoFile, Torn} \cup Run \subseteq Int
    BY CkptAssumption DEF NoFile, Torn, Run
  <2>2. shard \in [Role -> [Step -> [Rank -> {NoFile, Torn} \cup Run]]]
    BY <1>y DEF TypeOK
  <2> QED
    BY <2>1, <2>2
<1>i. /\ \A ro \in Role, s \in Step, r \in Rank : shard[ro][s][r] <= run
      /\ \A ro \in Role : Bounded(ro)
      /\ mode \notin Idle => \A ro \in Role : ListInv(ro)
      /\ \A r \in Rank : at[r] \in {"writing", "written"} => at[Rank0] \in Behind
  BY DEF OwnInv, NoneAhead, BarrierInv
<1>u. TypeInv'
  BY TypeStep DEF OwnInv
<1>1. CASE Start
  <2>1. shard' = shard /\ run' = run + 1 /\ mode' = "load"
    BY <1>1 DEF Start, disk
  <2>2. \A ro \in Role : OwnCheckpoints(ro)' = {}
    BY <1>t, <1>n, <1>i, <2>1 DEF OwnCheckpoints
  <2>3. \A ro \in Role : Bounded(ro)'
    <3>1. Cardinality({}) = 0
      BY FS_EmptySet
    <3> QED
      <4> SUFFICES ASSUME NEW ro \in Role PROVE Bounded(ro)'
        OBVIOUS
      <4>1. OwnCheckpoints(ro)' = {} /\ MaxKeep[ro] \in Nat
        BY <2>2, <1>t
      <4>2. MaxKeep[ro] > 0 => Cardinality({}) <= MaxKeep[ro]
        BY <3>1, <4>1
      <4> QED
        BY <4>1, <4>2 DEF Bounded
  <2>4. \A ro \in Role : Len(prev'[ro]) = 0
    BY <1>1, EmptySeq DEF Start, ForgetAll
  <2>5. \A ro \in Role : ListInv(ro)'
    BY <1>t, <2>1, <2>2, <2>4 DEF ListInv, AtSave
  <2>6. NoneAhead'
    BY <1>t, <1>n, <1>i, <2>1 DEF NoneAhead
  <2>7. BarrierInv'
    BY <1>1, <1>t DEF Start, ForgetAll, BarrierInv
  <2> QED
    BY <1>u, <2>3, <2>5, <2>6, <2>7 DEF OwnInv
<1>2. CASE Crash
  <2>1. UNCHANGED <<shard, run>> /\ mode' = "down"
    BY <1>2 DEF Crash, disk, ghost
  <2>2. \A ro \in Role : Bounded(ro)'
    BY <1>i, <2>1 DEF Bounded, OwnCheckpoints
  <2>3. NoneAhead'
    BY <1>i, <2>1 DEF NoneAhead
  <2>4. BarrierInv'
    BY <1>2, <1>t DEF Crash, ForgetAll, BarrierInv
  <2> QED
    BY <1>u, <2>1, <2>2, <2>3, <2>4 DEF OwnInv
<1>3. CASE /\ UNCHANGED <<shard, prev, at, role, run>>
           /\ mode # "save" /\ (mode \in Idle => mode' \in Idle)
  <2>1. at[Rank0] = "enter"
    BY <1>3, <1>t
  <2>2. \A ro \in Role : Bounded(ro)'
    BY <1>3, <1>i DEF Bounded, OwnCheckpoints
  <2>3. ASSUME NEW ro \in Role, mode' \notin Idle
        PROVE  ListInv(ro)'
    BY <1>3, <1>i, <2>1, <2>3 DEF ListInv, AtSave, Behind, OwnCheckpoints, Listed
  <2> QED
    BY <1>3, <1>u, <1>i, <2>2, <2>3 DEF OwnInv, NoneAhead, BarrierInv, Behind
<1>4. CASE Prune
  <2> DEFINE k == KeepStart(role)
  <2>1. /\ UNCHANGED <<shard, run, mode, step, role>> /\ mode = "save"
        /\ at[Rank0] = "enter" /\ at'[Rank0] = "prune"
    BY <1>4, <1>t DEF Prune, disk, driver, ghost, TypeOK
  <2>2. /\ k \in 0 .. Len(prev[role])
        /\ Len(prev'[role]) = Len(prev[role]) - k
        /\ \A i \in 1 .. Len(prev'[role]) : prev'[role][i] = prev[role][i + k]
        /\ \A ro \in Role : ro # role => prev'[ro] = prev[ro]
        /\ victims' = {prev[role][i] : i \in 1 .. k}
    BY <1>4, <1>t, PruneList DEF Prune, TypeOK
  <2>3. MaxKeep[role] > 0 => Len(prev'[role]) < MaxKeep[role]
    <3>1. MaxKeep[role] > 0 => Len(prev[role]) <= MaxKeep[role]
      BY <1>t, <1>i, <2>1 DEF ListInv, AtSave, Behind
    <3> QED
      BY <1>t, <2>2, <3>1 DEF KeepStart
  <2> HIDE DEF k
  <2>4. Listed(role) \subseteq Listed(role)' \cup victims'
    <3> SUFFICES ASSUME NEW i \in 1 .. Len(prev[role])
                 PROVE  prev[role][i] \in Listed(role)' \cup victims'
      BY DEF Listed
    <3>1. CASE i <= k
      BY <3>1, <2>2, <1>t
    <3>2. CASE i > k
      <4>1. i - k \in 1 .. Len(prev'[role]) /\ (i - k) + k = i
        BY <3>2, <2>2, <1>t
      <4>2. prev'[role][i - k] = prev[role][i]
        BY <2>2, <4>1
      <4> QED
        BY <2>1, <4>1, <4>2 DEF Listed
    <3> QED
      BY <3>1, <3>2, <2>2, <1>t
  <2>5. \A ro \in Role : OwnCheckpoints(ro)' = OwnCheckpoints(ro)
    BY <2>1 DEF OwnCheckpoints
  <2>6. OwnCheckpoints(role) \subseteq Listed(role)
    BY <1>t, <1>i, <2>1 DEF ListInv, AtSave, Behind
  <2>7. ListInv(role)'
    <3>1. AtSave(role, {"prune"})' /\ AtSave(role, {"prune"} \cup Behind)'
      BY <2>1 DEF AtSave
    <3>2. OwnCheckpoints(role)' \subseteq Listed(role)' \cup victims'
      <4>1. OwnCheckpoints(role)' = OwnCheckpoints(role)
        BY <2>1 DEF OwnCheckpoints
      <4> QED
        BY <2>4, <2>6, <4>1
    <3>3. role' = role
      BY <2>1
    <3> QED
      BY <2>3, <3>1, <3>2, <3>3 DEF ListInv
  <2>8. ASSUME NEW ro \in Role, ro # role
        PROVE  ListInv(ro)'
    BY <1>i, <2>1, <2>2, <2>5, <2>8 DEF ListInv, AtSave, Listed
  <2>9. \A ro \in Role : Bounded(ro)'
    BY <1>i, <2>5 DEF Bounded
  <2> QED
    <3>1. NoneAhead'
      BY <1>i, <2>1 DEF NoneAhead
    <3>2. BarrierInv'
      <4>1. ASSUME NEW r \in Rank PROVE at'[r] = at[r] \/ r = Rank0
        BY <1>4, <1>t DEF Prune, TypeOK
      <4>2. \A r \in Rank : at[r] \notin {"writing", "written"}
        BY <1>i, <2>1 DEF Behind
      <4> QED
        BY <2>1, <4>1, <4>2 DEF BarrierInv
    <3>3. ASSUME NEW ro \in Role PROVE ListInv(ro)'
      <4>1. ro = role => (ListInv(ro)' <=> ListInv(role)')
        BY <2>1 DEF ListInv, AtSave, Listed, OwnCheckpoints
      <4> QED
        BY <2>7, <2>8, <4>1
    <3> QED
      BY <1>u, <2>9, <3>1, <3>2, <3>3 DEF OwnInv
<1>5. CASE RemoveFile
  <2>1. PICK s \in victims, r \in Rank :
           shard' = [shard EXCEPT ![role][s][r] = NoFile]
    BY <1>5 DEF RemoveFile
  <2>2. s \in Step /\ NoFile \in {NoFile, Torn} \cup Run
    BY <1>t DEF TypeOK
  <2>3. \A o \in Role, t \in Step, q \in Rank :
           shard'[o][t][q] = IF o = role /\ t = s /\ q = r THEN NoFile ELSE shard[o][t][q]
    BY <1>y, <2>1, <2>2 DEF TypeOK
  <2>4. UNCHANGED <<prev, victims, at, role, mode, step, run>>
    BY <1>5 DEF RemoveFile, driver, worker, ghost
  <2>5. \A ro \in Role : OwnCheckpoints(ro)' \subseteq OwnCheckpoints(ro)
    BY <1>t, <2>3, <2>4 DEF OwnCheckpoints, NoFile
  <2>6. \A o \in Role, t \in Step, q \in Rank : shard'[o][t][q] <= run'
    BY <1>t, <1>i, <2>3, <2>4 DEF NoFile
  <2>7. \A ro \in Role : Bounded(ro)'
    BY <2>5, FewerOwn
  <2>8. \A ro \in Role : ListInv(ro) => ListInv(ro)'
    BY <2>4, <2>5 DEF ListInv, AtSave, Listed
  <2> QED
    BY <1>u, <1>i, <2>4, <2>6, <2>7, <2>8 DEF OwnInv, NoneAhead, BarrierInv, Behind
<1>6. CASE PathRemoved
  <2>1. PICK s \in victims :
           /\ \A r \in Rank : shard[role][s][r] = NoFile
           /\ victims' = victims \ {s}
    BY <1>6 DEF PathRemoved
  <2>2. UNCHANGED <<shard, prev, at, role, mode, step, run>> /\ at[Rank0] = "prune"
    BY <1>6 DEF PathRemoved, disk, driver, ghost
  <2>3. mode = "save"
    BY <1>t, <2>2
  <2>4. s \notin OwnCheckpoints(role)
    BY <1>t, <2>1 DEF OwnCheckpoints, NoFile
  <2>5. \A ro \in Role : OwnCheckpoints(ro)' = OwnCheckpoints(ro)
    BY <2>2 DEF OwnCheckpoints
  <2>6. \A ro \in Role : ListInv(ro)'
    BY <1>i, <2>1, <2>2, <2>3, <2>4, <2>5 DEF ListInv, AtSave, Behind, Listed
  <2>7. \A ro \in Role : Bounded(ro)'
    BY <1>i, <2>5 DEF Bounded
  <2> QED
    BY <1>u, <1>i, <2>2, <2>6, <2>7 DEF OwnInv, NoneAhead, BarrierInv, Behind
<1>7. CASE \E r \in Rank : MakeDir(r)
  <2>1. PICK r \in Rank : MakeDir(r)
    BY <1>7
  <2>2. /\ UNCHANGED <<shard, prev, victims, role, mode, step, run>> /\ mode = "save"
        /\ at' = [at EXCEPT ![r] = "ready"]
        /\ r = Rank0 => at[Rank0] = "prune" /\ victims = {}
    BY <2>1 DEF MakeDir, driver, ghost
  <2>3. \/ at'[Rank0] = at[Rank0]
        \/ at[Rank0] = "prune" /\ victims = {} /\ at'[Rank0] = "ready"
    BY <1>t, <2>2 DEF TypeOK
  <2>4. \A ro \in Role : OwnCheckpoints(ro)' = OwnCheckpoints(ro)
    BY <2>2 DEF OwnCheckpoints
  <2>5. ASSUME NEW ro \in Role
        PROVE  ListInv(ro)'
    BY <1>i, <2>2, <2>3, <2>4 DEF ListInv, AtSave, Behind, Listed
  <2>6. \A ro \in Role : Bounded(ro)'
    BY <1>i, <2>4 DEF Bounded
  <2> QED
    <3>1. NoneAhead'
      BY <1>i, <2>2 DEF NoneAhead
    <3>2. BarrierInv'
      <4>1. ASSUME NEW q \in Rank PROVE at'[q] = IF q = r THEN "ready" ELSE at[q]
        BY <1>y, <2>2 DEF TypeOK
      <4> QED
        BY <1>t, <1>i, <4>1 DEF BarrierInv, Behind
    <3> QED
      BY <1>u, <2>5, <2>6, <3>1, <3>2 DEF OwnInv
<1>8. CASE \E r \in Rank : OpenShard(r)
  <2>1. PICK r \in Rank : OpenShard(r)
    BY <1>8
  <2>2. /\ UNCHANGED <<prev, victims, role, mode, step, run>>
        /\ at[r] = "ready" /\ at[Rank0] \in Behind
        /\ at' = [at EXCEPT ![r] = "writing"]
        /\ shard' = [shard EXCEPT ![role][step][r] = Torn]
    BY <1>t, <2>1 DEF OpenShard, driver, ghost, Behind
  <2>3. mode = "save" /\ step \in Step /\ Torn \in {NoFile, Torn} \cup Run
        /\ at'[Rank0] \in Behind
    BY <1>t, <2>2 DEF Saving, Behind, TypeOK
  <2>4. \A o \in Role, t \in Step, q \in Rank :
           shard'[o][t][q] = IF o = role /\ t = step /\ q = r THEN Torn ELSE shard[o][t][q]
    BY <1>y, <2>2, <2>3 DEF TypeOK
  <2>5. \A ro \in Role : OwnCheckpoints(ro)' \subseteq OwnCheckpoints(ro)
    BY <1>t, <2>2, <2>4 DEF OwnCheckpoints, Torn
  <2>6. \A o \in Role, t \in Step, q \in Rank : shard'[o][t][q] <= run'
    BY <1>t, <1>i, <2>2, <2>4 DEF Torn
  <2>7. \A ro \in Role : Bounded(ro)'
    BY <2>5, FewerOwn
  <2>8. ASSUME NEW ro \in Role
        PROVE  ListInv(ro)'
    BY <1>i, <2>2, <2>3, <2>5 DEF ListInv, AtSave, Behind, Listed
  <2> QED
    BY <1>u, <2>3, <2>6, <2>7, <2>8 DEF OwnInv, NoneAhead, BarrierInv
<1>9. CASE \E r \in Rank : WriteShard(r)
  <2>1. PICK r \in Rank : WriteShard(r)
    BY <1>9
  <2>2. /\ UNCHANGED <<prev, victims, role, mode, step, run>>
        /\ at[r] = "writing"
        /\ at' = [at EXCEPT ![r] = "written"]
        /\ shard' = [shard EXCEPT ![role][step][r] = run]
    BY <2>1 DEF WriteShard, driver, ghost
  <2>3. mode = "save" /\ step \in Step /\ run \in {NoFile, Torn} \cup Run
    BY <1>t, <2>2 DEF Saving, TypeOK
  <2>4. at[Rank0] \in Behind /\ at'[Rank0] \in Behind
    BY <1>t, <1>i, <2>2 DEF Behind, TypeOK
  <2>5. \A o \in Role, t \in Step, q \in Rank :
           shard'[o][t][q] = IF o = role /\ t = step /\ q = r THEN run ELSE shard[o][t][q]
    BY <1>y, <2>2, <2>3 DEF TypeOK
  <2>6. /\ OwnCheckpoints(role)' \subseteq OwnCheckpoints(role) \cup {step}
        /\ \A ro \in Role : ro # role => OwnCheckpoints(ro)' = OwnCheckpoints(ro)
    BY <1>t, <2>2, <2>5 DEF OwnCheckpoints
  <2>7. \A o \in Role, t \in Step, q \in Rank : shard'[o][t][q] <= run'
    BY <1>t, <1>i, <2>2, <2>5
  <2>8. ASSUME NEW ro \in Role
        PROVE  ListInv(ro)'
    BY <1>t, <1>i, <2>2, <2>3, <2>4, <2>6 DEF ListInv, AtSave, Behind, Listed
  <2>9. ASSUME NEW ro \in Role
        PROVE  Bounded(ro)'
    <3>1. CASE ro # role
      BY <1>i, <2>6, <3>1 DEF Bounded
    <3>2. CASE ro = role
      <4>1. IsFiniteSet(OwnCheckpoints(ro)')
        <5>1. OwnCheckpoints(ro)' \in SUBSET (OwnCheckpoints(ro) \cup {step})
          <6>1. OwnCheckpoints(ro)' = OwnCheckpoints(role)'
            BY <2>2, <3>2
          <6> QED
            BY <2>6, <3>2, <6>1
        <5> QED
          BY <5>1, OwnFinite, FS_AddElement, FS_Subset
      <4>2. OwnCheckpoints(ro)' \subseteq Listed(ro) \cup {step}
        <5>1. AtSave(role, Behind) /\ ~AtSave(role, {"prune"}) /\ ListInv(role)
          BY <1>t, <1>i, <2>3, <2>4 DEF AtSave, Behind
        <5>2. OwnCheckpoints(role) \subseteq Listed(role) \cup {step}
          BY <5>1 DEF ListInv
        <5>3. OwnCheckpoints(ro)' = OwnCheckpoints(role)'
          BY <2>2, <3>2
        <5> QED
          BY <2>6, <3>2, <5>2, <5>3
      <4>3. MaxKeep[ro] > 0 => Len(prev[ro]) < MaxKeep[ro]
        BY <1>i, <2>3, <2>4, <3>2 DEF ListInv, AtSave, Behind
      <4> QED
        BY <1>t, <4>1, <4>2, <4>3, RoomForOne DEF Bounded, Listed
    <3> QED
      BY <3>1, <3>2
  <2> QED
    BY <1>u, <2>4, <2>7, <2>8, <2>9 DEF OwnInv, NoneAhead, BarrierInv
<1>10. CASE GroupSaved
  <2>1. /\ UNCHANGED <<shard, run, step, victims>> /\ mode = "save"
        /\ at[Rank0] = "written" /\ at'[Rank0] = "enter"
        /\ mode' \in {"save", "data"}
        /\ prev' = [prev EXCEPT ![role] = Append(@, step)]
    BY <1>10, <1>t DEF GroupSaved, disk, ghost
  <2>2. /\ step \in Step
        /\ Len(prev'[role]) = Len(prev[role]) + 1
        /\ prev'[role][Len(prev[role]) + 1] = step
        /\ \A i \in 1 .. Len(prev[role]) : prev'[role][i] = prev[role][i]
        /\ \A ro \in Role : ro # role => prev'[ro] = prev[ro]
    BY <1>t, <2>1, AppendProperties DEF TypeOK, Saving
  <2>3. \A ro \in Role : OwnCheckpoints(ro)' = OwnCheckpoints(ro)
    BY <2>1 DEF OwnCheckpoints
  <2>4. Listed(role) \cup {step} \subseteq {prev'[role][i] : i \in 1 .. Len(prev'[role])}
    <3>1. \A i \in 1 .. Len(prev[role]) : i \in 1 .. Len(prev'[role])
      BY <1>t, <2>2
    <3>2. Len(prev[role]) + 1 \in 1 .. Len(prev'[role])
      BY <1>t, <2>2
    <3> QED
      BY <2>2, <3>1, <3>2 DEF Listed
  <2>5. ASSUME NEW ro \in Role
        PROVE  ListInv(ro)'
    <3>1. ~AtSave(ro, {"prune"})' /\ ~AtSave(ro, Behind)' /\ ~AtSave(ro, {"prune"} \cup Behind)'
      BY <2>1 DEF AtSave, Behind
    <3>2. CASE ro = role
      <4>1. OwnCheckpoints(ro) \subseteq Listed(ro) \cup {step}
        BY <1>i, <2>1, <3>2 DEF ListInv, AtSave, Behind
      <4>2. MaxKeep[ro] > 0 => Len(prev[ro]) < MaxKeep[ro]
        BY <1>i, <2>1, <3>2 DEF ListInv, AtSave, Behind
      <4>3. OwnCheckpoints(ro)' \subseteq {prev'[ro][i] : i \in 1 .. Len(prev'[ro])}
        BY <2>3, <2>4, <3>2, <4>1
      <4>4. MaxKeep[ro] > 0 => Len(prev'[ro]) <= MaxKeep[ro]
        BY <1>t, <2>2, <3>2, <4>2
      <4> QED
        BY <3>1, <4>3, <4>4 DEF ListInv, Listed
    <3>3. CASE ro # role
      <4>1. ~AtSave(ro, {"prune"}) /\ ~AtSave(ro, Behind) /\ ~AtSave(ro, {"prune"} \cup Behind)
        BY <3>3 DEF AtSave
      <4>2. ListInv(ro)
        BY <1>i, <2>1
      <4> QED
        BY <2>2, <2>3, <3>1, <3>3, <4>1, <4>2 DEF ListInv, Listed
    <3> QED
      BY <3>2, <3>3
  <2>6. \A ro \in Role : Bounded(ro)'
    BY <1>i, <2>3 DEF Bounded
  <2> QED
    <3>1. NoneAhead'
      BY <1>i, <2>1 DEF NoneAhead
    <3>2. BarrierInv'
      BY <1>10, <1>t DEF GroupSaved, BarrierInv
    <3> QED
      BY <1>u, <2>5, <2>6, <3>1, <3>2 DEF OwnInv
<1>11. CASE DriverStep /\ ~GroupSaved
  <2>1. /\ UNCHANGED <<shard, prev, at, role, run>> /\ mode # "save" /\ mode \notin Idle
    BY <1>11 DEF DriverStep, LoadNothing, LoadCheckpoint, LoadFrom, LoadFails,
                 TrainStep, EndStep, NextEpoch, EpochsOver, OpenData, WriteData,
                 OpenTracker, WriteTracker, disk, worker, ghost
  <2> QED
    BY <1>3, <2>1
<1>12. CASE UNCHANGED vars
  <2>1. UNCHANGED <<shard, prev, victims, at, role, run, mode, step>>
    BY <1>12 DEF vars, disk, driver, worker, ghost
  <2> QED
    BY <1>u, <1>i, <2>1 DEF OwnInv, NoneAhead, BarrierInv, Behind, Bounded, ListInv, AtSave,
                          Listed, OwnCheckpoints
<1> QED
  BY <1>1, <1>2, <1>4, <1>5, <1>6, <1>7, <1>8, <1>9, <1>10, <1>11, <1>12
  DEF Next, PruneStep, RankStep

(* For every configuration: counted even while the next is being written,  *)
(* one run never keeps more checkpoints of its own than it was allowed.    *)
THEOREM RetentionHolds == Spec => []RetentionOfRun
<1>1. Init => OwnInv
  <2> SUFFICES ASSUME Init PROVE OwnInv
    OBVIOUS
  <2>1. \A ro \in Role, s \in Step, r \in Rank : shard[ro][s][r] = NoFile
    BY DEF Init
  <2>2. \A ro \in Role : OwnCheckpoints(ro) = {}
    BY <2>1 DEF Init, OwnCheckpoints, NoFile
  <2>3. \A ro \in Role : Bounded(ro)
    BY <2>2, FS_EmptySet, CkptAssumption DEF Bounded
  <2> QED
    BY <2>1, <2>3, TypeInit DEF Init, OwnInv, NoneAhead, BarrierInv, NoFile, Idle
<1>2. OwnInv => RetentionOfRun
  BY RolesFact DEF OwnInv, Bounded, RetentionOfRun
<1> QED
  BY <1>1, <1>2, OwnStep, PTL DEF Spec

=============================================================================
