# A TLA+ model of the EoG trainer

EoG trains a reasoning model on knowledge-graph questions. Its own code is a
reward (`reward_func.py`) and scripts that prepare data and evaluate; the
program that trains is its copy of verl, a distributed PPO/GRPO trainer: one
driver process, worker groups of ranks on the GPUs, rollout servers in the same
ranks, and asyncio workers that run agent loops against the servers. This
directory models the parts of that program in which several processes, a crash
or a limit make an outcome that tests hardly reach, checks the models with TLC
and proves the theorems named below with TLAPS.

Paths in this document are relative to `src/`.

## 1. Inventory

### The driver: `verl/trainer/ppo/ray_trainer.py`

One process. `fit` loads a checkpoint, and for every batch generates, scores,
computes advantages, updates critic and actor, validates and saves. It keeps
`global_steps`, the position of the dataloader, `is_last_step`. It calls worker
groups (every rank runs the call; `ray.get` waits for all) and the agent loop
manager. A worker's exception reaches it through `ray.get` and ends the job.

Correct when: a killed job resumes right after the last step whose checkpoint
is complete; the dataloader resumes where the step number says; the job ends.
Hard: kills between any two writes of several processes; what an earlier run
left on disk; a save that runs over the torn files of an earlier one.

### Checkpoint manager: `verl/utils/checkpoint/`

Per rank of a worker group, `previous_saved_paths` in memory. `save_checkpoint`:
rank 0 prunes old paths, all ranks meet at a barrier, write their shards, meet
again. `load_checkpoint` reads the shards of one folder. The driver writes
`data.pt` and last the tracker file `latest_checkpointed_iteration.txt`.

Correct when: what the tracker names is whole; retention never removes the
checkpoint a restart needs; no rank waits at a barrier for ever.

### Sharding managers and rollout ranks: `verl/workers/sharding_manager/`, `verl/workers/rollout/vllm_rollout/`

A rank holds FSDP shards of the actor and a tensor-parallel part of an engine.
`__enter__` gathers the shards of all ranks into the engine's weights, `__exit__`
frees the engine's memory. `vLLMAsyncRollout` does so on request of its server,
in a ZeroMQ thread next to the main thread that trains; `is_sleep` makes a
repeated request a no-op.

Correct when: generation uses the weights of the last update and no key or value
cached under older ones; training finds the memory freed; all ranks agree on
being asleep, since `__enter__` is a collective.
Hard: two threads of a rank on the same shards; a rank that skips a collective;
an exception in a thread nobody watches.

### Rollout servers and agent loops: `verl/experimental/agent_loop/`

`AgentLoopManager` wakes the servers, cuts a batch into a chunk per
`AgentLoopWorker`, waits for all, and puts the servers to sleep. A worker runs
one loop per row concurrently. `AsyncLLMServerManager` picks a server per
request: an LRU cache of requests, and a heap of counts that are never lowered.
`ToolAgentLoop.run` alternates answers of the model and parallel tool calls,
with six exits; `SingleTurnAgentLoop` asks once.

Correct when: a conversation stays with its server; a call returns only when
all loops have ended; an exception is not lost; prompt, response and mask are
cut at the same place; tool instances are released; a loop ends.
Hard: interleaved loops on one cache; the cache at its limit; a sibling call
that is still running when another raises; truncation at a boundary.

### The batch of a step: `ray_trainer.py`, `verl/protocol.py`, `verl/utils/seqlen_balancing.py`, `verl/workers/`

`fit` pops the prompts off a batch, repeats them `rollout.n` times, has them
answered, joins answers and prompts, moves the rows so that each rank gets as
many tokens (`_balance_batch`), and calls the worker groups one after the other;
each call cuts the batch into chunks, each rank cuts its chunk into mini-batches
and micro-batches, and the results are put together and joined as a column.
`get_seqlen_balanced_partitions` chooses the partitions, on the driver and again
on every rank, by the largest-differencing method of Karmarkar and Karp.

Correct when: each entry of each column stays in the row it was computed from;
an optimizer step is over exactly its mini-batch; all ranks run the same number
of forward passes, which are collectives; no assertion ends the job.
Hard: rows that are moved three times; ranks whose rows have other lengths and
must still agree; a last part that is not full; a reward computed on a copy.

### Multi-turn rollout with SGLang: `verl/workers/rollout/sglang_rollout/`, `verl/workers/rollout/schemas.py`

The first rank of a tensor-parallel group runs a coroutine per request, the
others wait at a barrier. A request is a state machine (pending, running, tool
calling, interacting, completed) over a token sequence and a loss mask that grow
by deltas; seven exits lead out of its loop to `finalize`.

Correct when: answers stand behind one generation prompt and are what is trained
on; a conversation ends with an answer; tools are released; `finalize` accepts
what the loop ended with; every rank gets the batch.
Hard: a generation prompt that is added, found again and taken off by comparing
tokens; three different tests for room in the context; concurrent awaits that
raise; a barrier that only some ranks reach.

### What is listed in PROJECT.json and not modelled

| Component | Why not, or when |
|---|---|
| Start of the async servers, rank lookup | planned: `ServerStart` |
| Sandbox rate limiter (in the tools) | planned: `RateLimiter` |
| DAPO dynamic sampling | planned: `DynamicSampling` |
| HDFS copies under file locks | planned: `CopyToLocal` |
| Chat completion scheduler | superseded by the agent loops, used by no trainer |
| Megatron, SGLang and Ulysses sharding managers, Megatron checkpoints | the protocols modelled here, on other engines |
| Reward functions and managers, core algorithms, losses, models, kernels | functions on strings and floating-point numerics |
| SFT trainer, data preparation, evaluation, model merger | sequential scripts |
| Profilers, logging, memory buffers, datasets | instrumentation and input |

### How the parts meet

    driver -- load, save ----------------> checkpoint managers    CheckpointResume
       |----- update_actor --------------> ranks (main thread) --+
       |                                                         |  RolloutSync
       +----- generate_sequences -> AgentLoopManager             |
                |-- wake_up, sleep -> servers -> ranks (ZeroMQ) -+
                +-- chunks -> workers -> loops -> servers         AgentRouting
                                           |
                                           +-- tools              ToolAgentLoop

    driver -- a batch, in chunks --------> ranks                  BatchFlow
       |                                     |
       +---- partitions of the rows <--------+                    KarmarkarKarp

    first rank -- requests, tools, users; barrier with the others MultiTurnRollout

`CheckpointResume` takes a training step as one action; `RolloutSync` looks
inside it at generation and update; `AgentRouting` looks inside a generation at
loops that ask, are answered and end; `ToolAgentLoop` looks inside one loop.
The last two meet in `AgentTurns`: `ToolAgentLoop` implements it, and the loops
of `AgentRouting` are copies of it with a bound on the turns. `BatchFlow` looks
inside a training step at the rows; it meets `KarmarkarKarp` in `BalancedParts`:
`KarmarkarKarp` implements `BalancedPartition`, whose answers are those that
`BatchFlow` reckons with, all of them. `MultiTurnRollout` is the other engine's
counterpart of `ToolAgentLoop`.

## 2. Modules

### CheckpointResume, with DurableTraining

| State | Code |
|---|---|
| `shard`, `data`, `tracker`, `folder` | the files of a rank, `data.pt`, the tracker file, the step folders; `NoFile`, `Torn` (opened, truncated, not written) or the contents |
| `mode`, `step`, `pos`, `epoch`, `isLast`, `role` | where `fit` and `_save_checkpoint` are, and their variables |
| `prev`, `victims`, `at` | rank 0's `previous_saved_paths`, what it is removing, and where each rank is in `save_checkpoint` |
| `run`, `durable` | history: the number of starts, the last step whose tracker was written |

`Start` and `Crash` forget the memory and keep the disk; a crash may fall
between any two actions, and every write is two of them. `LoadNothing`,
`LoadCheckpoint` and `LoadFails` are the outcomes of `_load_checkpoint`;
`TrainStep`, `EndStep`, `NextEpoch` and `EpochsOver` the loops of `fit`;
`Prune`, `RemoveFile`, `PathRemoved`, `MakeDir`, `OpenShard`, `WriteShard` and
`GroupSaved` the save of a worker group with its two barriers; `OpenData` to
`WriteTracker` the driver's two files. The three files of a rank are one shard.
Ranks share a file system, as the driver's single tracker file supposes.

`DurableTraining` is what a user wants of it: a process that enters the loop
does so right after the last durable step, or not at all.

### RolloutSync

A *version* is the number of updates that weights have seen. `version` is the
driver's count, `trained` that of a rank's shards, `engine` that of the engine,
`cache` the versions under which cached prefix blocks were computed. `rank` is
the rollout thread of a rank, `main` its training thread, `server` the
`AsyncvLLMServer`, `loop`/`at`/`turn` the agent loops, `entered` the collectives
of `__enter__` a rank has arrived at (a rank passes one when all have).

`Generate`, `Woken`, `Rolled`, `Slept` are `AgentLoopManager.generate_sequences`
with its `ray.get`s; `ServerWake`, `ServerReset`, `ServerSleep`, `ServerDone` the
server and the RPC to its ranks; `Enter`, `Sync`, `Leave` the sharding manager;
`RankUpdate`, `Update`, `Updated` the actor update; `Fail` an exception in the
ZeroMQ thread, which then answers nothing; `RunEngine` generation in
`rollout.mode = sync`. `mode`, chosen in `Init`, is `rollout.mode` (`Async` says
it is async), the constant `FreeCache` is `free_cache_engine`: the two options
that change the protocol. vLLM is external: it keeps weights and cached blocks until told
otherwise. Random states are left out: the first `sleep` runs `__exit__` without
an `__enter__` (`is_sleep` starts False), which stores one stream over another;
nothing says which stream a generation must use.

### AgentRouting, with StickySessions

`recent` and `serverOf` are the LRU cache of a worker's manager (keys, latest
last, and what they map to), `weight` the counts in its heap, `loop`, `turn` and
`at` the agent loops and the server that works for one. A request is the batch,
worker and row it is for, because `request_id` is a fresh uuid for each loop.
The heap is a total order on (count, hash), of which only the top matters; it is
modelled by its minimum, so that its repair in place is not exercised.
`ChooseServer` is `_choose_server`; `Ask`, `Answer`, `End`, `Raise` a loop;
`Generate`, `Collect`, `JobFails` the driver. `random.shuffle` of the server list
has no effect on a heap whose entries are ordered by hash, so it is not there.

`StickySessions` is the promise: the turns of a conversation go to one server.

### ToolAgentLoop, with AgentTurns

A token is where it comes from: `given`, `made` by the model, or `told` by a
tool. `prompt_ids` and `response_mask` grow as in `run`; `call` holds the
`_call_tool` coroutines of a turn, each with `create`, `execute` and `release`
that may raise; `pc` is where `run` is, `output` what it returns. `Agents`
contains both loop classes: `single_turn_agent` leaves after one answer. What
the parser finds in an answer is the number of well-formed calls. The model is
external and returns between one token (at least the end of the sequence) and
what `max_tokens` allows. Prompts have at most `prompt_length` tokens.

`AgentTurns` is the loop as others see it: at least one turn, at most
`MaxTurns`, then the end or an exception. `ToolAgentLoop` implements it with
`MaxTurns = ResponseLength`, because every turn takes at least a token.

### KarmarkarKarp, with BalancedPartition and BalancedParts

`states` is `states_pq`, `status` and `answer` are how a call ends. `Refuse` is
the first assertions, `Push` the heap the loop starts with (for equal sizes, `k`
neighbours of the sorted rows in one State), `PopAndMerge` one turn of the loop,
`Return` the assertions behind it, `Sound`, and their verdict. `Above` is
`Set.__lt__`, `Before` is `State.__lt__`, `Merge` joins the largest set with the
smallest and sorts again. The heap is a set, since the orders never call two
States equal.

`BalancedParts` says when partitions are a good answer: all rows dealt out, no
part empty, equal sizes if asked for, token counts within one row of each other.
`BalancedPartition` is one step from the arguments to such an answer, or to an
AssertionError for arguments that cannot be met.

### BatchFlow

A sample is the number of a row of the generation batch, a column the sequence
of samples its entries were computed from; a column that stays with its rows
equals `col["responses"]`.

| State | Code |
|---|---|
| `phase`, `col`, `reward`, `val` | where `fit` is, `batch`, `reward_tensor` or the copy the asynchronous reward got, the validation output |
| `pc`, `chunk`, `turn` | a rank, the rows it was sent, the mini-batches it has begun |
| `agreed`, `micro`, `next` | `num_micro_batches`, the micro-batches, the next one |
| `out`, `grad`, `seen` | what a rank has computed, the rows of its gradient, how often an update has trained on a sample |

`Dispatch` is a call with its chunks, `Collect...` what the driver does with the
result, `Join`, `Balance`, `Reward` and `Advantage` its own steps. `Begin` to
`Restore` are a rank, `AllReduce`, `Forward` and `Step` the collectives: they are
taken by all ranks together or not at all, so that ranks which disagree wait for
ever, and TLC's deadlock check is on in these runs. Any balanced partition may
be the answer, on the driver and on each rank, which is more than the ties of
one sorting order give. Whether a gradient norm is finite is a choice. Ranks of
a Ulysses group gather their rows and do the same on them: one rank here.

### MultiTurnRollout

A token is who has written it: the data set, the template's generation prompt,
the model, a user, a tool. `ids` and `mask` are `input_ids` and `loss_mask`,
`state` is `_req.state`, `reason` is `finish_reason_type`, `inst` what a tool
keeps for the request, `rank` where a rank of the group is. `Create`, `Answer`
with its outcomes, `Execute`, `UserTurn` and `UserLeaves` are the turns of
`_async_rollout_a_request`, `OutOfRoom` its length check, `Finalize` what comes
behind the loop, `Fault` an awaited call that raises at any await, with some of
the tools created or released. `Gather`, `Follow` and `Broadcast` are
`_req_level_generate_sequences` on all ranks. With `checked` (any
`tokenization_sanity_check_mode` but disable) `finalize` raises, because
`_get_prompt_diffs` uses names it never defines (`schemas.py:455`); the default
of `rollout.yaml:159` is strict. The reason "claimed" is an engine that says
`tool_calls` of an answer in which the parser finds none: the loop keeps it and
`finalize` refuses it. After a tool or a user the loop asks
`len(_req.input_ids) >= max_model_len` (`sglang_rollout.py:681`, `791`), which
counts the rows of a tensor of one row; it never ends the loop, so that `ids` may
outgrow the context until the test before the next answer and the cut of
`finalize` (`Truncated`) put that right.

## 3. Runs

The MC modules give constants their values; the cfgs say the rest.

| Run | What it asks | Bounds |
|---|---|---|
| `ckpt_auto` | resume_mode auto, two kept: `TrackerNamesWhole`, `DataAligned`, `FinalStepSaved`, `ImplementsDurable`, `JobEnds` | 2 ranks, actor and critic, steps to 7, 3 starts, a crash anywhere: 359 000 states |
| `ckpt_any_mode` | every resume mode, data that ends before the last step: `RetentionOfRun` | 2 ranks, actor, steps to 6, 2 starts |
| `ckpt_torn_tracker` | violated: auto always starts | 2 starts |
| `sync_modes` | `free_cache_engine`, agent loops or ranks without servers: `FreshWeights`, `FreshCache`, `NoSyncDuringUpdate`, `SleepTogether`, `TrainingHasMemory`, `FailureStops`, `RoundsEnd` | both modes, 2 servers of 2 ranks, 2 loops of 2 turns, 4 generations, 2 versions, 1 exception: 48 000 states |
| `sync_async_keep` | violated: `FreshWeights` without `free_cache_engine` | |
| `routing` | `HeapInOrder`, `NoneLeftBehind`, `Sticky`, `RollingEnds`, `ExceptionFailsJob` | a worker of 2 loops of up to 3 turns, 2 servers, a cache of exactly 2, 3 batches, 1 exception |
| `loop_tools` | `Aligned`, `EndsWithAnswer`, `RoomToAnswer`, `TakesTurns`, `LoopEnds`, `InstancesReleased` | both agents, prompts to 2, responses to 5 tokens, 2 parallel of at most 3 calls, no limit or one on each kind of turn |
| `balance` | `RaisesOnlyAtEntry`, `SpreadBounded`, `ImplementsPromise` | every batch of up to 6 rows of 0 to 3 tokens, up to 4 partitions, equal or not |
| `batch_flow` | `RowsTogether`, `GradientIsMiniBatch`, `TrainedEvenly`, `MicroBatchesFit`, `Lockstep`, `AssertionsHold` | 2 ranks, 3 prompts with 2 answers of 1 or 2 tokens, 3 validation rows, `max_token_len` 2, mini-batches of 2, micro-batches of 1 and 2, 2 epochs: 478 000 states |
| `remax_baseline` | violated: every union of a step joins batches of one size | as `batch_flow` |
| `multi_turn` | `FinishReasonsKnown`, `RanksAccept`, `AnswersArePrompted`, `EndsWithAnswer`, `ToolsReleased`, `RanksReturn` | 2 requests, 1 tool, 2 ranks, prompts of 7 and 14 tokens for a `prompt_length` of 5, a response of 8, a context of 16, 2 answers, 1 user turn, tool or user text of 1 or 6 tokens, 1 exception: 338 000 states |
| `multi_turn_strict` | violated: the sanity check only warns | as `multi_turn` |

Why the bounds suffice. A checkpoint needs two ranks to be torn, two groups to
be partial, two kept and a third saved to prune, and two restarts to meet files
of two earlier runs. A hang or a stale rank needs two servers and two ranks in
each, a stale version needs an update between two generations, a stale cache a
further one. The cache of `routing` is at its limit with exactly one chunk in
it, and holds foreign keys from the second batch on. A response of 5 tokens fits
two answers and a tool turn between, and every truncation and exit occurs; the
window of 7 is exactly prompt plus response. Six rows in three parts of two are
the smallest equal partition with merges whose order matters; five rows in three
parts have ties, empty sets and a last merge of two large States. In
`batch_flow` a rank gets three rows, hence a full and a partial mini-batch, its
own count of micro-batches can differ from the other's, the validation batch is
padded, and with two lengths every order of the rows occurs. In `multi_turn` the
prompt of 14 leaves no room for an answer; that of 7 is longer than
`prompt_length`, and what a tool or a user says behind its first answer either
overflows the context (6 tokens) or leaves just room for a second answer (1).

`CHECK_DEADLOCK FALSE` stands in the cfgs of the systems that end: they finish,
fail, or use up a bound. What must not stop is stated as liveness instead. The
runs of `BatchFlow` and `MultiTurnRollout`, where ranks wait for each other,
check for deadlock; their `Over` is the end that the code may come to.

### Fairness

Weakly fair are the driver, each rank, each server, each loop and each tool call: processes and
coroutines that run as long as they can, and whose I/O is answered. Never fair
are starting or killing a job, failing, and raising. `JobEnds` thus says that a
job that is not killed again ends, and `RoundsEnd` that a generation ends unless
a rank has died in a wake-up; then the code waits for ever, which `FailureStops`
turns into the safety claim that nothing goes on with a half-loaded engine.
`LoopEnds` needs no limit on turns.
In `MultiTurnRollout` the event loop runs every coroutine whose await is over,
and engine, tools and interactions answer in the end; `RanksReturn` is about the
behaviours in which none of them raises, because with an exception the other
ranks stay at the barrier. The liveness properties are checked in the
runs above that name `FairSpec`; refinements (`ImplementsDurable`, `Sticky`) are
of safety, `TakesTurns` includes the fairness of `AgentTurns`.

### What the violations show

1. `ckpt_torn_tracker`: the tracker is truncated before it is written; a kill
   in between leaves `int("")` to every later start.
2. `sync_async_keep`: with agent loops and `free_cache_engine` False the servers
   are never woken, and waking is what copies the weights: every batch is
   generated by the initial policy.
3. `remax_baseline`: with ReMax and several answers to a prompt, the baseline is
   generated from the batch already repeated and joined to the one that is not;
   the assertion of `union` ends the step.
4. `multi_turn_strict`: with `tokenization_sanity_check_mode` strict, the
   default, the check that should warn raises NameError, and no request of a
   multi-turn rollout is finalized.

Two more consequences of the code follow from smaller instances of the same
models and are notes here: with one checkpoint kept it is removed before the next
is written, so that a kill in between leaves a job that cannot start
(`SafeConfig` below excludes it); and `previous_saved_paths` is only in memory,
so that the bound holds for a run and not for the disk (`RetentionOfRun` is
stated for a run; nothing in the code bounds what several runs leave).

## 4. Proofs

Theorems are for all values of the constants that satisfy the named ASSUME of
the module, bounds included.

| Theorem | Says |
|---|---|
| `CheckpointResumeProofs!TypeCorrect` | `TypeOK` |
| `CheckpointResumeProofs!TrackerAlwaysWhole` | `TrackerNamesWhole` under `SafeConfig` |
| `CheckpointResumeProofs!DataStaysAligned` | `DataAligned` under `SafeConfig` |
| `CheckpointResumeProofs!RetentionHolds` | `RetentionOfRun`, for every configuration |
| `CheckpointResumeProofs!LastStepIsSaved` | `FinalStepSaved` under `WholeRun` |
| `CheckpointResumeProofs!Refinement` | `DurableTraining` is implemented, under `SafeConfig` |
| `RolloutSyncProofs!GenerationIsOnPolicy`, `CacheIsOnPolicy`, `UpdateAlone`, `SyncAndUpdateTakeTurns`, `EnginesAgree`, `NothingAfterFailure` | `FreshWeights`, `FreshCache`, `TrainingHasMemory`, `NoSyncDuringUpdate`, `SleepTogether`, `FailureStops`, all under `FreeCache`, in both modes |
| `AgentRoutingProofs!HeapsInOrder`, `NothingLeftBehind` | `HeapInOrder`, `NoneLeftBehind` |
| `AgentRoutingProofs!ManagersAreSticky` | `StickySessions` is implemented under `Roomy` |
| `ToolAgentLoopProofs!ResponsesAligned`, `ModelHasLastWord`, `AlwaysRoom` | `Aligned`, `EndsWithAnswer`, `RoomToAnswer` |
| `ToolAgentLoopProofs!StepsOfTurns` | every step is one of `AgentTurns`: `TakesTurns` without its fairness |
| `KarmarkarKarpProofs!SpreadIsBounded`, `MergesNeverRaise` | `SpreadBounded`, `RaisesOnlyAtEntry` |
| `KarmarkarKarpProofs!KeepsThePromise` | `BalancedPartition` is implemented (`ImplementsPromise`) |
| `KarmarkarKarpProofs!AnswersAreReckonedWith` | the answer is in `Partitions`, from which `BatchFlow` picks |
| `BatchFlowProofs!TypeCorrect`, `ColumnsFollow`, `GradientsAreWhole`, `EveryRowIsTrained`, `MicroBatchesAreSmall`, `RanksInLockstep`, `NothingRaises` | `TypeOK`, `RowsTogether`, `GradientIsMiniBatch`, `TrainedEvenly`, `MicroBatchesFit`, `Lockstep`, `AssertionsHold` |
| `MultiTurnRolloutProofs!FinishReasonsAreKnown`, `BatchIsAccepted`, `ConversationsAreShaped`, `ModelHasLastWord`, `InstancesAreReleased` | `FinishReasonsKnown`, `RanksAccept`, `AnswersArePrompted`, `EndsWithAnswer`, `ToolsReleased` |

Hypotheses. `SafeConfig`: every start resumes automatically and no retention
bound is 1: with one kept, a kill between removing and writing leaves nothing,
and a user who names another folder writes over the one the tracker names. `FreeCache`: `free_cache_engine` is set;
`sync_async_keep` shows that agent loops need it. `Roomy`:
the cache holds as many keys as a worker has loops in a batch (10000 by
default). `WholeRun`: `SafeConfig`, a positive `save_freq`, and as many steps as
the epochs have batches or fewer, which is so unless the user asks for more
steps than there is data. What the others need of their constants is in the
ASSUMEs; that of `BatchFlow` is that a row has at most `max_token_len`
tokens (asserted by `rearrange_micro_batches`),
that the answers divide evenly among the ranks (asserted by `_validate_config` for
FSDP, and by `DataProto.chunk`), and that a mini-batch is a multiple of a
micro-batch (asserted by the workers' `__init__`).

Induction over data. The library's induction theorems take an operator as a
parameter, and cannot be cited here. `DataLemmas` proves by the least
counterexample instead: every set of naturals that is not empty has a least one,
so what holds at 0 and of `n + 1` with `n` holds of all. With it come the facts
about the two folds of the models, the sum of a function over a finite set
(`SumTakeOut`, `SumDisjoint`, `SumOfParts`, `SumAtMost`) and the concatenation of
a list of lists (`FlattenLast`, `FlattenPieces`, `FlattenOnce`), and those about
quotients and remainders.

Inductive invariants.

- Checkpoints: that the tracker names a whole checkpoint is kept by no step on
  its own. `StepInv` ties `durable` to the tracker and puts it below the step
  being saved; `PrevInv` says rank 0's list is ascending and ends at or below
  the durable step, so that pruning with a bound of at least 2 spares its last
  entry; `RankInv` says what is being removed is older than the durable step;
  `SaveInv` says which shards the save in progress has completed when the driver
  reaches its own files.
  `AlignInv` adds that step and position agree up to whole epochs, in memory and
  in every data.pt on disk. `OwnInv` bounds what a run keeps: what it has written
  and not removed is in rank 0's list, but for what is being removed and the step
  being written, and while a shard may be written the list is below the bound
  (`ListInv`); no rank writes before rank 0 has pruned, by the first barrier
  (`BarrierInv`). `FinalInv` says the steps are never behind the epochs, so that
  the epochs are over only after the last step, and that a step beyond the last
  starts from one that is saved.
- Rollout: `TrainInv` (shards have the driver's version except during an
  update), `CallInv` (servers are busy only in the driver's calls, ranks only in
  their server's, or in mode sync in the driver's), `EngineInv` (who sleeps and
  who has loaded what at each point of a call), `CacheInv` (the cache is empty
  outside a generation). Calls and engines differ by mode and have a part for
  each: `AsyncCalls` and `SyncCalls`, `AsyncEngine` and `SyncEngine`.
- Routing: `LoopInv` (rows of earlier batches are over, of later ones new),
  `CacheInv` (keys are distinct, the worker's own, and in the order of their
  batches), `OpenInv` (open conversations are cached). An insertion drops the
  oldest key; were that one of this batch, all would be, and with the new one
  more than a chunk has: the pigeonhole lemma `InsertedKeeps`.
- Tool loop: `ShapeInv` (the prompt is the given tokens and then what the mask
  says), `RoomInv` (before an answer the response is not full), `LastInv` (the
  last kept position is the model's), `OutInv` (the output is the cut). For
  the steps of `AgentTurns`, `TurnInv`: every turn of tools has a token in the mask,
  so that an answer is asked for at most `ResponseLength` times.
- Largest differencing: `Fair` (no State spreads further than one row) is kept by
  a merge because two lists in descending order are joined crosswise, but only of
  States that are descending themselves. `Shape` says a State has sets of equal
  length, or no empty set, or at most one row in a set; `Kept` and `Once` that
  every row is in exactly one set of one State; together with the number of
  States they give what `Sound` asks of the last one. For the refinement
  `WInv` adds `Weighed`, that the `sum` a set carries through the merges is the
  tokens of its rows: only with it is the spread of the last State that of the
  partitions.
- The batch of a step: `Driven` (every column is the responses, seen through
  `Entry`, and those are an order of the samples) is all the driver needs between
  two calls; of a call it needs that the results put together are the rows that
  were sent, `CallIsOver`. That comes from `Awake`: each rank has its chunk
  (`HasRows`: between them every row once); the ranks are at one mini-batch and
  micro-batch, or on two sides of one step of it (`InStep`); a rank's
  micro-batches deal out its mini-batch, as many as all ranks agreed on (`Deals`);
  what it has computed or added to its gradient is what they pick, in their order
  (`Gathers`); and a row was trained on as often as its mini-batch was run, the
  one in progress included (`Counted`, with `Passes`). None of these is kept
  without the others: `Lockstep` needs `Deals` for the number of forward passes,
  `Counted` needs `HasRows` for a row to be that of one rank, `Deals` needs the
  agreed number to be between that of every rank and the rows of its mini-batch.
  `PartsFit` is the bound on a micro-batch: the parts differ by at most a row, and
  the number of them times the limit covers all tokens. TLC has checked `Inv` on
  the instance of `batch_flow` as well.
- Multi-turn rollout: `Text` (the sequence is `Shaped`, the mask is its mask, and
  a conversation that goes on ends with no half of a prompt), without which
  adding and stripping a generation prompt by comparing tokens could go wrong;
  `LastWord` (who has had it, in each state), `Kept` (the tools' instances in
  each state), `Outcome` (which reasons go with which way out of the loop), and
  `RanksInv`.

Only model-checked: liveness (`JobEnds`, `RoundsEnd`, `RollingEnds`,
`ExceptionFailsJob`, `LoopEnds`, `InstancesReleased`, `RanksReturn`,
and `TakesTurns`, whose abstract specification is fair; its steps are proved),
which is out of the prover's reach, as ENABLED is; and that `BatchFlow` and `MultiTurnRollout` never
deadlock, which is ENABLED again: `Lockstep` is the part of it that is an
invariant. Every safety property of a passing run is proved.

## 5. Not modelled inside the modelled parts

- HDFS paths of checkpoints (loading from them raises NotImplementedError), the
  export of a Hugging Face model, asynchronous checkpoints.
- LoRA, layered summon, the Megatron and SGLang sharding managers, tensor-parallel
  gathering of prompts, random states.
- `_postprocess` of the agent loop worker: it pads and never truncates, so a
  prompt longer than `prompt_length` (the template with tool schemas may be
  longer than the one the dataset filters by) fails the batch.
- An answer of no tokens; `prompt_ids[-0:]` would be the whole prompt. `LastOf`
  keeps that behaviour of the slice, the model's answers never reach it.
- A finished job that is started again trains one step more: `FinalStepSaved`
  and the refinement include it.
- The random states of a rank: the first `sleep` runs `__exit__` without an
  `__enter__` and stores one stream over another.
- Starts with `resume_mode` disable or a path over a folder whose tracker names
  another run's step: `TrackerNamesWhole` is about auto.
- Weights: a static micro-batch weighs `1 / gradient_accumulation` whatever its
  size (`dp_actor.py:427`), so rows of a last part that is not full weigh
  differently. `BatchFlow` has which rows are in a gradient, not how much.
- The automatic padding of `dispatch` (`protocol.py:493` grows the caller's batch
  in place; it is off by default), pf_ppo resampling, metrics and dumps;
  `greedy_partition`, `min_num_micro_batch` and `num_batches_divided_by`, which
  no FSDP worker uses.
- In the SGLang rollout the single-turn batch path, `chat_completion`,
  multi-modal inputs, `use_inference_chat_template`, attention masks and
  positions (they are cut where the loss mask is), tensor widths (a prompt
  longer than `prompt_length` is only warned of). `MaxAssistantTurns` is at
  least 1.

## 6. Plan

Done: checkpoints, weight synchronisation, routing, the tool loop, the partitions
of rows, the batch of a step, the multi-turn rollout. Next, by what their hazards
cost a training run:

1. `DynamicSampling` (`recipe/dapo`): batches are generated until enough groups
   have survived the filter; the accumulated batch is cut at whole groups, and
   something other than luck ends the step.
2. `ServerStart`: servers that found no port are killed and started again under
   the same name; the ranks a server takes for its own.
3. `RateLimiter` (`tools/sandbox_fusion_tools.py`): acquire and release from two
   concurrency groups, and a release that is registered before the acquire.
4. `CopyToLocal` (`utils/fs.py`): a killed copy and the next process that finds
   the path.
5. `AgentRollout`: AgentRouting composed with RolloutSync, where a conversation
   must not outlive the wakefulness of its server.

Theorems to prove next are those of the modules above.

## 7. Checking it

    tlc -workers 2 -config CheckpointAuto.cfg MCCheckpointResume
    tlapm CheckpointResumeProofs.tla

and likewise for the others. No run takes more than a minute but `multi_turn`, which takes two; the proofs of
`BatchFlowProofs` take about seven, the others less. `DataLemmas` is about numbers,
sums and lists, not about this code. Operators that
follow "Mutant" or stand before the definition they vary are never used by a
specification: each replaces the definition after it by what a plausible bug
would make of it, and PROJECT.json says which property then fails.
