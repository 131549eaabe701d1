---------------------------- MODULE RolloutSync -----------------------------
(***************************************************************************)
(* How a hybrid engine switches between training and generation.           *)
(*                                                                         *)
(* The actor's FSDP shards and a vLLM engine live in the same ranks.  The  *)
(* driver alternates generation and actor updates; before a generation the *)
(* sharding manager of every rank (FSDPVLLMShardingManager) gathers the    *)
(* shards into the engine's weights, afterwards it puts the engine to      *)
(* sleep to leave the GPU to training.                                     *)
(*                                                                         *)
(* The mode is configured once; Init leaves it open.                       *)
(*                                                                         *)
(* rollout.mode = async: an AgentLoopManager asks every server to wake up, *)
(* lets the agent loops call the servers, and asks the servers to sleep; a *)
(* server forwards both over ZeroMQ to a thread of each of its ranks,      *)
(* next to the main thread that runs update_actor.  rollout.mode = sync:   *)
(* the ranks run generate_sequences themselves, inside the context manager.*)
(*                                                                         *)
(* A version is the number of updates the weights have seen.  vLLM itself  *)
(* is external: it keeps its weights and its blocks of cached prefixes     *)
(* until it is told otherwise, and sleep(level=1) keeps the weights.       *)
(***************************************************************************)
EXTENDS Integers, FiniteSets

CONSTANTS Server,      \* the data-parallel rollout engines
          TP,          \* the tensor-parallel ranks of one engine
          Loop,        \* the agent loops of a batch
          FreeCache,   \* rollout.free_cache_engine
          MaxRounds,   \* bound: calls of generate_sequences
          MaxVersion,  \* bound: versions of the weights
          MaxTurns,    \* bound: generate calls of an agent loop
          MaxFaults    \* bound: exceptions in a wake-up

Rank == Server \X TP

ASSUME SyncAssumption ==
    /\ FreeCache \in BOOLEAN
    /\ {MaxRounds, MaxVersion, MaxTurns, MaxFaults} \subseteq Nat

RanksOf(s) == {s} \X TP

Mixed == -1            \* weights gathered from shards of different versions

VARIABLES
  mode,       \* rollout.mode, as configured
  \* the driver
  pc,         \* where it is
  round,      \* generate_sequences calls so far
  version,    \* completed actor updates
  \* a rank's training side: its main thread and its shards
  main,
  trained,
  \* a rank's rollout side: ZeroMQ thread (async) or the main thread (sync)
  rank,
  isSleep,    \* vLLMAsyncRollout.is_sleep
  entered,    \* collectives of __enter__ it has arrived at
  engine,     \* version of the engine's weights
  mem,        \* what the engine holds on the GPU
  cache,      \* versions under which cached prefix blocks were computed
  \* the servers and the agent loops
  server,
  loop,
  at,         \* the server an agent loop waits for
  turn

driverVars == <<mode, pc, round, version>>
trainVars  == <<main, trained>>
rankVars   == <<rank, isSleep, entered, engine, mem>>
loopVars   == <<loop, at, turn>>
vars == <<driverVars, trainVars, rankVars, cache, server, loopVars>>

Async == mode = "async"

TypeOK ==
  /\ mode \in {"async", "sync"}
  /\ pc \in {"boot", "ready", "waking", "rolling", "sleeping", "rolled",
             "updating"}
  /\ round \in 0 .. MaxRounds
  /\ version \in 0 .. MaxVersion
  /\ main \in [Rank -> {"idle", "update"}]
  /\ trained \in [Rank -> 0 .. MaxVersion]
  /\ rank \in [Rank -> {"idle", "wake", "gather", "ready", "sleep", "dead"}]
  /\ isSleep \in [Rank -> BOOLEAN]
  /\ entered \in [Rank -> 0 .. MaxRounds]
  /\ engine \in [Rank -> {Mixed} \cup 0 .. MaxVersion]
  /\ mem \in [Rank -> {"up", "weights", "down"}]
  /\ cache \in [Rank -> SUBSET ({Mixed} \cup 0 .. MaxVersion)]
  /\ server \in [Server -> {"idle", "wake", "waking", "sleep", "doze", "dozing"}]
  /\ loop \in [Loop -> {"ask", "wait", "done"}]
  /\ at \in [Loop -> Server]
  /\ turn \in [Loop -> 0 .. MaxTurns]

(* Async: init_engine has loaded the model, and AgentLoopManager.__init__  *)
(* ends with a sleep of every server, whatever free_cache_engine is.       *)
(* Sync: vLLMRollout.__init__ has put the engine to sleep if FreeCache.    *)
Init ==
  /\ mode \in {"async", "sync"}
  /\ pc = IF Async THEN "boot" ELSE "ready"
  /\ round = 0 /\ version = 0
  /\ main = [w \in Rank |-> "idle"]
  /\ trained = [w \in Rank |-> 0]
  /\ rank = [w \in Rank |-> "idle"]
  /\ isSleep = [w \in Rank |-> FALSE]
  /\ entered = [w \in Rank |-> 0]
  /\ engine = [w \in Rank |-> 0]
  /\ mem = [w \in Rank |-> IF ~Async /\ FreeCache THEN "down" ELSE "up"]
  /\ cache = [w \in Rank |-> {}]
  /\ server = [s \in Server |-> IF Async THEN "sleep" ELSE "idle"]
  /\ loop = [l \in Loop |-> "done"]
  /\ at \in [Loop -> Server]
  /\ turn = [l \in Loop |-> 0]

-----------------------------------------------------------------------------
(* The driver: RayPPOTrainer and AgentLoopManager.                         *)

ServersIdle == \A s \in Server : server[s] = "idle"

Booted ==
  /\ pc = "boot" /\ ServersIdle
  /\ pc' = "ready"
  /\ UNCHANGED <<mode, round, version, trainVars, rankVars, cache, server, loopVars>>

(* _load_checkpoint: the ranks have other weights than the engines. *)
LoadCheckpoint ==
  /\ pc = "ready" /\ round = 0 /\ version = 0 /\ MaxVersion > 0
  /\ version' = 1
  /\ trained' = [w \in Rank |-> 1]
  /\ UNCHANGED <<mode, pc, round, main, rankVars, cache, server, loopVars>>

StartLoops ==
  /\ pc' = "rolling"
  /\ loop' = [l \in Loop |-> "ask"]
  /\ turn' = [l \in Loop |-> 0]
  /\ UNCHANGED at

(* generate_sequences, of a training batch, a validation batch or a ReMax  *)
(* baseline.                                                               *)
Generate ==
  /\ pc = "ready" /\ round < MaxRounds
  /\ round' = round + 1
  /\ \/ /\ Async /\ FreeCache
        /\ pc' = "waking"
        /\ server' = [s \in Server |-> "wake"]
        /\ UNCHANGED <<rank, loopVars>>
     \/ /\ Async /\ ~FreeCache
        /\ StartLoops
        /\ UNCHANGED <<rank, server>>
     \/ /\ ~Async
        /\ pc' = "rolling"
        /\ rank' = [w \in Rank |-> "wake"]
        /\ UNCHANGED <<server, loopVars>>
  /\ UNCHANGED <<mode, version, trainVars, isSleep, entered, engine, mem, cache>>

(* A ray.get that does not wait for the servers. *)
Woken_NoWait ==
  /\ pc = "waking"
  /\ StartLoops
  /\ UNCHANGED <<mode, round, version, trainVars, rankVars, cache, server>>

Woken ==
  /\ pc = "waking" /\ ServersIdle
  /\ StartLoops
  /\ UNCHANGED <<mode, round, version, trainVars, rankVars, cache, server>>

LoopsDone == \A l \in Loop : loop[l] = "done"

Rolled ==
  /\ pc = "rolling"
  /\ \/ /\ Async /\ FreeCache /\ LoopsDone
        /\ pc' = "sleeping"
        /\ server' = [s \in Server |-> "sleep"]
     \/ /\ Async /\ ~FreeCache /\ LoopsDone
        /\ pc' = "rolled"
        /\ UNCHANGED server
     \/ /\ ~Async /\ \A w \in Rank : rank[w] = "idle"
        /\ pc' = "rolled"
        /\ UNCHANGED server
  /\ UNCHANGED <<mode, round, version, trainVars, rankVars, cache, loopVars>>

(* The driver goes on while the servers fall asleep. *)
Slept_NoWait ==
  /\ pc = "sleeping"
  /\ pc' = "rolled"
  /\ UNCHANGED <<mode, round, version, trainVars, rankVars, cache, server, loopVars>>

Slept ==
  /\ pc = "sleeping" /\ ServersIdle
  /\ pc' = "rolled"
  /\ UNCHANGED <<mode, round, version, trainVars, rankVars, cache, server, loopVars>>

Update ==
  /\ pc = "rolled" /\ version < MaxVersion
  /\ pc' = "updating"
  /\ main' = [w \in Rank |-> "update"]
  /\ UNCHANGED <<mode, round, version, trained, rankVars, cache, server, loopVars>>

(* Validation, the ReMax baseline and the critic's warm-up update nothing. *)
NoUpdate ==
  /\ pc = "rolled"
  /\ pc' = "ready"
  /\ UNCHANGED <<mode, round, version, trainVars, rankVars, cache, server, loopVars>>

(* update_actor as a non-blocking call. *)
Updated_NoWait ==
  /\ pc = "updating"
  /\ pc' = "ready"
  /\ version' = version + 1
  /\ UNCHANGED <<mode, round, trainVars, rankVars, cache, server, loopVars>>

Updated ==
  /\ pc = "updating" /\ \A w \in Rank : main[w] = "idle"
  /\ pc' = "ready"
  /\ version' = version + 1
  /\ UNCHANGED <<mode, round, trainVars, rankVars, cache, server, loopVars>>

-----------------------------------------------------------------------------
(* The servers: AsyncvLLMServer.                                           *)

Send(s, call, next) ==
  /\ rank' = [w \in Rank |-> IF w \in RanksOf(s) THEN call ELSE rank[w]]
  /\ server' = [server EXCEPT ![s] = next]
  /\ UNCHANGED <<driverVars, trainVars, isSleep, entered, engine, mem, cache,
                 loopVars>>

ServerWake(s) == server[s] = "wake" /\ Send(s, "wake", "waking")

ServerReset_Kept(s) ==
  /\ server[s] = "sleep"
  /\ server' = [server EXCEPT ![s] = IF FreeCache THEN "doze" ELSE "idle"]
  /\ UNCHANGED <<driverVars, trainVars, rankVars, cache, loopVars>>

(* The prefix cache is dropped first, unless a request still uses it. *)
ServerReset(s) ==
  /\ server[s] = "sleep"
  /\ cache' = [w \in Rank |->
                 IF w[1] = s /\ ~\E l \in Loop : loop[l] = "wait" /\ at[l] = s
                   THEN {} ELSE cache[w]]
  /\ server' = [server EXCEPT ![s] = IF FreeCache THEN "doze" ELSE "idle"]
  /\ UNCHANGED <<driverVars, trainVars, rankVars, loopVars>>

ServerSleep(s) == server[s] = "doze" /\ Send(s, "sleep", "dozing")

(* The first reply is taken for all of them. *)
ServerDone_First(s) ==
  /\ server[s] \in {"waking", "dozing"}
  /\ \E w \in RanksOf(s) : rank[w] = "idle"
  /\ server' = [server EXCEPT ![s] = "idle"]
  /\ UNCHANGED <<driverVars, trainVars, rankVars, cache, loopVars>>

(* The replies of all ranks are in. *)
ServerDone(s) ==
  /\ server[s] \in {"waking", "dozing"}
  /\ \A w \in RanksOf(s) : rank[w] = "idle"
  /\ server' = [server EXCEPT ![s] = "idle"]
  /\ UNCHANGED <<driverVars, trainVars, rankVars, cache, loopVars>>

-----------------------------------------------------------------------------
(* The ranks: vLLMAsyncRollout and FSDPVLLMShardingManager.                *)

RankUpdate(w) ==
  /\ main[w] = "update"
  /\ main' = [main EXCEPT ![w] = "idle"]
  /\ trained' = [trained EXCEPT ![w] = @ + 1]
  /\ UNCHANGED <<driverVars, rankVars, cache, server, loopVars>>

(* Only some ranks take part in the gathering. *)
Enter_SomeRanks(w) ==
  /\ rank[w] = "wake"
  /\ IF w[2] = CHOOSE t \in TP : TRUE
       THEN /\ rank' = [rank EXCEPT ![w] = "idle"]
            /\ UNCHANGED <<entered, mem>>
       ELSE /\ rank' = [rank EXCEPT ![w] = "gather"]
            /\ entered' = [entered EXCEPT ![w] = @ + 1]
            /\ mem' = [mem EXCEPT ![w] = IF FreeCache THEN "weights" ELSE @]
  /\ UNCHANGED <<driverVars, trainVars, isSleep, engine, cache, server, loopVars>>

(* wake_up is ignored by an engine that is awake; otherwise __enter__ takes *)
(* back the memory of the weights and arrives at the gathering of shards.  *)
Enter(w) ==
  /\ rank[w] = "wake"
  /\ IF Async /\ ~isSleep[w]
       THEN /\ rank' = [rank EXCEPT ![w] = "idle"]
            /\ UNCHANGED <<entered, mem>>
       ELSE /\ rank' = [rank EXCEPT ![w] = "gather"]
            /\ entered' = [entered EXCEPT ![w] = @ + 1]
            /\ mem' = [mem EXCEPT ![w] = IF FreeCache THEN "weights" ELSE @]
  /\ UNCHANGED <<driverVars, trainVars, isSleep, engine, cache, server, loopVars>>

Gathered ==
  IF \A u, v \in Rank : trained[u] = trained[v]
    THEN trained[CHOOSE u \in Rank : TRUE] ELSE Mixed

(* full_tensor() is a collective of all ranks of the actor, whichever      *)
(* server they belong to.                                                  *)
Sync(w) ==
  /\ rank[w] = "gather"
  /\ \A u \in Rank : entered[u] >= entered[w]
  /\ engine' = [engine EXCEPT ![w] = Gathered]
  /\ mem' = [mem EXCEPT ![w] = "up"]
  /\ isSleep' = [isSleep EXCEPT ![w] = FALSE]
  /\ rank' = [rank EXCEPT ![w] = IF Async THEN "idle" ELSE "ready"]
  /\ UNCHANGED <<driverVars, trainVars, entered, cache, server, loopVars>>

(* An exception in __enter__ ends the ZeroMQ thread: _loop_forever catches *)
(* nothing, and the server never gets its reply.                           *)
Fail(w) ==
  /\ Async /\ rank[w] = "gather"
  /\ Cardinality({u \in Rank : rank[u] = "dead"}) < MaxFaults
  /\ rank' = [rank EXCEPT ![w] = "dead"]
  /\ UNCHANGED <<driverVars, trainVars, isSleep, entered, engine, mem, cache,
                 server, loopVars>>

(* __exit__ forgets to put the engine to sleep. *)
Leave_KeepsMemory(w) ==
  /\ rank[w] = "sleep"
  /\ rank' = [rank EXCEPT ![w] = "idle"]
  /\ isSleep' = [isSleep EXCEPT ![w] = Async]
  /\ UNCHANGED <<driverVars, trainVars, entered, engine, mem, cache, server,
                 loopVars>>

(* sleep is ignored by an engine that sleeps; otherwise __exit__.  In sync *)
(* mode LLM.sleep drops the prefix cache as well.                          *)
Leave(w) ==
  /\ rank[w] = "sleep"
  /\ rank' = [rank EXCEPT ![w] = "idle"]
  /\ IF Async /\ isSleep[w]
       THEN UNCHANGED <<isSleep, mem, cache>>
       ELSE /\ isSleep' = [isSleep EXCEPT ![w] = Async]
            /\ mem' = [mem EXCEPT ![w] = IF FreeCache THEN "down" ELSE @]
            /\ cache' = [cache EXCEPT ![w] = IF FreeCache /\ ~Async THEN {} ELSE @]
  /\ UNCHANGED <<driverVars, trainVars, entered, engine, server, loopVars>>

-----------------------------------------------------------------------------
(* Generation.  Cached blocks carry the version they were computed with.   *)

Computed(s) ==
  cache' = [w \in Rank |-> IF w \in RanksOf(s) THEN cache[w] \cup {engine[w]}
                                               ELSE cache[w]]

(* An agent loop sends its prompt to a server (the manager picks it). *)
Ask(l, s) ==
  /\ loop[l] = "ask"
  /\ loop' = [loop EXCEPT ![l] = "wait"]
  /\ at' = [at EXCEPT ![l] = s]
  /\ UNCHANGED <<driverVars, trainVars, rankVars, cache, server, turn>>

(* The answer arrives; the loop goes on or is done. *)
Answer(l) ==
  /\ loop[l] = "wait"
  /\ Computed(at[l])
  /\ turn' = [turn EXCEPT ![l] = @ + 1]
  /\ \E next \in {"ask", "done"} :
       /\ next = "ask" => turn[l] + 1 < MaxTurns
       /\ loop' = [loop EXCEPT ![l] = next]
  /\ UNCHANGED <<driverVars, trainVars, rankVars, server, at>>

(* The ranks of an engine generate in lockstep. *)
RunEngine(s) ==
  /\ \A w \in RanksOf(s) : rank[w] = "ready"
  /\ Computed(s)
  /\ rank' = [w \in Rank |-> IF w \in RanksOf(s) THEN "sleep" ELSE rank[w]]
  /\ UNCHANGED <<driverVars, trainVars, isSleep, entered, engine, mem, server,
                 loopVars>>

DriverStep == \/ Booted \/ LoadCheckpoint \/ Generate \/ Woken \/ Rolled
              \/ Slept \/ Update \/ NoUpdate \/ Updated
ServerStep(s) == \/ ServerWake(s) \/ ServerReset(s) \/ ServerSleep(s)
                 \/ ServerDone(s) \/ RunEngine(s)
RankStep(w) == RankUpdate(w) \/ Enter(w) \/ Sync(w) \/ Leave(w)
LoopStep(l) == (\E s \in Server : Ask(l, s)) \/ Answer(l)

Next == \/ DriverStep
        \/ \E s \in Server : ServerStep(s)
        \/ \E w \in Rank : RankStep(w) \/ Fail(w)
        \/ \E l \in Loop : LoopStep(l)

Spec == Init /\ [][Next]_vars

(* The trainer's loop, the actors and the engines run; exceptions need not *)
(* happen.                                                                 *)
Fairness == /\ WF_vars(DriverStep)
            /\ \A s \in Server : WF_vars(ServerStep(s))
            /\ \A w \in Rank : WF_vars(RankStep(w))
            /\ \A l \in Loop : WF_vars(LoopStep(l))

FairSpec == Spec /\ Fairness

-----------------------------------------------------------------------------
(* Properties.                                                             *)

Serving(s) == \/ \E l \in Loop : loop[l] = "wait" /\ at[l] = s
              \/ \A w \in RanksOf(s) : rank[w] = "ready"

(* While a server generates, every one of its ranks holds, on the GPU, the *)
(* weights of the last actor update: the batch is on-policy                *)
(* (FSDPVLLMShardingManager.__enter__ before, the driver's waits around).  *)
FreshWeights ==
  \A s \in Server : Serving(s) =>
     \A w \in RanksOf(s) : engine[w] = version /\ mem[w] = "up"

(* No cached prefix block that a generation may reuse was computed with    *)
(* the weights of an earlier version (AsyncvLLMServer.sleep, LLM.sleep).   *)
FreshCache ==
  \A s \in Server : Serving(s) => \A w \in RanksOf(s) : cache[w] \subseteq {version}

(* No rank gathers shards while another thread updates them.               *)
NoSyncDuringUpdate ==
  (\E w \in Rank : rank[w] = "gather") => \A u \in Rank : main[u] = "idle"

(* Between the driver's calls the engines all sleep or are all awake: a    *)
(* rank that disagrees would skip the next collective and hang the others  *)
(* (the is_sleep tests of vLLMAsyncRollout).                               *)
SleepTogether ==
  pc \in {"ready", "rolled", "updating"} =>
     \A u, v \in Rank : isSleep[u] = isSleep[v]

(* An update never shares the GPU with a KV cache when the cache is to be  *)
(* freed (free_cache_engine, __exit__).                                    *)
TrainingHasMemory ==
  (FreeCache /\ \E w \in Rank : main[w] = "update")
     => \A w \in Rank : mem[w] = "down"

(* After a failed wake-up no agent loop runs and nothing is trained: the   *)
(* job stands still rather than use an engine half loaded.                 *)
FailureStops ==
  (\E w \in Rank : rank[w] = "dead") => pc = "waking"

(* Every generation and every update ends, and the driver goes on, unless  *)
(* a rank has died in a wake-up.                                           *)
RoundsEnd ==
  (pc /= "ready") ~> (pc = "ready" \/ \E w \in Rank : rank[w] = "dead")
=============================================================================
