---------------------------- MODULE AgentRouting ----------------------------
(***************************************************************************)
(* How the turns of a batch of agent loops reach the rollout servers.      *)
(*                                                                         *)
(* The driver (AgentLoopManager.generate_sequences) cuts a batch into one  *)
(* contiguous chunk per AgentLoopWorker and waits for all of them.  A      *)
(* worker is an asyncio process: it runs one agent loop per row of its     *)
(* chunk, concurrently, and gathers their outputs.  At every turn a loop   *)
(* asks the worker's own AsyncLLMServerManager for its server: the one an  *)
(* LRU cache remembers for the request, or else the top of a heap ordered  *)
(* by the number of requests this manager has given to the server and then *)
(* by the server's hash.  The counts are never lowered.                    *)
(*                                                                         *)
(* A loop is abstract here: it asks 1 .. MaxTurns times and ends, or       *)
(* raises.  ToolAgentLoop models one in detail.                            *)
(***************************************************************************)
EXTENDS Integers, FiniteSets, Sequences, SequencesExt

CONSTANTS Worker,       \* rollout.agent.num_workers actors
          Server,       \* the rollout servers
          HashOf,       \* hash(server)
          Chunk,        \* rows a worker gets of a batch
          CacheSize,    \* max_cache_size
          MaxBatches,   \* bound: calls of generate_sequences
          MaxTurns,     \* bound: generate calls of an agent loop
          MaxFaults     \* bound: agent loops that raise

(* A request_id: uuid4 is fresh for every loop, so it is the batch, the    *)
(* worker and the row the loop runs for.                                   *)
Request == (1 .. MaxBatches) \X Worker \X (1 .. Chunk)

ASSUME RoutingAssumption ==
    /\ Server # {} /\ HashOf \in [Server -> Nat]
    /\ \A s, t \in Server : HashOf[s] = HashOf[t] => s = t
    /\ {Chunk, CacheSize, MaxBatches, MaxTurns} \subseteq Nat \ {0}
    /\ MaxFaults \in Nat

VARIABLES
  job,        \* the driver's call of generate_sequences
  batch,      \* calls so far
  loop,       \* the agent loops
  turn,       \* generate calls a loop has made
  faults,     \* loops that raised
  recent,     \* request_id_to_server of a worker: its keys, latest last
  serverOf,   \* ... and what it maps them to
  weight,     \* weighted_serveres of a worker
  at          \* the server that works for a loop, in a set of at most one

managerVars == <<recent, serverOf, weight>>
vars == <<job, batch, loop, turn, faults, managerVars, at>>

TypeOK ==
  /\ job \in {"idle", "rolling", "failed"}
  /\ batch \in 0 .. MaxBatches
  /\ loop \in [Request -> {"new", "turn", "asking", "over", "raised"}]
  /\ turn \in [Request -> 0 .. MaxTurns]
  /\ faults \in 0 .. MaxFaults
  /\ recent \in [Worker -> Seq(Request)]
  /\ serverOf \in [Request -> Server]
  /\ weight \in [Worker -> [Server -> Nat]]
  /\ at \in [Request -> SUBSET Server]

Init ==
  /\ job = "idle" /\ batch = 0 /\ faults = 0
  /\ loop = [r \in Request |-> "new"]
  /\ turn = [r \in Request |-> 0]
  /\ recent = [w \in Worker |-> <<>>]
  /\ serverOf = [r \in Request |-> CHOOSE s \in Server : TRUE]
  /\ weight = [w \in Worker |-> [s \in Server |-> 0]]
  /\ at = [r \in Request |-> {}]

-----------------------------------------------------------------------------
(* AsyncLLMServerManager.                                                  *)

Cached(w, r) == Contains(recent[w], r)

(* cachetools.LRUCache: a lookup makes the key the most recent one ...     *)
Touched(q, r) == Append(RemoveFirst(q, r), r)

(* ... and an insertion drops the least recent one when the cache is full. *)
Inserted(q, r) == Append(IF Len(q) < CacheSize THEN q ELSE Tail(q), r)

(* Mutant: the count is raised, but the heap is not repaired. *)
M_Before(w, s, t) == HashOf[s] <= HashOf[t]

(* The order of the heap. *)
Before(w, s, t) == \/ weight[w][s] < weight[w][t]
                   \/ weight[w][s] = weight[w][t] /\ HashOf[s] <= HashOf[t]

Top(w, s) == \A t \in Server : Before(w, s, t)

Remember(w, r, s) ==
  /\ Cached(w, r)
  /\ s = serverOf[r]
  /\ recent' = [recent EXCEPT ![w] = Touched(@, r)]
  /\ UNCHANGED <<serverOf, weight>>

(* Mutant: what the cache remembers is read after the heap was repaired. *)
M_Assign(w, r, s) ==
  /\ ~Cached(w, r)
  /\ Top(w, s)
  /\ weight' = [weight EXCEPT ![w][s] = @ + 1]
  /\ recent' = [recent EXCEPT ![w] = Inserted(@, r)]
  /\ \E t \in Server : Top(w, t)' /\ serverOf' = [serverOf EXCEPT ![r] = t]

Assign(w, r, s) ==
  /\ ~Cached(w, r)
  /\ Top(w, s)
  /\ weight' = [weight EXCEPT ![w][s] = @ + 1]
  /\ recent' = [recent EXCEPT ![w] = Inserted(@, r)]
  /\ serverOf' = [serverOf EXCEPT ![r] = s]

ChooseServer(w, r, s) == Remember(w, r, s) \/ Assign(w, r, s)

-----------------------------------------------------------------------------
(* The agent loop of a request, and the server that answers it.            *)

Ask(r, s) ==
  /\ loop[r] = "turn" /\ turn[r] < MaxTurns
  /\ ChooseServer(r[2], r, s)
  /\ loop' = [loop EXCEPT ![r] = "asking"]
  /\ turn' = [turn EXCEPT ![r] = turn[r] + 1]
  /\ at' = [at EXCEPT ![r] = {s}]
  /\ UNCHANGED <<job, batch, faults>>

Answer(r) ==
  /\ loop[r] = "asking"
  /\ loop' = [loop EXCEPT ![r] = "turn"]
  /\ at' = [at EXCEPT ![r] = {}]
  /\ UNCHANGED <<job, batch, turn, faults, managerVars>>

End(r) ==
  /\ loop[r] = "turn" /\ turn[r] > 0
  /\ loop' = [loop EXCEPT ![r] = "over"]
  /\ UNCHANGED <<job, batch, turn, faults, managerVars, at>>

(* The registry does not know the agent, the server refuses the request,   *)
(* a tool cannot be released: asyncio.gather passes the exception on and   *)
(* leaves the other loops of the worker running.                           *)
Raise(r) ==
  /\ loop[r] \in {"turn", "asking"} /\ faults < MaxFaults
  /\ loop' = [loop EXCEPT ![r] = "raised"]
  /\ at' = [at EXCEPT ![r] = {}]
  /\ faults' = faults + 1
  /\ UNCHANGED <<job, batch, turn, managerVars>>

-----------------------------------------------------------------------------
(* The driver.                                                             *)

Rows(b) == {r \in Request : r[1] = b}

(* Mutant: the last row of a chunk gets no loop. *)
M_Generate ==
  /\ job = "idle" /\ batch < MaxBatches
  /\ job' = "rolling" /\ batch' = batch + 1
  /\ loop' = [r \in Request |-> IF r \in Rows(batch + 1) /\ r[3] < Chunk
                                THEN "turn" ELSE loop[r]]
  /\ UNCHANGED <<turn, faults, managerVars, at>>

Generate ==
  /\ job = "idle" /\ batch < MaxBatches
  /\ job' = "rolling" /\ batch' = batch + 1
  /\ loop' = [r \in Request |-> IF r \in Rows(batch + 1) THEN "turn" ELSE loop[r]]
  /\ UNCHANGED <<turn, faults, managerVars, at>>

(* Mutant: gather(return_exceptions=True). *)
M_Collect ==
  /\ job = "rolling"
  /\ \A r \in Rows(batch) : loop[r] \in {"over", "raised"}
  /\ job' = "idle"
  /\ UNCHANGED <<batch, loop, turn, faults, managerVars, at>>

(* ray.get has every worker's output, and a worker all of its loops'. *)
Collect ==
  /\ job = "rolling"
  /\ \A r \in Rows(batch) : loop[r] = "over"
  /\ job' = "idle"
  /\ UNCHANGED <<batch, loop, turn, faults, managerVars, at>>

(* Mutant: a worker fails when none of its loops has an output. *)
M_JobFails ==
  /\ job = "rolling"
  /\ \A r \in Rows(batch) : loop[r] = "raised"
  /\ job' = "failed"
  /\ UNCHANGED <<batch, loop, turn, faults, managerVars, at>>

(* One loop's exception is its worker's, and ray.get's: the job ends. *)
JobFails ==
  /\ job = "rolling"
  /\ \E r \in Rows(batch) : loop[r] = "raised"
  /\ job' = "failed"
  /\ UNCHANGED <<batch, loop, turn, faults, managerVars, at>>

Advance(r) == (\E s \in Server : Ask(r, s)) \/ Answer(r) \/ End(r)

Next == \/ Generate \/ Collect \/ JobFails
        \/ \E r \in Request : Advance(r) \/ Raise(r)

Fairness == /\ WF_vars(Collect) /\ WF_vars(JobFails)
            /\ \A r \in Request : WF_vars(Advance(r))

Spec == Init /\ [][Next]_vars

FairSpec == Spec /\ Fairness

-----------------------------------------------------------------------------
(* Properties.                                                             *)

Open(r) == loop[r] \in {"turn", "asking"} /\ turn[r] > 0

(* An open conversation the cache has dropped may go anywhere. *)
Home(r) == IF ~Open(r) THEN {}
           ELSE IF Cached(r[2], r) THEN {serverOf[r]} ELSE Server

Sessions == INSTANCE StickySessions
                WITH home <- [r \in Request |-> Home(r)], busy <- at

(* All the turns of a conversation are answered by one server, provided    *)
(* the cache holds the chunk of a worker: however the loops of the worker  *)
(* interleave and whatever earlier batches left in the cache, an insertion *)
(* never drops a conversation that is still open.                          *)
Sticky == Sessions!Spec

(* The heap of a manager spreads its requests evenly: the servers, in the  *)
(* order of their hashes, have equal counts except that the first of them  *)
(* may be one ahead.  That order is the same in every manager, whatever    *)
(* random.shuffle has done to the list of handles.                         *)
HeapInOrder ==
  \A w \in Worker : \A s, t \in Server :
    HashOf[s] < HashOf[t] => weight[w][s] - weight[w][t] \in {0, 1}

(* When generate_sequences has returned, so that the servers are put to    *)
(* sleep and the trainer goes on, no server works for a loop and every     *)
(* loop has ended without an exception.                                    *)
NoneLeftBehind ==
  job = "idle" => \A r \in Request : at[r] = {} /\ loop[r] \in {"new", "over"}

(* A call of generate_sequences comes to an end: the loops of one worker   *)
(* never wait for each other.                                              *)
RollingEnds == (job = "rolling") ~> (job # "rolling")

(* An exception in one agent loop is never lost: it fails the job.         *)
ExceptionFailsJob == (\E r \in Request : loop[r] = "raised") ~> (job = "failed")
=============================================================================
