------------------------- MODULE RolloutSyncProofs --------------------------
(***************************************************************************)
(* Proofs about RolloutSync, for every number of engines, ranks and agent  *)
(* loops and both modes, with free_cache_engine set, as it is by default.  *)
(* The run sync_async_keep shows that FreshWeights needs it with agent     *)
(* loops.                                                                  *)
(***************************************************************************)
EXTENDS RolloutSync, TLAPS

(* Only the shapes the argument uses; TypeOK's bounds are left to TLC. *)
TypeInv ==
  /\ mode \in {"async", "sync"}
  /\ pc \in {"boot", "ready", "waking", "rolling", "sleeping", "rolled", "updating"}
  /\ version \in Nat
  /\ main \in [Rank -> {"idle", "update"}]
  /\ trained \in [Rank -> Nat]
  /\ rank \in [Rank -> {"idle", "wake", "gather", "ready", "sleep", "dead"}]
  /\ isSleep \in [Rank -> BOOLEAN]
  /\ entered \in [Rank -> Nat]
  /\ engine \in [Rank -> Int]
  /\ mem \in [Rank -> {"up", "weights", "down"}]
  /\ cache \in [Rank -> SUBSET Int]
  /\ server \in [Server -> {"idle", "wake", "waking", "sleep", "doze", "dozing"}]
  /\ loop \in [Loop -> {"ask", "wait", "done"}]
  /\ at \in [Loop -> Server]

(* The shards have the driver's version, except while they are updated. *)
TrainInv ==
  \A w \in Rank :
    IF pc = "updating"
      THEN trained[w] = IF main[w] = "idle" THEN version + 1 ELSE version
      ELSE main[w] = "idle" /\ trained[w] = version

(* With agent loops, servers are busy only during the driver's calls, and  *)
(* ranks only during those of their server.                                *)
AsyncCalls ==
  /\ \A s \in Server :
       server[s] \in CASE pc \in {"boot", "sleeping"} -> {"sleep", "doze", "dozing", "idle"}
                       [] pc = "waking" -> {"wake", "waking", "idle"}
                       [] OTHER -> {"idle"}
  /\ \A w \in Rank :
       rank[w] \in CASE server[w[1]] = "waking" -> {"wake", "gather", "idle", "dead"}
                     [] server[w[1]] = "dozing" -> {"sleep", "idle"}
                     [] OTHER -> {"idle"}
  /\ pc # "rolling" => \A l \in Loop : loop[l] = "done"

(* Without them there are no calls, and the ranks are busy while the       *)
(* driver waits for their batch.                                           *)
SyncCalls ==
  /\ pc \in {"ready", "rolling", "rolled", "updating"}
  /\ \A s \in Server : server[s] = "idle"
  /\ \A w \in Rank :
       rank[w] \in IF pc = "rolling" THEN {"wake", "gather", "ready", "sleep", "idle"}
                                    ELSE {"idle"}
  /\ \A l \in Loop : loop[l] = "done"

CallInv == IF Async THEN AsyncCalls ELSE SyncCalls

(* Which engines sleep, and what those that are awake have loaded. *)
Awake(w)  == ~isSleep[w] /\ mem[w] = "up"
Asleep(w) == isSleep[w] /\ mem[w] = "down"
Fresh(w)  == Awake(w) /\ engine[w] = version

AsyncEngine(w) ==
  /\ pc \in {"ready", "rolled", "updating"} => Asleep(w)
  /\ pc = "rolling" => Fresh(w)
  /\ pc = "waking" =>
       /\ server[w[1]] = "wake" \/ rank[w] = "wake" => Asleep(w)
       /\ rank[w] = "gather" => isSleep[w]
       /\ server[w[1]] # "wake" /\ rank[w] = "idle" => Fresh(w)
  /\ pc \in {"boot", "sleeping"} =>
       IF server[w[1]] \in {"sleep", "doze"} \/ rank[w] = "sleep"
         THEN Awake(w) ELSE Asleep(w)

SyncEngine(w) ==
  /\ ~isSleep[w]
  /\ rank[w] \in {"wake", "idle"} => mem[w] = "down"
  /\ rank[w] \in {"ready", "sleep"} => Fresh(w)

EngineInv == \A w \in Rank : IF Async THEN AsyncEngine(w) ELSE SyncEngine(w)

(* The prefix cache is empty except from the first answer of a generation  *)
(* until the server is told to sleep, or the rank leaves the context.      *)
Caching(w) ==
  IF Async THEN pc = "rolling" \/ (pc = "sleeping" /\ server[w[1]] = "sleep")
           ELSE rank[w] = "sleep"

CacheInv ==
  \A w \in Rank : cache[w] \subseteq IF Caching(w) THEN {version} ELSE {}

IInv == TypeInv /\ TrainInv /\ CallInv /\ EngineInv /\ CacheInv

-----------------------------------------------------------------------------
LEMMA RankFact ==
  /\ \A w \in Rank : w[1] \in Server
  /\ \A w \in Rank, s \in Server : w \in RanksOf(s) <=> w[1] = s
  /\ \A s \in Server : RanksOf(s) \subseteq Rank
BY DEF Rank, RanksOf

LEMMA IInit == FreeCache /\ Init => IInv
BY RankFact
DEF Init, IInv, TypeInv, TrainInv, Awake, Asleep, Fresh,
    Async, CallInv, AsyncCalls, SyncCalls, EngineInv, AsyncEngine, SyncEngine,
    CacheInv, Caching

LEMMA IStep ==
  ASSUME FreeCache, IInv, [Next]_vars
  PROVE  IInv'
<1> USE RankFact, SyncAssumption
    DEF IInv, TypeInv, TrainInv, Awake, Asleep, Fresh,
        Async, CallInv, AsyncCalls, SyncCalls, EngineInv, AsyncEngine, SyncEngine,
        CacheInv, Caching
<1>1. CASE Booted
  BY <1>1 DEF Booted, ServersIdle, trainVars, rankVars, loopVars
<1>2. CASE LoadCheckpoint
  BY <1>2 DEF LoadCheckpoint, rankVars, loopVars
<1>3. CASE Generate
  BY <1>3 DEF Generate, trainVars, loopVars
<1>4. CASE Woken
  BY <1>4 DEF Woken, ServersIdle, StartLoops, trainVars, rankVars
<1>5. CASE Rolled
  BY <1>5 DEF Rolled, LoopsDone, trainVars, rankVars, loopVars
<1>6. CASE Slept
  BY <1>6 DEF Slept, ServersIdle, trainVars, rankVars, loopVars
<1>7. CASE Update
  BY <1>7 DEF Update, rankVars, loopVars
<1>8. CASE NoUpdate
  BY <1>8 DEF NoUpdate, trainVars, rankVars, loopVars
<1>9. CASE Updated
  BY <1>9 DEF Updated, trainVars, rankVars, loopVars
<1>10. ASSUME NEW s \in Server, ServerWake(s) PROVE IInv'
  BY <1>10 DEF ServerWake, Send, driverVars, trainVars, loopVars
<1>11. ASSUME NEW s \in Server, ServerReset(s) PROVE IInv'
  BY <1>11 DEF ServerReset, driverVars, trainVars, rankVars, loopVars
<1>12. ASSUME NEW s \in Server, ServerSleep(s) PROVE IInv'
  BY <1>12 DEF ServerSleep, Send, driverVars, trainVars, loopVars
<1>13. ASSUME NEW s \in Server, ServerDone(s) PROVE IInv'
  BY <1>13 DEF ServerDone, driverVars, trainVars, rankVars, loopVars
<1>14. ASSUME NEW s \in Server, RunEngine(s) PROVE IInv'
  BY <1>14 DEF RunEngine, Computed, driverVars, trainVars, loopVars
<1>15. ASSUME NEW w \in Rank, RankUpdate(w) PROVE IInv'
  BY <1>15 DEF RankUpdate, driverVars, rankVars, loopVars
<1>16. ASSUME NEW w \in Rank, Enter(w) PROVE IInv'
  <2>1. /\ IF Async THEN server[w[1]] = "waking" /\ pc = "waking" /\ isSleep[w]
                    ELSE pc = "rolling"
        /\ rank[w] = "wake"
    BY <1>16 DEF Enter
  <2>2. /\ rank' = [rank EXCEPT ![w] = "gather"]
        /\ entered' = [entered EXCEPT ![w] = @ + 1]
        /\ mem' = [mem EXCEPT ![w] = "weights"]
        /\ UNCHANGED <<driverVars, trainVars, isSleep, engine, cache, server, loopVars>>
    BY <1>16, <2>1 DEF Enter
  <2> QED
    BY <2>1, <2>2 DEF driverVars, trainVars, loopVars
<1>17. ASSUME NEW w \in Rank, Sync(w) PROVE IInv'
  BY <1>17 DEF Sync, Gathered, driverVars, trainVars, loopVars
<1>18. ASSUME NEW w \in Rank, Leave(w) PROVE IInv'
  <2>1. CASE Async
    <3>1. /\ server[w[1]] = "dozing" /\ pc \in {"boot", "sleeping"}
          /\ ~isSleep[w] /\ rank[w] = "sleep"
      BY <1>18, <2>1 DEF Leave
    <3>2. /\ rank' = [rank EXCEPT ![w] = "idle"]
          /\ isSleep' = [isSleep EXCEPT ![w] = TRUE]
          /\ mem' = [mem EXCEPT ![w] = "down"]
          /\ UNCHANGED <<driverVars, trainVars, entered, engine, server, loopVars>>
          /\ cache' = [cache EXCEPT ![w] = cache[w]]
      BY <1>18, <2>1, <3>1 DEF Leave
    <3> QED
      BY <2>1, <3>1, <3>2 DEF driverVars, trainVars, loopVars
  <2>2. CASE ~Async
    <3>1. pc = "rolling" /\ rank[w] = "sleep"
      BY <1>18, <2>2 DEF Leave
    <3>2. /\ rank' = [rank EXCEPT ![w] = "idle"]
          /\ isSleep' = [isSleep EXCEPT ![w] = FALSE]
          /\ mem' = [mem EXCEPT ![w] = "down"]
          /\ UNCHANGED <<driverVars, trainVars, entered, engine, server, loopVars>>
          /\ cache' = [cache EXCEPT ![w] = {}]
      BY <1>18, <2>2 DEF Leave
    <3> QED
      BY <2>2, <3>1, <3>2 DEF driverVars, trainVars, loopVars
  <2> QED
    BY <2>1, <2>2
<1>19. ASSUME NEW w \in Rank, Fail(w) PROVE IInv'
  BY <1>19 DEF Fail, driverVars, trainVars, loopVars
<1>20. ASSUME NEW l \in Loop, NEW s \in Server, Ask(l, s) PROVE IInv'
  BY <1>20 DEF Ask, driverVars, trainVars, rankVars
<1>21. ASSUME NEW l \in Loop, Answer(l) PROVE IInv'
  BY <1>21 DEF Answer, Computed, driverVars, trainVars, rankVars
<1>22. CASE UNCHANGED vars
  BY <1>22 DEF vars, driverVars, trainVars, rankVars, loopVars
<1> QED
  BY <1>1, <1>2, <1>3, <1>4, <1>5, <1>6, <1>7, <1>8, <1>9, <1>10, <1>11, <1>12,
     <1>13, <1>14, <1>15, <1>16, <1>17, <1>18, <1>19, <1>20, <1>21, <1>22
  DEF Next, DriverStep, ServerStep, RankStep, LoopStep

LEMMA Inductive == FreeCache /\ Spec => []IInv
<1>1. FreeCache => (Spec => []IInv)
  <2> SUFFICES ASSUME FreeCache PROVE Spec => []IInv
    OBVIOUS
  <2> QED
    BY IInit, IStep, PTL DEF Spec
<1> QED
  BY <1>1

-----------------------------------------------------------------------------
(* Every generation of every server runs on all its ranks with the weights *)
(* of the last update: AgentLoopManager's waits, the servers' and the      *)
(* collective in __enter__ together leave no interleaving that breaks it.  *)
THEOREM GenerationIsOnPolicy == FreeCache /\ Spec => []FreshWeights
<1>1. IInv => FreshWeights
  BY RankFact
  DEF IInv, TypeInv, Async, CallInv, AsyncCalls, SyncCalls,
      EngineInv, AsyncEngine, SyncEngine, FreshWeights, Serving, Fresh, Awake
<1> QED
  BY <1>1, Inductive, PTL

(* No generation reuses a cached prefix of earlier weights. *)
THEOREM CacheIsOnPolicy == FreeCache /\ Spec => []FreshCache
<1>1. IInv => FreshCache
  BY RankFact
  DEF IInv, TypeInv, Async, CallInv, AsyncCalls, SyncCalls, CacheInv, Caching,
      FreshCache, Serving
<1> QED
  BY <1>1, Inductive, PTL

(* An update has the GPU to itself: no engine holds memory meanwhile. *)
THEOREM UpdateAlone == FreeCache /\ Spec => []TrainingHasMemory
<1>1. IInv => TrainingHasMemory
  BY RankFact
  DEF IInv, TypeInv, TrainInv, Async, CallInv, AsyncCalls, SyncCalls,
      EngineInv, AsyncEngine, SyncEngine, TrainingHasMemory, Asleep
<1> QED
  BY <1>1, Inductive, PTL

(* No rank gathers the shards of the actor while an update changes them:   *)
(* the ZeroMQ thread and the main thread of a rank take turns.             *)
THEOREM SyncAndUpdateTakeTurns == FreeCache /\ Spec => []NoSyncDuringUpdate
<1>1. IInv => NoSyncDuringUpdate
  BY RankFact
  DEF IInv, TypeInv, TrainInv, Async, CallInv, AsyncCalls, SyncCalls,
      EngineInv, AsyncEngine, SyncEngine, NoSyncDuringUpdate, Asleep
<1> QED
  BY <1>1, Inductive, PTL

(* All engines sleep or all are awake between calls, so that no collective *)
(* of a wake-up waits for a rank that skips it.                            *)
THEOREM EnginesAgree == FreeCache /\ Spec => []SleepTogether
<1>1. IInv => SleepTogether
  BY RankFact
  DEF IInv, TypeInv, Async, CallInv, AsyncCalls, SyncCalls,
      EngineInv, AsyncEngine, SyncEngine, SleepTogether, Asleep
<1> QED
  BY <1>1, Inductive, PTL

(* A failed wake-up lets nothing go on: no generation and no update starts *)
(* before the driver has had an answer from every rank.                    *)
THEOREM NothingAfterFailure == FreeCache /\ Spec => []FailureStops
<1>1. IInv => FailureStops
  BY RankFact
  DEF IInv, TypeInv, Async, CallInv, AsyncCalls, SyncCalls,
      EngineInv, AsyncEngine, SyncEngine, FailureStops, Asleep
<1> QED
  BY <1>1, Inductive, PTL
=============================================================================
