----------------------------- MODULE BatchFlow ------------------------------
(***************************************************************************)
(* The batch of one PPO step, on its way between the driver                *)
(* (RayPPOTrainer.fit) and the data-parallel ranks.                        *)
(*                                                                         *)
(* The driver pops and repeats the prompts, has them answered, joins the   *)
(* answers with the rest of the batch, moves the rows so that each rank    *)
(* gets as many tokens, and then calls one method of the worker group      *)
(* after the other: each call cuts the batch into chunks, one per rank,    *)
(* and what the ranks return is concatenated and joined as a new column.   *)
(* A rank cuts its rows again, into mini-batches and micro-batches.  A     *)
(* forward pass and an optimizer step are collectives of all ranks.        *)
(*                                                                         *)
(* A sample is the number of a row of the generation batch; a column is    *)
(* the sequence of the samples its entries were computed from.  With       *)
(* Ulysses the ranks of a sequence-parallel group gather their rows and do *)
(* the same on them: such a group is one rank here.                        *)
(***************************************************************************)
EXTENDS BalancedParts, SequencesExt

CONSTANTS DP,           \* data-parallel ranks
          Prompts,      \* train_batch_size
          N,            \* rollout.n
          ValRows,      \* rows of the validation batch
          Lens,         \* tokens of a sample
          MaxTokenLen,  \* *_max_token_len_per_gpu
          Mini,         \* ppo_mini_batch_size, as _build normalises it
          Micro,        \* ppo_micro_batch_size_per_gpu
          InferMicro,   \* log_prob_ and forward_micro_batch_size_per_gpu
          Epochs        \* ppo_epochs

ASSUME BatchAssumption ==
    /\ {DP, Prompts, N, ValRows, MaxTokenLen, Mini, Micro, InferMicro, Epochs}
         \subseteq Nat \ {0}
    /\ Lens \subseteq 1 .. MaxTokenLen
    /\ (Prompts * N) % DP = 0
    /\ Mini % Micro = 0

Rank   == 1 .. DP
Sample == 1 .. Prompts * N

\* Both are rows of a batch repeated with interleave.
PromptOf(s) == ((s - 1) \div N) + 1
GenBatch    == [i \in Sample |-> i]
Repeated    == [i \in Sample |-> PromptOf(i)]

VARIABLES
  opt,       \* use_dynamic_bsz, balance_batch, adv_estimator = REMAX
  len,       \* attention_mask.sum of each sample
  phase,     \* the call the driver is in, or what it does next
  col,       \* the columns of batch, empty before they are joined
  reward,    \* reward_tensor, or what compute_reward_async was called with
  val,       \* test_output_gen_batch
  pc,        \* what a rank does next
  chunk,     \* the rows a rank was sent
  turn,      \* mini-batches a rank has begun
  agreed,    \* the number of micro-batches the ranks agreed on
  micro,     \* its micro-batches, as lists of indices into the mini-batch
  next,      \* the first of them it has not run
  out,       \* what it has computed, in the order of the micro-batches
  grad,      \* the rows of its gradient, since zero_grad
  seen       \* backward passes over a sample, in the current call

rankVars == <<pc, chunk, turn, agreed, micro, next, out, grad, seen>>
vars == <<opt, len, phase, col, reward, val, rankVars>>

Updates  == {"update_critic", "update_actor"}
Computes == {"compute_rm_score", "compute_log_prob", "compute_ref_log_prob",
             "compute_values"}
Rollouts == {"validate", "generate", "baseline"}
Calls    == Rollouts \cup Computes \cup Updates

Phases ==
  IF opt.remax
  THEN <<"validate", "generate", "baseline", "join", "balance", "compute_rm_score",
         "reward", "compute_log_prob", "compute_ref_log_prob", "compute_values",
         "advantage", "update_critic", "update_actor", "end">>
  ELSE <<"validate", "generate", "join", "balance", "compute_rm_score",
         "reward", "compute_log_prob", "compute_ref_log_prob", "compute_values",
         "advantage", "update_critic", "update_actor", "end">>

After(p) == Phases[1 + CHOOSE i \in DOMAIN Phases : Phases[i] = p]

Columns == Computes \cup {"uid", "responses", "scores", "advantages"}

TypeOK ==
  /\ opt \in [dynamic : BOOLEAN, balance : BOOLEAN, remax : BOOLEAN]
  /\ len \in [Sample -> Lens]
  /\ phase \in ToSet(Phases) \cup {"raised"}
  /\ DOMAIN col = Columns
  /\ pc \in [Rank -> {"idle", "start", "reduce", "rearrange", "forward", "step",
                      "restore", "done", "raised"}]
  /\ turn \in [Rank -> Nat] /\ next \in [Rank -> Nat] /\ agreed \in Nat

Init ==
  /\ opt \in [dynamic : BOOLEAN, balance : BOOLEAN, remax : BOOLEAN]
  /\ len \in [Sample -> Lens]
  /\ phase = "validate"
  /\ col = [c \in Columns |-> <<>>] /\ reward = <<>> /\ val = <<>>
  /\ pc = [r \in Rank |-> "idle"]
  /\ chunk = [r \in Rank |-> <<>>] /\ turn = [r \in Rank |-> 0]
  /\ agreed = 0
  /\ micro = [r \in Rank |-> <<>>] /\ next = [r \in Rank |-> 1]
  /\ out = [r \in Rank |-> <<>>] /\ grad = [r \in Rank |-> <<>>]
  /\ seen = [s \in Sample |-> 0]

-----------------------------------------------------------------------------
(* DataProto.                                                              *)

CeilDiv(a, b) == (a + b - 1) \div b

(* Mutant: a last part that is not full is dropped. *)
M_Split(data, size) ==
  [i \in 1 .. Len(data) \div size |-> SubSeq(data, (i - 1) * size + 1, i * size)]

\* data[i : i + size] for every i that is a multiple of size
Split(data, size) ==
  [i \in 1 .. CeilDiv(Len(data), size) |->
     SubSeq(data, (i - 1) * size + 1, IF i * size < Len(data) THEN i * size
                                                              ELSE Len(data))]

Chunk(data, r) == Split(data, Len(data) \div DP)[r]

PadSize(n) == IF n % DP = 0 THEN 0 ELSE DP - (n % DP)

\* pad_dataproto_to_divisor: the first rows again, as often as it takes
Padded(data) ==
  data \o [i \in 1 .. PadSize(Len(data)) |-> data[((i - 1) % Len(data)) + 1]]

Unpadded(data, n) == SubSeq(data, 1, Len(data) - PadSize(n))

ValBatch == [i \in 1 .. ValRows |-> i]

Ascending(S) ==
  [i \in 1 .. Cardinality(S) |-> CHOOSE x \in S : Cardinality({y \in S : y < x}) = i - 1]

\* reorder: every column follows
Reordered(order) ==
  [c \in Columns |-> IF col[c] = <<>> THEN <<>>
                     ELSE [i \in DOMAIN order |-> col[c][order[i]]]]

-----------------------------------------------------------------------------
(* The driver.                                                             *)

\* The argument of a call.
Sent == CASE phase = "validate"                -> Padded(ValBatch)
          [] phase \in {"generate", "baseline"} -> GenBatch
          [] OTHER                              -> col["responses"]

\* chunk asserts that the rows divide evenly: "only support equal chunk".
Dispatch ==
  /\ phase \in Calls
  /\ pc = [r \in Rank |-> "idle"]
  /\ IF Len(Sent) % DP = 0
     THEN /\ pc' = [r \in Rank |-> "start"]
          /\ chunk' = [r \in Rank |-> Chunk(Sent, r)]
          /\ UNCHANGED phase
     ELSE phase' = "raised" /\ UNCHANGED <<pc, chunk>>
  /\ turn' = [r \in Rank |-> 0]
  /\ out' = [r \in Rank |-> <<>>]
  /\ seen' = [s \in Sample |-> 0]
  /\ UNCHANGED <<opt, len, col, reward, val, agreed, micro, next, grad>>

Result == FlattenSeq(out)

Finished == pc = [r \in Rank |-> "done"] /\ pc' = [r \in Rank |-> "idle"]

CollectValidation ==
  /\ phase = "validate" /\ Finished
  /\ val' = Unpadded(Result, ValRows)
  /\ phase' = After(phase)
  /\ UNCHANGED <<opt, len, col, reward, chunk, turn, agreed, micro, next, out, grad, seen>>

\* gen_batch_output waits beside batch until both have as many rows.
CollectAnswers ==
  /\ phase = "generate" /\ Finished
  /\ col' = [col EXCEPT !["responses"] = Result]
  /\ phase' = After(phase)
  /\ UNCHANGED <<opt, len, reward, val, chunk, turn, agreed, micro, next, out, grad, seen>>

\* The greedy answers are joined to the batch as it came from the dataloader.
CollectBaseline ==
  /\ phase = "baseline" /\ Finished
  /\ phase' = IF Len(Result) = Prompts THEN After(phase) ELSE "raised"
  /\ UNCHANGED <<opt, len, col, reward, val, chunk, turn, agreed, micro, next, out, grad, seen>>

\* union: the same number of rows, or an AssertionError
CollectColumn ==
  /\ phase \in Computes /\ Finished
  /\ LET fits == Len(Result) = Len(col["responses"])
     IN /\ col' = IF fits THEN [col EXCEPT ![phase] = Result] ELSE col
        /\ phase' = IF fits THEN After(phase) ELSE "raised"
  /\ UNCHANGED <<opt, len, reward, val, chunk, turn, agreed, micro, next, out, grad, seen>>

CollectMetrics ==
  /\ phase \in Updates /\ Finished
  /\ phase' = After(phase)
  /\ UNCHANGED <<opt, len, col, reward, val, chunk, turn, agreed, micro, next, out, grad, seen>>

\* A uid for every prompt; batch.repeat, and union with gen_batch_output.
Join ==
  /\ phase = "join"
  /\ col' = [col EXCEPT !["uid"] = Repeated]
  /\ phase' = IF Len(Repeated) = Len(col["responses"]) THEN After(phase) ELSE "raised"
  /\ UNCHANGED <<opt, len, reward, val, rankVars>>

\* global_idx: the partitions behind one another, each in ascending order
Order(parts) ==
  LET size == Cardinality(Sample) \div DP
  IN [i \in Sample |-> Ascending(parts[((i - 1) \div size) + 1])[((i - 1) % size) + 1]]

\* _balance_batch
Balance ==
  /\ phase = "balance"
  /\ IF opt.balance
     THEN \E parts \in Partitions([i \in Sample |-> len[col["responses"][i]]], DP, TRUE) :
            \E order \in {Order(parts)} : col' = Reordered(order)
     ELSE UNCHANGED col
  /\ phase' = After(phase)
  /\ UNCHANGED <<opt, len, reward, val, rankVars>>

\* compute_reward, or compute_reward_async.remote with a copy of the batch
Reward ==
  /\ phase = "reward"
  /\ reward' = col["responses"]
  /\ phase' = After(phase)
  /\ UNCHANGED <<opt, len, col, val, rankVars>>

\* The advantage of a row comes from the scores of all rows with its uid.
Advantage ==
  /\ phase = "advantage"
  /\ col' = [col EXCEPT
       !["scores"] = reward,
       !["advantages"] = [i \in DOMAIN reward |->
          {reward[j] : j \in {h \in DOMAIN reward : col["uid"][h] = col["uid"][i]}}]]
  /\ phase' = After(phase)
  /\ UNCHANGED <<opt, len, reward, val, rankVars>>

Driver == \/ Dispatch \/ CollectValidation \/ CollectAnswers \/ CollectBaseline
          \/ CollectColumn \/ CollectMetrics
          \/ Join \/ Balance \/ Reward \/ Advantage
-----------------------------------------------------------------------------
(* The ranks.                                                              *)

\* update_policy and update_critic run through the mini-batches Epochs times;
\* the other methods take all rows at once.
MiniBatches(r) == Split(chunk[r], IF phase \in Updates THEN Mini ELSE Len(chunk[r]))
Rounds(r)      == Len(MiniBatches(r)) * (IF phase \in Updates THEN Epochs ELSE 1)
MiniBatchOf(r, t) == MiniBatches(r)[((t - 1) % Len(MiniBatches(r))) + 1]
MiniBatch(r)      == MiniBatchOf(r, turn[r])

MicroSize == IF phase \in Updates THEN Micro ELSE InferMicro

SeqLens(r) == [i \in DOMAIN MiniBatch(r) |-> len[MiniBatch(r)[i]]]

(* Mutant: the quotient is rounded down. *)
M_Count(r) ==
  Max({1, Tokens(SeqLens(r), DOMAIN SeqLens(r)) \div MaxTokenLen})

\* num_micro_batches, before the ranks have agreed
Count(r) ==
  Min({Len(SeqLens(r)), CeilDiv(Tokens(SeqLens(r), DOMAIN SeqLens(r)), MaxTokenLen)})

Squares(lens, part) == Tokens([i \in DOMAIN lens |-> lens[i] * lens[i]], part)

\* The largest attention cost first.
Costlier(lens, p, q) ==
  \/ Squares(lens, p) > Squares(lens, q)
  \/ Squares(lens, p) = Squares(lens, q) /\ Min(p) > Min(q)

InOrder(lens, parts) ==
  LET place == [i \in DOMAIN parts |->
                  1 + Cardinality({j \in DOMAIN parts : Costlier(lens, parts[j], parts[i])})]
  IN [k \in DOMAIN parts |->
        Ascending(parts[CHOOSE i \in DOMAIN parts : place[i] = k])]

Generate(r) ==
  /\ phase \in Rollouts /\ pc[r] = "start"
  /\ out' = [out EXCEPT ![r] = chunk[r]]
  /\ pc' = [pc EXCEPT ![r] = "done"]
  /\ UNCHANGED <<opt, len, phase, col, reward, val, chunk, turn, agreed, micro, next, grad, seen>>

(* Mutant: zero_grad is left out. *)
M_Begin(r) ==
  /\ phase \notin Rollouts /\ pc[r] = "start"
  /\ turn' = [turn EXCEPT ![r] = @ + 1]
  /\ next' = [next EXCEPT ![r] = 1]
  /\ pc' = [pc EXCEPT ![r] = IF opt.dynamic THEN "reduce" ELSE "forward"]
  /\ micro' = [micro EXCEPT ![r] =
                 IF opt.dynamic THEN <<>>
                 ELSE Split([i \in DOMAIN MiniBatchOf(r, turn[r] + 1) |-> i], MicroSize)]
  /\ UNCHANGED <<opt, len, phase, col, reward, val, chunk, agreed, out, grad, seen>>

\* The next mini-batch; a dynamic one waits until the ranks have agreed.
Begin(r) ==
  /\ phase \notin Rollouts /\ pc[r] = "start"
  /\ turn' = [turn EXCEPT ![r] = @ + 1]
  /\ next' = [next EXCEPT ![r] = 1]
  /\ grad' = [grad EXCEPT ![r] = <<>>]
  /\ pc' = [pc EXCEPT ![r] = IF opt.dynamic THEN "reduce" ELSE "forward"]
  /\ micro' = [micro EXCEPT ![r] =
                 IF opt.dynamic THEN <<>>
                 ELSE Split([i \in DOMAIN MiniBatchOf(r, turn[r] + 1) |-> i], MicroSize)]
  /\ UNCHANGED <<opt, len, phase, col, reward, val, chunk, agreed, out, seen>>

AllReduce ==
  /\ pc = [r \in Rank |-> "reduce"]
  /\ agreed' = Max({Count(r) : r \in Rank})
  /\ pc' = [r \in Rank |-> "rearrange"]
  /\ UNCHANGED <<opt, len, phase, col, reward, val, chunk, turn, micro, next, out, grad, seen>>

(* Mutant: same_micro_num_in_dp is off. *)
M_Rearrange(r) ==
  /\ pc[r] = "rearrange"
  /\ \E parts \in Partitions(SeqLens(r), Count(r), FALSE) :
       micro' = [micro EXCEPT ![r] = InOrder(SeqLens(r), parts)]
  /\ pc' = [pc EXCEPT ![r] = "forward"]
  /\ UNCHANGED <<opt, len, phase, col, reward, val, chunk, turn, agreed, next, out, grad, seen>>

\* The rest of rearrange_micro_batches, with its assertion.
Rearrange(r) ==
  /\ pc[r] = "rearrange"
  /\ LET lens == SeqLens(r)
     IN IF agreed > Len(lens)
        THEN pc' = [pc EXCEPT ![r] = "raised"] /\ UNCHANGED micro
        ELSE /\ pc' = [pc EXCEPT ![r] = "forward"]
             /\ \E order \in {InOrder(lens, parts) : parts \in Partitions(lens, agreed, FALSE)} :
                  micro' = [micro EXCEPT ![r] = order]
  /\ UNCHANGED <<opt, len, phase, col, reward, val, chunk, turn, agreed, next, out, grad, seen>>

\* The rows of the micro-batch a rank is about to run.
Rows(r) == [i \in DOMAIN micro[r][next[r]] |-> MiniBatch(r)[micro[r][next[r]][i]]]

\* One micro-batch: forward, and in an update backward, on all ranks.
Forward ==
  /\ pc = [r \in Rank |-> "forward"]
  /\ next' = [r \in Rank |-> next[r] + 1]
  /\ pc' = [r \in Rank |-> IF next[r] < Len(micro[r]) THEN "forward"
                           ELSE IF phase \in Updates THEN "step" ELSE "restore"]
  /\ IF phase \in Updates
     THEN /\ grad' = [r \in Rank |-> grad[r] \o Rows(r)]
          /\ seen' = [s \in Sample |-> seen[s] +
                        Cardinality({r \in Rank : s \in ToSet(Rows(r))})]
          /\ UNCHANGED out
     ELSE /\ out' = [r \in Rank |-> out[r] \o Rows(r)]
          /\ UNCHANGED <<grad, seen>>
  /\ UNCHANGED <<opt, len, phase, col, reward, val, chunk, turn, agreed, micro>>

(* Mutant: the order of the micro-batches is applied again, not undone. *)
M_Restored(idx, data) == [i \in DOMAIN data |-> data[idx[i]]]

\* restore_dynamic_batch: idx[i] is where the i-th result belongs.
Restored(idx, data) ==
  [j \in DOMAIN data |-> data[CHOOSE i \in DOMAIN idx : idx[i] = j]]

Restore(r) ==
  /\ pc[r] = "restore"
  /\ out' = [out EXCEPT ![r] = Restored(FlattenSeq(micro[r]), @)]
  /\ pc' = [pc EXCEPT ![r] = "done"]
  /\ UNCHANGED <<opt, len, phase, col, reward, val, chunk, turn, agreed, micro, next, grad, seen>>

(* Mutant: one mini-batch less. *)
M_Step ==
  /\ pc = [r \in Rank |-> "step"]
  /\ \E finite \in BOOLEAN :
       grad' = IF finite THEN grad ELSE [r \in Rank |-> <<>>]
  /\ pc' = [r \in Rank |-> IF turn[r] + 1 < Rounds(r) THEN "start" ELSE "done"]
  /\ UNCHANGED <<opt, len, phase, col, reward, val, chunk, turn, agreed, micro, next, out, seen>>

\* _optimizer_step: the norm is a collective, so that all ranks step or none.
Step ==
  /\ pc = [r \in Rank |-> "step"]
  /\ \E finite \in BOOLEAN :
       grad' = IF finite THEN grad ELSE [r \in Rank |-> <<>>]
  /\ pc' = [r \in Rank |-> IF turn[r] < Rounds(r) THEN "start" ELSE "done"]
  /\ UNCHANGED <<opt, len, phase, col, reward, val, chunk, turn, agreed, micro, next, out, seen>>

RankStep(r) == Generate(r) \/ Begin(r) \/ Rearrange(r) \/ Restore(r)
Collective  == AllReduce \/ Forward \/ Step

\* The step is over, or an exception has ended fit.
Over ==
  /\ phase \in {"end", "raised"} \/ \E r \in Rank : pc[r] = "raised"
  /\ UNCHANGED vars

Next == Driver \/ Collective \/ Over \/ \E r \in Rank : RankStep(r)

Spec == Init /\ [][Next]_vars
-----------------------------------------------------------------------------
(* Properties.                                                             *)

Joined(c) == col[c] # <<>>

(* However often the rows were moved, by the balancing of the driver, by   *)
(* the chunks of the ranks and by the micro-batches of a rank, every entry *)
(* of every column stands in the row of the sample it was computed from,   *)
(* no sample is lost, and an advantage is taken over exactly the answers   *)
(* to the row's prompt.                                                    *)
RowsTogether ==
  /\ Joined("responses") => ToSet(col["responses"]) = Sample
                            /\ Len(col["responses"]) = Cardinality(Sample)
  /\ \A c \in Computes \cup {"scores"} : Joined(c) => col[c] = col["responses"]
  /\ Joined("uid") => \A i \in Sample : col["uid"][i] = PromptOf(col["responses"][i])
  /\ Joined("advantages") => \A i \in Sample :
       col["advantages"][i] = {s \in Sample : PromptOf(s) = col["uid"][i]}
  /\ phase \notin {"validate", "raised"} => val = ValBatch

(* When the ranks make an optimizer step, the gradient of each is over the *)
(* rows of its current mini-batch, each of them once, however they were    *)
(* dealt out to micro-batches.                                             *)
GradientIsMiniBatch ==
  \A r \in Rank : pc[r] = "step" =>
    /\ ToSet(grad[r]) = ToSet(MiniBatch(r))
    /\ Len(grad[r]) = Len(MiniBatch(r))

(* An update trains on every sample of the batch ppo_epochs times, also on *)
(* those of a last mini-batch that is not full.                            *)
TrainedEvenly ==
  phase \in Updates /\ pc = [r \in Rank |-> "done"] =>
    \A s \in Sample : seen[s] = Epochs

(* A micro-batch has more than max_token_len tokens by less than its       *)
(* longest row.                                                            *)
MicroBatchesFit ==
  \A r \in Rank : pc[r] = "forward" /\ opt.dynamic =>
    \A k \in DOMAIN micro[r] :
      Tokens(SeqLens(r), ToSet(micro[r][k])) < MaxTokenLen + Longest(SeqLens(r))

(* The ranks never disagree on the collective that comes next: none of     *)
(* them has run out of micro-batches, or of mini-batches, while another    *)
(* waits for it in a forward pass.                                         *)
Round(r) == <<turn[r], next[r], Len(micro[r])>>
Together == {"forward", "step", "restore"}

Lockstep ==
  \A q, r \in Rank : pc[q] \in Together /\ pc[r] \in Together =>
    Round(q) = Round(r)

(* No assertion of the step fails, neither that a union joins batches of   *)
(* one size (protocol.py:74) nor that there are rows for as many           *)
(* micro-batches as were agreed on, but for ReMax with several answers to  *)
(* a prompt.                                                               *)
AssertionsHold ==
  /\ \A r \in Rank : pc[r] # "raised"
  /\ phase = "raised" => opt.remax /\ N > 1

(* "Two tensor dict must have identical batch size" (protocol.py:74): no   *)
(* union of a step fails.                                                  *)
UnionsFit == phase # "raised"
=============================================================================
