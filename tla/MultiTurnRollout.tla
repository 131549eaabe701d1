--------------------------- MODULE MultiTurnRollout --------------------------
(***************************************************************************)
(* Multi-turn rollout with SGLang (sglang_rollout.py, schemas.py).         *)
(*                                                                         *)
(* The first rank of a tensor-parallel group runs one coroutine per        *)
(* request, _async_rollout_a_request, while the others wait at a barrier   *)
(* for what it will broadcast.  A coroutine is a state machine over the    *)
(* request: it creates the tools, has the model answer, executes the tools *)
(* the answer calls or asks the interaction for a user's words, and goes   *)
(* round until one of the ends of its loop.  Then it releases the tools    *)
(* and finalizes the request: the token sequence that has grown by deltas  *)
(* is cut into a prompt and a response.                                    *)
(*                                                                         *)
(* A token is who has written it: the data set (system and user turns),    *)
(* the chat template's generation prompt, the model, the interaction, or a *)
(* tool.  Engine, tools, interactions and chat template are external: the  *)
(* model answers within max_new_tokens, the template closes an answer with *)
(* EndLen tokens, and any awaited call may raise.                          *)
(***************************************************************************)
EXTENDS Integers, Sequences, FiniteSets

CONSTANTS Request,
          Tool,               \* the tools of the rollout
          TP,                 \* tensor_model_parallel_size
          PromptLens,         \* tokens before the generation prompt
          GenLen, EndLen,     \* generation prompt, end of a turn
          PromptLength, ResponseLength, MaxModelLen,
          MaxAssistantTurns, MaxUserTurns,
          AnswerLens,         \* tokens of an answer that ends by itself
          ToldLens,           \* tokens of the tool responses, of a user's words
          MaxFaults           \* bound: awaited calls that raise

ASSUME RolloutAssumption ==
    /\ {TP, GenLen, EndLen, PromptLength, ResponseLength, MaxModelLen,
        MaxAssistantTurns} \subseteq Nat \ {0}
    /\ PromptLens \cup ToldLens \subseteq Nat \ {0} /\ AnswerLens \subseteq Nat
    /\ MaxUserTurns \in Nat /\ MaxFaults \in Nat
    /\ MaxModelLen >= PromptLength + ResponseLength   \* hence at least 2
    /\ "unknown" \notin Tool

Rank == 0 .. TP - 1

VARIABLES
  kit,        \* the tools of a request, and whether it has an interaction
  checked,    \* tokenization_sanity_check_mode is not disable
  pc,         \* whether a coroutine is in its loop, has left it, has ended
  state,      \* _req.state
  ids,        \* _req.input_ids, as the writer of each token
  mask,       \* _req.loss_mask
  prompt,     \* length of _req.prompt_ids
  calls,      \* the names in the tool calls of the last answer
  turns,      \* current_turns
  user_turns,
  reason,     \* finish_reason_type
  inst,       \* the instance a tool keeps for the request
  response,   \* _req.response_ids and _req.response_loss_mask
  error,      \* what made a coroutine raise
  rank        \* where a rank is in _req_level_generate_sequences

config == <<kit, checked, prompt>>
vars == <<config, pc, state, ids, mask, calls, turns, user_turns, reason, inst,
          response, error, rank>>

Writer == {"data", "gen", "model", "user", "tool"}

TypeOK ==
  /\ kit \in [Request -> [tools : SUBSET Tool, interaction : BOOLEAN]]
  /\ checked \in BOOLEAN
  /\ pc \in [Request -> {"loop", "left", "returned", "raised"}]
  /\ state \in [Request -> {"pending", "running", "tool_calling", "interacting",
                            "completed"}]
  /\ ids \in [Request -> Seq(Writer)] /\ mask \in [Request -> Seq(BOOLEAN)]
  /\ prompt \in [Request -> Nat]
  /\ calls \in [Request -> SUBSET (Tool \cup {"unknown"})]
  /\ turns \in [Request -> Nat] /\ user_turns \in [Request -> Nat]
  /\ reason \in [Request -> {"none", "stop", "length", "tool_call", "claimed"}]
  /\ inst \in [Request -> [Tool -> {"none", "live", "released"}]]
  /\ response \in [Request -> [ids : Seq(Writer), mask : Seq(BOOLEAN)]]
  /\ error \in [Request -> {"none", "external", "unknown tool", "diffs", "reason"}]
  /\ rank \in [Rank -> {"start", "barrier", "returned", "raised"}]

Tokens(n, w) == [i \in 1 .. n |-> w]

\* initialize_request; the data set and the chat template put the
\* generation prompt behind the prompt
Init ==
  /\ kit \in [Request -> [tools : SUBSET Tool, interaction : BOOLEAN]]
  /\ checked \in BOOLEAN
  /\ \E lens \in [Request -> PromptLens] :
       /\ prompt = [q \in Request |-> lens[q] + GenLen]
       /\ ids = [q \in Request |-> Tokens(lens[q], "data") \o Tokens(GenLen, "gen")]
       /\ mask = [q \in Request |-> Tokens(lens[q] + GenLen, FALSE)]
  /\ pc = [q \in Request |-> "loop"]
  /\ state = [q \in Request |-> "pending"]
  /\ calls = [q \in Request |-> {}]
  /\ turns = [q \in Request |-> 0] /\ user_turns = [q \in Request |-> 0]
  /\ reason = [q \in Request |-> "none"]
  /\ inst = [q \in Request |-> [t \in Tool |-> "none"]]
  /\ response = [q \in Request |-> [ids |-> <<>>, mask |-> <<>>]]
  /\ error = [q \in Request |-> "none"]
  /\ rank = [r \in Rank |-> "start"]

-----------------------------------------------------------------------------
(* The token sequence.                                                     *)

EndsWithPrompt(s) ==
  Len(s) >= GenLen /\ SubSeq(s, Len(s) - GenLen + 1, Len(s)) = Tokens(GenLen, "gen")

(* Mutant: the generation prompt is appended without a look. *)
M_Prompted(s) == s \o Tokens(GenLen, "gen")

\* get_generation_prompt_ids
Prompted(s) == IF EndsWithPrompt(s) THEN s ELSE s \o Tokens(GenLen, "gen")

\* _update_input_ids: only the tokens of an answer are trained on
Grow(q, s) ==
  /\ ids' = [ids EXCEPT ![q] = s]
  /\ mask' = [mask EXCEPT ![q] = @ \o [i \in 1 .. Len(s) - Len(ids[q]) |->
                                          s[Len(ids[q]) + i] = "model"]]

Smaller(a, b) == IF a < b THEN a ELSE b

MaxNewTokens(s) == Smaller(ResponseLength, MaxModelLen - Len(s) - 1)

-----------------------------------------------------------------------------
(* One turn of a request.                                                  *)

Awaiting == rank[0] = "start"

(* Mutant: the turns of the user count as well. *)
M_Spent(q) == turns[q] + user_turns[q] >= MaxAssistantTurns

Spent(q) == turns[q] >= MaxAssistantTurns

In(q, s) == Awaiting /\ pc[q] = "loop" /\ state[q] = s /\ ~Spent(q)

GoTo(q, s) == state' = [state EXCEPT ![q] = s] /\ UNCHANGED <<pc, reason>>

Break(q, why) ==
  /\ pc' = [pc EXCEPT ![q] = "left"]
  /\ reason' = [reason EXCEPT ![q] = why]

\* _handle_pending_state
Create(q) ==
  /\ In(q, "pending")
  /\ inst' = [inst EXCEPT ![q] = [t \in Tool |-> IF t \in kit[q].tools THEN "live" ELSE @[t]]]
  /\ GoTo(q, "running")
  /\ UNCHANGED <<config, ids, mask, calls, turns, user_turns, response, error, rank>>

\* The prompt of the next answer and the token it needs do not fit.
OutOfRoom(q) ==
  /\ In(q, "running")
  /\ Len(Prompted(ids[q])) + 1 >= MaxModelLen
  /\ Grow(q, Prompted(ids[q]))
  /\ Break(q, "length")
  /\ UNCHANGED <<config, state, calls, turns, user_turns, inst, response, error, rank>>

\* The length check and _handle_engine_call each ask for the prompt; an
\* answer of n tokens is closed by the chat template.
Answer(q, n) ==
  LET asked == Prompted(Prompted(ids[q]))
  IN /\ In(q, "running")
     /\ Len(Prompted(ids[q])) + 1 < MaxModelLen
     /\ n <= MaxNewTokens(asked)
     /\ Grow(q, asked \o Tokens(n + EndLen, "model"))
     /\ turns' = [turns EXCEPT ![q] = @ + 1]
     /\ UNCHANGED <<config, user_turns, inst, response, error, rank>>

\* finish reason "length": the engine has used all of max_new_tokens
AnswerCut(q) ==
  /\ Answer(q, MaxNewTokens(Prompted(Prompted(ids[q]))))
  /\ Break(q, "length")
  /\ UNCHANGED <<state, calls>>

\* A tool call was found; a name that is not the request's is "unknown".
AnswerWithCalls(q, n, names) ==
  /\ Answer(q, n)
  /\ calls' = [calls EXCEPT ![q] = names]
  /\ state' = [state EXCEPT ![q] = "tool_calling"]
  /\ reason' = [reason EXCEPT ![q] = "tool_call"]
  /\ UNCHANGED pc

\* None of the calls can be parsed.
AnswerWithBadCalls(q, n) ==
  /\ Answer(q, n)
  /\ state' = [state EXCEPT ![q] = "completed"]
  /\ Break(q, "stop")
  /\ UNCHANGED calls

\* The condition is read after current_turns has been counted.
Interacts(q) ==
  /\ kit[q].interaction
  /\ user_turns[q] < MaxUserTurns
  /\ turns[q] + 1 < MaxAssistantTurns

\* No tool call is found in the answer.  The engine's own reason is kept:
\* "stop", or "claimed" when it says "tool_calls" of such an answer.
PlainAnswer(q, n, why) ==
  /\ Answer(q, n)
  /\ IF Interacts(q)
     THEN /\ state' = [state EXCEPT ![q] = "interacting"]
          /\ reason' = [reason EXCEPT ![q] = why]
          /\ UNCHANGED pc
     ELSE Break(q, why) /\ UNCHANGED state
  /\ UNCHANGED calls

\* The test of the length that follows, len(_req.input_ids) >= max_model_len,
\* counts the rows of a tensor of one row and never ends the loop: what was
\* said may outgrow the model's context.
Told(q, n, who) ==
  /\ Grow(q, ids[q] \o Tokens(n, who))
  /\ GoTo(q, "running")

Raise(q, why) ==
  /\ pc' = [pc EXCEPT ![q] = "raised"]
  /\ error' = [error EXCEPT ![q] = why]

\* asyncio.gather of the tools' execute; a name is looked up before any runs
Execute(q, n) ==
  /\ In(q, "tool_calling")
  /\ IF calls[q] \subseteq kit[q].tools
     THEN Told(q, n, "tool") /\ UNCHANGED error
     ELSE Raise(q, "unknown tool") /\ UNCHANGED <<ids, mask, state, reason>>
  /\ UNCHANGED <<config, calls, turns, user_turns, inst, response, rank>>

UserTurn(q, n) ==
  /\ In(q, "interacting")
  /\ Told(q, n, "user")
  /\ user_turns' = [user_turns EXCEPT ![q] = @ + 1]
  /\ UNCHANGED <<config, calls, turns, inst, response, error, rank>>

\* should_terminate_sequence
UserLeaves(q) ==
  /\ In(q, "interacting")
  /\ user_turns' = [user_turns EXCEPT ![q] = @ + 1]
  /\ state' = [state EXCEPT ![q] = "completed"]
  /\ Break(q, "stop")
  /\ UNCHANGED <<config, ids, mask, calls, turns, inst, response, error, rank>>

-----------------------------------------------------------------------------
(* The end of a request.                                                   *)

\* A break, or the condition of the loop.
Left(q) == pc[q] = "left" \/ (pc[q] = "loop" /\ Spent(q))

(* Mutant: the reason of the last answer is kept. *)
M_FinishReason(q) == reason[q]

FinishReason(q) == IF Spent(q) THEN "stop" ELSE reason[q]

(* Mutant: only the tools of the last calls are released. *)
M_Released(q) == [t \in Tool |-> IF t \in calls[q] THEN "released" ELSE inst[q][t]]

Released(q) == [t \in Tool |-> IF t \in kit[q].tools THEN "released" ELSE inst[q][t]]

\* Without the generation prompt of an answer that was never given.
Stripped(s) == IF EndsWithPrompt(s) THEN SubSeq(s, 1, Len(s) - GenLen) ELSE s

(* Mutant: only the response is cut. *)
M_Truncated(s) == s

Truncated(s) ==
  SubSeq(s, 1, Smaller(Len(s), Smaller(MaxModelLen, PromptLength + ResponseLength)))

\* truncate_output_ids: the response of a sequence
ResponseOf(q, s) ==
  SubSeq(s, prompt[q] + 1, Smaller(Len(s), prompt[q] + ResponseLength))

FinalMask(q) == Truncated(SubSeq(mask[q], 1, Len(Stripped(ids[q]))))

\* The tools' rewards and releases, and finalize.
Finalize(q) ==
  /\ Awaiting /\ Left(q)
  /\ inst' = [inst EXCEPT ![q] = Released(q)]
  /\ state' = [state EXCEPT ![q] = "completed"]
  /\ reason' = [reason EXCEPT ![q] = FinishReason(q)]
  /\ IF checked
     THEN Raise(q, "diffs") /\ UNCHANGED <<ids, mask, response>>
     ELSE IF FinishReason(q) \notin {"stop", "length"}
     THEN Raise(q, "reason") /\ UNCHANGED <<ids, mask, response>>
     ELSE /\ ids' = [ids EXCEPT ![q] = Truncated(Stripped(@))]
          /\ mask' = [mask EXCEPT ![q] = FinalMask(q)]
          /\ response' = [response EXCEPT ![q] =
               [ids |-> ResponseOf(q, Truncated(Stripped(ids[q]))),
                mask |-> ResponseOf(q, FinalMask(q))]]
          /\ pc' = [pc EXCEPT ![q] = "returned"]
          /\ UNCHANGED error
  /\ UNCHANGED <<config, calls, turns, user_turns, rank>>

Faults == Cardinality({q \in Request : error[q] = "external"})

\* An awaited call raises: some of the tools may have been created, or
\* released, when it does.
Fault(q) ==
  /\ Awaiting /\ pc[q] \in {"loop", "left"} /\ Faults < MaxFaults
  /\ Raise(q, "external")
  /\ \E some \in SUBSET kit[q].tools :
       inst' = [inst EXCEPT ![q] =
         [t \in Tool |-> CASE t \in some /\ state[q] = "pending" -> "live"
                           [] t \in some /\ Left(q) -> "released"
                           [] OTHER -> @[t]]]
  /\ UNCHANGED <<config, state, ids, mask, calls, turns, user_turns, reason,
                 response, rank>>

-----------------------------------------------------------------------------
(* The ranks.                                                              *)

\* A rank that is not the first of its group has no requests.
Follow(r) ==
  /\ r # 0 /\ rank[r] = "start"
  /\ rank' = [rank EXCEPT ![r] = "barrier"]
  /\ UNCHANGED <<config, pc, state, ids, mask, calls, turns, user_turns, reason,
                 inst, response, error>>

(* Mutant: the first rank has the list and does not wait. *)
M_Gather ==
  /\ rank[0] = "start"
  /\ \/ /\ \A q \in Request : pc[q] = "returned"
        /\ rank' = [rank EXCEPT ![0] = "returned"]
     \/ /\ \E q \in Request : pc[q] = "raised"
        /\ rank' = [rank EXCEPT ![0] = "raised"]
  /\ UNCHANGED <<config, pc, state, ids, mask, calls, turns, user_turns, reason,
                 inst, response, error>>

\* asyncio.gather without return_exceptions: the first exception ends it.
Gather ==
  /\ rank[0] = "start"
  /\ \/ /\ \A q \in Request : pc[q] = "returned"
        /\ rank' = [rank EXCEPT ![0] = "barrier"]
     \/ /\ \E q \in Request : pc[q] = "raised"
        /\ rank' = [rank EXCEPT ![0] = "raised"]
  /\ UNCHANGED <<config, pc, state, ids, mask, calls, turns, user_turns, reason,
                 inst, response, error>>

\* What every rank asserts of the requests it was sent.
Accepted(q) ==
  /\ state[q] = "completed"
  /\ Len(ids[q]) = Len(mask[q])
  /\ Len(ids[q]) <= MaxModelLen

\* The barrier, the broadcast, and the batch made of it.
Broadcast ==
  /\ \A r \in Rank : rank[r] = "barrier"
  /\ rank' = [r \in Rank |-> IF \A q \in Request : Accepted(q) THEN "returned"
                                                               ELSE "raised"]
  /\ UNCHANGED <<config, pc, state, ids, mask, calls, turns, user_turns, reason,
                 inst, response, error>>

\* The first rank has its batch or has raised; then the others may wait on.
Over == rank[0] \in {"returned", "raised"} /\ UNCHANGED vars

Turn(q) ==
  \/ Create(q) \/ OutOfRoom(q) \/ AnswerCut(q) \/ UserLeaves(q) \/ Finalize(q)
  \/ \E n \in AnswerLens :
       \/ AnswerWithBadCalls(q, n)
       \/ \E why \in {"stop", "claimed"} : PlainAnswer(q, n, why)
       \/ \E names \in SUBSET (kit[q].tools \cup {"unknown"}) \ {{}} :
            AnswerWithCalls(q, n, names)
  \/ \E n \in ToldLens : Execute(q, n) \/ UserTurn(q, n)

Ranks == Gather \/ Broadcast \/ \E r \in Rank : Follow(r)

Next == Ranks \/ Over \/ \E q \in Request : Turn(q) \/ Fault(q)

Spec == Init /\ [][Next]_vars

\* The event loop runs every coroutine that can run, and engine, tools and
\* interactions answer in the end.
FairSpec == Spec /\ WF_vars(Ranks) /\ \A q \in Request : WF_vars(Turn(q))

-----------------------------------------------------------------------------
(* Properties.                                                             *)

(* finalize knows the finish reason of every way out of the loop, also of  *)
(* an answer with tool calls in the last turn: it refuses only what the    *)
(* engine has claimed without a tool call in the answer.                   *)
FinishReasonsKnown ==
  \A q \in Request : error[q] = "reason" => reason[q] = "claimed"

(* The batch passes the assertions of every rank it is broadcast to: a     *)
(* conversation is completed, its mask has its length, and no tool or user *)
(* has made it longer than the model's context.                            *)
RanksAccept == \A r \in Rank \ {0} : rank[r] # "raised"

(* The tokenization check only warns (rollout.yaml, finalize): switching   *)
(* it on, as by default, makes no request fail.                            *)
SanityCheckOnlyWarns == \A q \in Request : error[q] # "diffs"

(* However a conversation was cut, each of its answers stands behind one   *)
(* generation prompt, and the trained tokens are those of the answers.     *)
AnswersArePrompted ==
  \A q \in Request :
    /\ mask[q] = [i \in DOMAIN ids[q] |-> ids[q][i] = "model"]
    /\ \A i \in 2 .. Len(ids[q]) : ids[q][i] = "model" => ids[q][i - 1] \in {"gen", "model"}
    /\ \A i \in DOMAIN ids[q] : ids[q][i] = "gen" =>
         /\ i > GenLen => SubSeq(ids[q], i - GenLen, i) # Tokens(GenLen + 1, "gen")
         /\ i < Len(ids[q]) => ids[q][i + 1] \in {"gen", "model"}
    /\ response[q].mask = [i \in DOMAIN response[q].ids |-> response[q].ids[i] = "model"]

(* A conversation ends with an answer of the model: the loop never stops   *)
(* on what a tool or a user has said, unless no answer would fit.          *)
EndsWithAnswer ==
  \A q \in Request : Left(q) =>
    ids[q][Len(ids[q])] = "model" \/ Len(ids[q]) + 1 >= MaxModelLen

(* A request that returns has released every tool it has created, and      *)
(* tools are executed only while they keep an instance for it.             *)
ToolsReleased ==
  \A q \in Request : \A t \in kit[q].tools :
    /\ pc[q] = "returned" => inst[q][t] = "released"
    /\ state[q] \in {"running", "tool_calling", "interacting"} /\ pc[q] \in {"loop", "left"}
         => inst[q][t] = "live"

(* Unless a request raises, every rank of the group gets the batch.        *)
RanksReturn ==
  (\A q \in Request : [](pc[q] # "raised"))
    => <>(\A r \in Rank : rank[r] = "returned")
=============================================================================
