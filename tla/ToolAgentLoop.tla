---------------------------- MODULE ToolAgentLoop ---------------------------
(***************************************************************************)
(* One agent loop: a conversation between a model and its tools.           *)
(*                                                                         *)
(* ToolAgentLoop.run asks the model for an answer, runs the tool calls it  *)
(* finds there concurrently (asyncio.gather of _call_tool), appends their  *)
(* responses to the prompt and asks again, until one of its six exits.     *)
(* What it returns is cut out of the prompt by the length of the mask that *)
(* has grown beside it.  SingleTurnAgentLoop asks once.                    *)
(*                                                                         *)
(* A token is only where it comes from: the prompt it was given, an answer *)
(* the model has made, or what a tool has told.  The model and the tools   *)
(* are external: an answer has at least one token (the end of sequence     *)
(* counts) and at most what max_tokens leaves, and a tool may raise.       *)
(***************************************************************************)
EXTENDS Integers, Sequences, FiniteSets

CONSTANTS Agents,            \* of "tool_agent", "single_turn_agent"
          PromptLength,      \* rollout.prompt_length: the longest prompt
          ResponseLength,    \* rollout.response_length
          MaxModelLen,       \* rollout.max_model_len
          Limits,            \* pairs of max_assistant_turns and
                             \* max_user_turns; 0 is null: no limit
          MaxParallelCalls,
          MaxCalls,          \* bound: tool calls of one answer
          MaxTold            \* bound: tokens of the tool responses of a turn

ASSUME LoopAssumption ==
    /\ Agents \subseteq {"tool_agent", "single_turn_agent"}
    /\ Limits \subseteq Nat \X Nat
    /\ {PromptLength, ResponseLength, MaxModelLen, MaxParallelCalls,
        MaxTold} \subseteq Nat \ {0}
    /\ MaxCalls \in Nat

Token == {"given", "made", "told"}
Call == 1 .. MaxParallelCalls

VARIABLES
  agent, limits,    \* the loop's class, and its class attributes
  pc,               \* where run is
  given,            \* length of the conversation's first prompt
  prompt_ids,
  response_mask,
  user_turns,
  assistant_turns,
  call,             \* the _call_tool coroutines of the turn
  output            \* AgentLoopOutput, or nothing yet

turnVars == <<user_turns, assistant_turns>>
config == <<agent, limits, given>>
vars == <<pc, config, prompt_ids, response_mask, turnVars, call, output>>

CallState == {"none", "new", "live", "executed", "failed", "told", "error", "threw"}

Nothing == [prompt_ids |-> <<>>, response_ids |-> <<>>, response_mask |-> <<>>,
            num_turns |-> 0]

MaxAssistantTurns == limits[1]
MaxUserTurns == limits[2]

TypeOK ==
  /\ agent \in Agents /\ limits \in Limits
  /\ pc \in {"ask", "asking", "answered", "calling", "leave", "done", "raised"}
  /\ given \in 1 .. PromptLength
  /\ prompt_ids \in Seq(Token)
  /\ response_mask \in Seq({0, 1})
  /\ user_turns \in Nat /\ assistant_turns \in Nat
  /\ call \in [Call -> CallState]
  /\ output \in [prompt_ids : Seq(Token), response_ids : Seq(Token),
                 response_mask : Seq({0, 1}), num_turns : Nat]

Block(n, x) == [i \in 1 .. n |-> x]

Init ==
  /\ agent \in Agents /\ limits \in Limits
  /\ pc = "ask"
  /\ given \in 1 .. PromptLength
  /\ prompt_ids = Block(given, "given")
  /\ response_mask = <<>>
  /\ user_turns = 0 /\ assistant_turns = 0
  /\ call = [c \in Call |-> "none"]
  /\ output = Nothing

-----------------------------------------------------------------------------
(* The loop of run.                                                        *)

MaxTokens == MaxModelLen - Len(prompt_ids)

Ask == /\ pc = "ask"
       /\ pc' = "asking"
       /\ UNCHANGED <<config, prompt_ids, response_mask, turnVars, call, output>>

(* The exits after an answer; max_user_turns is looked at here as well. *)
LastAnswer(mask, turns) ==
  \/ agent = "single_turn_agent"
  \/ Len(mask) >= ResponseLength
  \/ MaxAssistantTurns > 0 /\ turns >= MaxAssistantTurns
  \/ MaxUserTurns > 0 /\ user_turns >= MaxUserTurns

Answer(n) ==
  /\ pc = "asking" /\ n \in 1 .. MaxTokens
  /\ prompt_ids' = prompt_ids \o Block(n, "made")
  /\ response_mask' = response_mask \o Block(n, 1)
  /\ assistant_turns' = assistant_turns + 1
  /\ pc' = IF LastAnswer(response_mask', assistant_turns')
           THEN "leave" ELSE "answered"
  /\ UNCHANGED <<config, user_turns, call, output>>

(* The server cannot sample a single token, or fails in any other way. *)
AskFails == /\ pc = "asking"
            /\ pc' = "raised"
            /\ UNCHANGED <<config, prompt_ids, response_mask, turnVars, call, output>>

(* extract_tool_calls finds k well-formed calls, and the first             *)
(* max_parallel_calls of them become coroutines.                           *)
NoCalls == /\ pc = "answered"
           /\ pc' = "leave"
           /\ UNCHANGED <<config, prompt_ids, response_mask, turnVars, call, output>>

StartCalls(k) ==
  /\ pc = "answered" /\ k > 0
  /\ pc' = "calling"
  /\ call' = [c \in Call |-> IF c <= k THEN "new" ELSE "none"]
  /\ UNCHANGED <<config, prompt_ids, response_mask, turnVars, output>>

Finished(c) == call[c] \in {"none", "told", "error"}

(* Mutant: only a turn in which every call failed is the last. *)
N_CallsFailed ==
  /\ pc = "calling"
  /\ \A c \in Call : call[c] \in {"none", "error"}
  /\ \E c \in Call : call[c] = "error"
  /\ pc' = "leave"
  /\ UNCHANGED <<config, prompt_ids, response_mask, turnVars, call, output>>

(* gather has every response, and one of them is an exception. *)
CallsFailed ==
  /\ pc = "calling"
  /\ \A c \in Call : Finished(c)
  /\ \E c \in Call : call[c] = "error"
  /\ pc' = "leave"
  /\ UNCHANGED <<config, prompt_ids, response_mask, turnVars, call, output>>

(* Mutant: the prompt grows before the room is looked at. *)
M_CallsTold(n) ==
  /\ pc = "calling"
  /\ \A c \in Call : call[c] \in {"none", "told"}
  /\ prompt_ids' = prompt_ids \o Block(n, "told")
  /\ IF Len(response_mask) + n >= ResponseLength
     THEN /\ pc' = "leave"
          /\ UNCHANGED <<response_mask, user_turns>>
     ELSE /\ pc' = "ask"
          /\ response_mask' = response_mask \o Block(n, 0)
          /\ user_turns' = user_turns + 1
  /\ UNCHANGED <<config, assistant_turns, call, output>>

(* Mutant: the mask grows too, and the response is cut later. *)
N_CallsTold(n) ==
  /\ pc = "calling"
  /\ \A c \in Call : call[c] \in {"none", "told"}
  /\ prompt_ids' = prompt_ids \o Block(n, "told")
  /\ response_mask' = response_mask \o Block(n, 0)
  /\ IF Len(response_mask) + n >= ResponseLength
     THEN /\ pc' = "leave"
          /\ UNCHANGED user_turns
     ELSE /\ pc' = "ask"
          /\ user_turns' = user_turns + 1
  /\ UNCHANGED <<config, assistant_turns, call, output>>

(* Mutant: whether the responses fit is not looked at. *)
O_CallsTold(n) ==
  /\ pc = "calling"
  /\ \A c \in Call : call[c] \in {"none", "told"}
  /\ pc' = "ask"
  /\ prompt_ids' = prompt_ids \o Block(n, "told")
  /\ response_mask' = response_mask \o Block(n, 0)
  /\ user_turns' = user_turns + 1
  /\ UNCHANGED <<config, assistant_turns, call, output>>

(* The responses are n tokens: they are appended if the response has room. *)
CallsTold(n) ==
  /\ pc = "calling"
  /\ \A c \in Call : call[c] \in {"none", "told"}
  /\ IF Len(response_mask) + n >= ResponseLength
     THEN /\ pc' = "leave"
          /\ UNCHANGED <<prompt_ids, response_mask, user_turns>>
     ELSE /\ pc' = "ask"
          /\ prompt_ids' = prompt_ids \o Block(n, "told")
          /\ response_mask' = response_mask \o Block(n, 0)
          /\ user_turns' = user_turns + 1
  /\ UNCHANGED <<config, assistant_turns, call, output>>

(* Mutant: what release raises is swallowed, and the model asked again. *)
M_CallThrew ==
  /\ pc = "calling"
  /\ \E c \in Call : call[c] = "threw"
  /\ pc' = "ask"
  /\ UNCHANGED <<config, prompt_ids, response_mask, turnVars, call, output>>

(* What release raises leaves _call_tool, gather and run. *)
CallThrew ==
  /\ pc = "calling"
  /\ \E c \in Call : call[c] = "threw"
  /\ pc' = "raised"
  /\ UNCHANGED <<config, prompt_ids, response_mask, turnVars, call, output>>

(* prompt_ids[-k:] is all of prompt_ids when k is 0. *)
LastOf(s, k) == IF k = 0 THEN s ELSE SubSeq(s, Len(s) - k + 1, Len(s))

FirstOf(s, k) == SubSeq(s, 1, IF k < Len(s) THEN k ELSE Len(s))

Leave ==
  /\ pc = "leave"
  /\ pc' = "done"
  /\ LET k == Len(response_mask) IN
     output' = [prompt_ids    |-> FirstOf(prompt_ids, Len(prompt_ids) - k),
                response_ids  |-> FirstOf(LastOf(prompt_ids, k), ResponseLength),
                response_mask |-> FirstOf(response_mask, ResponseLength),
                num_turns     |-> user_turns + assistant_turns + 1]
  /\ UNCHANGED <<config, prompt_ids, response_mask, turnVars, call>>

-----------------------------------------------------------------------------
(* _call_tool: create and execute in a try, release in its finally.        *)

Becomes(c, x) == /\ call' = [call EXCEPT ![c] = x]
                 /\ UNCHANGED <<pc, config, prompt_ids, response_mask, turnVars, output>>

(* The name or the arguments are wrong, or create raises: no instance. *)
NotCreated(c) == call[c] = "new" /\ Becomes(c, "error")

Create(c) == call[c] = "new" /\ Becomes(c, "live")

Execute(c) == call[c] = "live" /\ \E x \in {"executed", "failed"} : Becomes(c, x)

(* Mutant: release after the try, so that an exception skips it. *)
M_Release(c) ==
  call[c] = "executed" /\ \E x \in {"told", "threw"} : Becomes(c, x)

Release(c) ==
  \/ call[c] = "executed" /\ \E x \in {"told", "threw"} : Becomes(c, x)
  \/ call[c] = "failed" /\ \E x \in {"error", "threw"} : Becomes(c, x)

CallStep(c) == NotCreated(c) \/ Create(c) \/ Execute(c) \/ Release(c)

Run == \/ Ask \/ NoCalls \/ CallsFailed \/ CallThrew \/ Leave
       \/ \E n \in 1 .. MaxTokens : Answer(n)
       \/ \E k \in 1 .. MaxCalls : StartCalls(k)
       \/ \E n \in 1 .. MaxTold : CallsTold(n)

Next == Run \/ AskFails \/ \E c \in Call : CallStep(c)

(* The server and the tools answer. *)
Fairness == /\ WF_vars(Run \/ AskFails)
            /\ \A c \in Call : WF_vars(CallStep(c))

Spec == Init /\ [][Next]_vars

FairSpec == Spec /\ Fairness

-----------------------------------------------------------------------------
(* Properties.                                                             *)

(* What is returned is one conversation cut in two at the right place: the *)
(* prompt as it was given, and a response in which the mask marks exactly  *)
(* the tokens the model has made, whatever the exit, the order in which    *)
(* prompt_ids and response_mask have grown, and the two truncations.       *)
Aligned ==
  pc = "done" =>
    /\ output.prompt_ids = Block(given, "given")
    /\ Len(output.response_ids) = Len(output.response_mask)
    /\ Len(output.response_mask) <= ResponseLength
    /\ \A i \in 1 .. Len(output.response_mask) :
         output.response_ids[i] = IF output.response_mask[i] = 1 THEN "made" ELSE "told"

(* The model always has the last word: a response ends with a token it has *)
(* made, never with what a tool told, since responses that do not fit are  *)
(* not appended and appended ones are answered before any exit.            *)
EndsWithAnswer ==
  pc = "done" => /\ output.response_mask # <<>>
                 /\ output.response_mask[Len(output.response_mask)] = 1

(* When max_model_len is what it is by default, a server that is asked can *)
(* always sample a token: the conversation never fills the model's window. *)
RoomToAnswer ==
  MaxModelLen >= PromptLength + ResponseLength /\ pc \in {"ask", "asking"}
    => MaxTokens >= 1

(* And when it raises, because one release has, the calls it leaves behind *)
(* still release theirs.                                                   *)
InstancesReleased ==
  \A c \in Call : call[c] = "live" ~> call[c] \in {"told", "error", "threw", "none"}

(* The loop is one AgentTurns with ResponseLength turns at most, without   *)
(* any limit on turns: it ends, because every turn takes a token.          *)
Turns == INSTANCE AgentTurns
  WITH MaxTurns <- ResponseLength,
       phase <- CASE pc = "asking" -> "asking"
                  [] pc = "done"   -> "over"
                  [] pc = "raised" -> "raised"
                  [] OTHER         -> "turn",
       turns <- IF pc = "ask" THEN user_turns ELSE user_turns + 1

TakesTurns == Turns!Spec

LoopEnds == <>(pc \in {"done", "raised"})
=============================================================================
