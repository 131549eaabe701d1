------------------------- MODULE ToolAgentLoopProofs -------------------------
(***************************************************************************)
(* ToolAgentLoop, for every length of prompts, responses and windows and   *)
(* every limit: what is returned is cut at the right place, its last token *)
(* is the model's, and a server that is asked always has room to answer.   *)
(***************************************************************************)
EXTENDS ToolAgentLoop, SequenceTheorems, TLAPS

(* The prompt is the given tokens and then what the mask says, and before  *)
(* an answer the response is not full; an answer that fills it covers the  *)
(* last position that is kept.                                             *)
ShapeInv ==
  /\ Len(prompt_ids) = given + Len(response_mask)
  /\ \A i \in 1 .. given : prompt_ids[i] = "given"
  /\ \A i \in 1 .. Len(response_mask) :
       prompt_ids[given + i] = IF response_mask[i] = 1 THEN "made" ELSE "told"

RoomInv == pc \in {"ask", "asking", "answered", "calling"}
             => Len(response_mask) < ResponseLength

LastInv ==
  /\ Len(response_mask) >= ResponseLength => response_mask[ResponseLength] = 1
  /\ pc \in {"answered", "calling", "leave", "done"}
       => response_mask # <<>> /\ response_mask[Len(response_mask)] = 1

OutInv ==
  pc = "done" =>
    LET k == Len(response_mask) IN
    /\ output.prompt_ids = FirstOf(prompt_ids, Len(prompt_ids) - k)
    /\ output.response_ids = FirstOf(LastOf(prompt_ids, k), ResponseLength)
    /\ output.response_mask = FirstOf(response_mask, ResponseLength)

IInv == TypeOK /\ ShapeInv /\ RoomInv /\ LastInv /\ OutInv

-----------------------------------------------------------------------------
(* Appending n equal values to a sequence. *)
LEMMA BlockType ==
  ASSUME NEW n \in Nat, NEW S, NEW x \in S
  PROVE  /\ Block(n, x) \in Seq(S) /\ Len(Block(n, x)) = n
         /\ \A i \in 1 .. n : Block(n, x)[i] = x
BY DEF Block

LEMMA AppendBlock ==
  ASSUME NEW S, NEW s \in Seq(S), NEW b \in Seq(S), NEW x,
         \A i \in 1 .. Len(b) : b[i] = x
  PROVE  /\ s \o b \in Seq(S)
         /\ Len(s \o b) = Len(s) + Len(b)
         /\ \A i \in 1 .. Len(s) : (s \o b)[i] = s[i]
         /\ \A i \in 1 .. Len(s) + Len(b) : i > Len(s) => (s \o b)[i] = x
<1>1. /\ s \o b \in Seq(S)
      /\ Len(s \o b) = Len(s) + Len(b)
      /\ \A i \in 1 .. Len(s) + Len(b) :
           (s \o b)[i] = IF i <= Len(s) THEN s[i] ELSE b[i - Len(s)]
  BY ConcatProperties
<1>2. Len(s) \in Nat /\ Len(b) \in Nat
  OBVIOUS
<1>3. ASSUME NEW i \in 1 .. Len(s) + Len(b), i > Len(s)
      PROVE  (s \o b)[i] = x
  <2>1. ~(i <= Len(s)) /\ i - Len(s) \in 1 .. Len(b)
    BY <1>2, <1>3
  <2> QED BY <1>1, <2>1
<1> QED BY <1>1, <1>2, <1>3

(* The shape when both sequences grow by a block of the same length. *)
LEMMA Grow ==
  ASSUME TypeOK, ShapeInv, NEW n \in Nat, NEW m \in {0, 1},
         prompt_ids' = prompt_ids \o Block(n, IF m = 1 THEN "made" ELSE "told"),
         response_mask' = response_mask \o Block(n, m),
         given' = given
  PROVE  /\ ShapeInv'
         /\ prompt_ids' \in Seq(Token) /\ response_mask' \in Seq({0, 1})
         /\ Len(response_mask') = Len(response_mask) + n
         /\ \A i \in 1 .. Len(response_mask) : response_mask'[i] = response_mask[i]
         /\ \A i \in 1 .. Len(response_mask) + n :
              i > Len(response_mask) => response_mask'[i] = m
<1> DEFINE t == IF m = 1 THEN "made" ELSE "told"
           k == Len(response_mask)
           l == Len(prompt_ids)
<1>1. /\ prompt_ids \in Seq(Token) /\ response_mask \in Seq({0, 1})
      /\ given \in Nat /\ k \in Nat /\ l \in Nat /\ l = given + k /\ t \in Token
  BY LoopAssumption DEF TypeOK, ShapeInv, Token
<1>2. /\ prompt_ids' \in Seq(Token) /\ Len(prompt_ids') = l + n
      /\ \A i \in 1 .. l : prompt_ids'[i] = prompt_ids[i]
      /\ \A i \in 1 .. l + n : i > l => prompt_ids'[i] = t
  <2> DEFINE b == Block(n, t)
  <2>1. b \in Seq(Token) /\ Len(b) = n /\ \A i \in 1 .. Len(b) : b[i] = t
    BY <1>1, BlockType
  <2>2. prompt_ids' = prompt_ids \o b
    OBVIOUS
  <2> HIDE DEF b, t
  <2>3. prompt_ids \in Seq(Token)
    BY <1>1
  <2>4. prompt_ids \o b \in Seq(Token) /\ Len(prompt_ids \o b) = Len(prompt_ids) + Len(b)
    BY <2>1, <2>3, AppendBlock
  <2>5. \A i \in 1 .. Len(prompt_ids) : (prompt_ids \o b)[i] = prompt_ids[i]
    BY <2>1, <2>3, AppendBlock
  <2>6. \A i \in 1 .. Len(prompt_ids) + Len(b) : i > Len(prompt_ids) => (prompt_ids \o b)[i] = t
    BY <2>1, <2>3, AppendBlock
  <2> QED BY <2>1, <2>2, <2>4, <2>5, <2>6
<1>3. /\ response_mask' \in Seq({0, 1}) /\ Len(response_mask') = k + n
      /\ \A i \in 1 .. k : response_mask'[i] = response_mask[i]
      /\ \A i \in 1 .. k + n : i > k => response_mask'[i] = m
  <2> DEFINE b == Block(n, m)
  <2>1. b \in Seq({0, 1}) /\ Len(b) = n /\ \A i \in 1 .. Len(b) : b[i] = m
    BY <1>1, BlockType
  <2>2. response_mask' = response_mask \o b
    OBVIOUS
  <2> HIDE DEF b
  <2>3. response_mask \in Seq({0, 1})
    BY <1>1
  <2>4. response_mask \o b \in Seq({0, 1}) /\ Len(response_mask \o b) = Len(response_mask) + Len(b)
    BY <2>1, <2>3, AppendBlock
  <2>5. \A i \in 1 .. Len(response_mask) : (response_mask \o b)[i] = response_mask[i]
    BY <2>1, <2>3, AppendBlock
  <2>6. \A i \in 1 .. Len(response_mask) + Len(b) : i > Len(response_mask) => (response_mask \o b)[i] = m
    BY <2>1, <2>3, AppendBlock
  <2> QED BY <2>1, <2>2, <2>4, <2>5, <2>6
<1> HIDE DEF k, l
<1>4. \A i \in 1 .. given' : prompt_ids'[i] = "given"
  BY <1>1, <1>2 DEF ShapeInv
<1>5. ASSUME NEW i \in 1 .. k + n
      PROVE  prompt_ids'[given + i] = IF response_mask'[i] = 1 THEN "made" ELSE "told"
  <2>1. CASE i <= k
    <3>1. i \in 1 .. k /\ given + i \in 1 .. l
      BY <1>1, <2>1
    <3>2. prompt_ids[given + i] = IF response_mask[i] = 1 THEN "made" ELSE "told"
      BY <3>1 DEF ShapeInv, k
    <3> QED BY <1>2, <1>3, <3>1, <3>2
  <2>2. CASE i > k
    <3>1. i > k /\ given + i \in 1 .. l + n /\ given + i > l
      BY <1>1, <2>2
    <3> QED BY <1>2, <1>3, <3>1
  <2>3. i <= k \/ i > k
    BY <1>1
  <2> QED BY <2>1, <2>2, <2>3
<1>6. ShapeInv'
  <2>1. Len(prompt_ids') = given' + Len(response_mask')
    BY <1>1, <1>2, <1>3
  <2>2. \A i \in 1 .. Len(response_mask') :
          prompt_ids'[given' + i] = IF response_mask'[i] = 1 THEN "made" ELSE "told"
    BY <1>3, <1>5
  <2> QED BY <1>4, <2>1, <2>2 DEF ShapeInv
<1> QED BY <1>2, <1>3, <1>6 DEF k

-----------------------------------------------------------------------------
(* The invariant.                                                          *)

LEMMA IInit == Init => IInv
<1> SUFFICES ASSUME Init PROVE IInv
  OBVIOUS
<1>1. /\ given \in Nat \ {0} /\ given \in 1 .. PromptLength
      /\ "given" \in Token /\ ResponseLength \in Nat \ {0}
  BY LoopAssumption DEF Init, Token
<1>2. /\ prompt_ids \in Seq(Token) /\ Len(prompt_ids) = given
      /\ \A i \in 1 .. given : prompt_ids[i] = "given"
  BY <1>1, BlockType DEF Init
<1>3. TypeOK
  BY <1>1, <1>2 DEF Init, TypeOK, CallState, Nothing
<1>4. ShapeInv
  BY <1>1, <1>2 DEF Init, ShapeInv
<1>5. RoomInv /\ LastInv /\ OutInv
  BY <1>1 DEF Init, RoomInv, LastInv, OutInv
<1> QED BY <1>3, <1>4, <1>5 DEF IInv

(* An answer grows both by the same block, and covers the last position    *)
(* that is kept if it fills the response.                                  *)
LEMMA AnswerStep ==
  ASSUME IInv, NEW n \in 1 .. MaxTokens, Answer(n)
  PROVE  IInv'
<1>1. /\ pc = "asking"
      /\ prompt_ids' = prompt_ids \o Block(n, "made")
      /\ response_mask' = response_mask \o Block(n, 1)
      /\ assistant_turns' = assistant_turns + 1
      /\ pc' \in {"leave", "answered"}
      /\ pc' = "answered" => ~(Len(response_mask') >= ResponseLength)
      /\ agent' = agent /\ limits' = limits /\ given' = given
      /\ user_turns' = user_turns /\ call' = call /\ output' = output
  BY DEF Answer, LastAnswer, config
<1>2. TypeOK /\ ShapeInv /\ Len(response_mask) < ResponseLength
  BY <1>1 DEF IInv, RoomInv
<1>3. n \in Nat \ {0} /\ Len(response_mask) \in Nat /\ ResponseLength \in Nat
  <2>1. Len(prompt_ids) \in Nat /\ MaxModelLen \in Nat
    BY <1>2, LoopAssumption DEF TypeOK
  <2> QED BY <1>2, <2>1, LoopAssumption DEF MaxTokens, TypeOK
<1>4. /\ ShapeInv'
      /\ prompt_ids' \in Seq(Token) /\ response_mask' \in Seq({0, 1})
      /\ Len(response_mask') = Len(response_mask) + n
      /\ \A i \in 1 .. Len(response_mask) + n :
           i > Len(response_mask) => response_mask'[i] = 1
  BY <1>1, <1>2, <1>3, Grow
<1>5. TypeOK'
  BY <1>1, <1>2, <1>4 DEF TypeOK
<1>6. RoomInv'
  <2>1. pc' = "answered" => Len(response_mask') < ResponseLength
    BY <1>1, <1>3, <1>4
  <2> QED BY <1>1, <2>1 DEF RoomInv
<1>7. LastInv'
  <2>1. Len(response_mask') >= ResponseLength => response_mask'[ResponseLength] = 1
    <3>1. SUFFICES ASSUME Len(response_mask') >= ResponseLength
                   PROVE  response_mask'[ResponseLength] = 1
      OBVIOUS
    <3>2. /\ ResponseLength \in 1 .. Len(response_mask) + n
          /\ ResponseLength > Len(response_mask)
      BY <1>2, <1>3, <1>4, <3>1
    <3> QED BY <1>4, <3>2
  <2>2. /\ Len(response_mask') \in 1 .. Len(response_mask) + n
        /\ Len(response_mask') > Len(response_mask)
    BY <1>3, <1>4
  <2>3. response_mask' # <<>> /\ response_mask'[Len(response_mask')] = 1
    BY <1>3, <1>4, <2>2
  <2> QED BY <2>1, <2>3 DEF LastInv
<1>8. OutInv'
  BY <1>1 DEF OutInv
<1> QED BY <1>4, <1>5, <1>6, <1>7, <1>8 DEF IInv

(* What the tools have told is appended only if the response stays short   *)
(* of its length.                                                          *)
LEMMA ToldStep ==
  ASSUME IInv, NEW n \in 1 .. MaxTold, CallsTold(n)
  PROVE  IInv'
<1>1. /\ pc = "calling" /\ agent' = agent /\ limits' = limits /\ given' = given
      /\ assistant_turns' = assistant_turns /\ call' = call /\ output' = output
  BY DEF CallsTold, config
<1>2. TypeOK /\ ShapeInv /\ RoomInv /\ LastInv /\ OutInv
  BY DEF IInv
<1>3. n \in Nat /\ Len(response_mask) \in Nat /\ ResponseLength \in Nat
  BY <1>2, LoopAssumption DEF TypeOK
<1>4. CASE Len(response_mask) + n >= ResponseLength
  <2>1. /\ pc' = "leave" /\ prompt_ids' = prompt_ids
        /\ response_mask' = response_mask /\ user_turns' = user_turns
    BY <1>4 DEF CallsTold
  <2>2. TypeOK'
    BY <1>1, <1>2, <2>1 DEF TypeOK
  <2>3. ShapeInv'
    BY <1>1, <1>2, <2>1 DEF ShapeInv
  <2>4. RoomInv' /\ LastInv' /\ OutInv'
    BY <1>1, <1>2, <2>1 DEF RoomInv, LastInv, OutInv
  <2> QED BY <2>2, <2>3, <2>4 DEF IInv
<1>5. CASE ~(Len(response_mask) + n >= ResponseLength)
  <2>1. /\ pc' = "ask"
        /\ prompt_ids' = prompt_ids \o Block(n, "told")
        /\ response_mask' = response_mask \o Block(n, 0)
        /\ user_turns' = user_turns + 1
    BY <1>5 DEF CallsTold
  <2>2. /\ ShapeInv'
        /\ prompt_ids' \in Seq(Token) /\ response_mask' \in Seq({0, 1})
        /\ Len(response_mask') = Len(response_mask) + n
    <3>1. prompt_ids' = prompt_ids \o Block(n, IF 0 = 1 THEN "made" ELSE "told")
      BY <2>1
    <3>2. TypeOK /\ ShapeInv /\ n \in Nat /\ 0 \in {0, 1}
      BY <1>2, <1>3
    <3> QED BY ONLY <1>1, <2>1, <3>1, <3>2, Grow
  <2>3. TypeOK'
    BY <1>1, <1>2, <2>1, <2>2 DEF TypeOK
  <2>4. Len(response_mask') < ResponseLength
    BY <1>3, <1>5, <2>2
  <2>5. RoomInv' /\ LastInv' /\ OutInv'
    BY <1>3, <2>1, <2>2, <2>4 DEF RoomInv, LastInv, OutInv
  <2> QED BY <2>2, <2>3, <2>5 DEF IInv
<1> QED BY <1>4, <1>5 DEF CallsTold

LEMMA FirstOfType ==
  ASSUME NEW S, NEW s \in Seq(S), NEW k \in Nat
  PROVE  /\ FirstOf(s, k) \in Seq(S)
         /\ Len(FirstOf(s, k)) = IF k < Len(s) THEN k ELSE Len(s)
         /\ \A i \in 1 .. Len(FirstOf(s, k)) : FirstOf(s, k)[i] = s[i]
<1> DEFINE e == IF k < Len(s) THEN k ELSE Len(s)
<1>1. e \in 0 .. Len(s)
  OBVIOUS
<1> HIDE DEF e
<1>2. /\ SubSeq(s, 1, e) \in Seq(S) /\ Len(SubSeq(s, 1, e)) = e
      /\ \A i \in 1 .. e : SubSeq(s, 1, e)[i] = s[i]
  BY <1>1
<1>3. FirstOf(s, k) = SubSeq(s, 1, e)
  BY DEF FirstOf, e
<1> QED BY <1>2, <1>3 DEF e

LEMMA LastOfType ==
  ASSUME NEW S, NEW s \in Seq(S), NEW k \in 1 .. Len(s)
  PROVE  /\ LastOf(s, k) \in Seq(S) /\ Len(LastOf(s, k)) = k
         /\ \A i \in 1 .. k : LastOf(s, k)[i] = s[Len(s) - k + i]
<1>1. k # 0 /\ Len(s) - k + 1 \in 1 .. Len(s)
  OBVIOUS
<1>2. LastOf(s, k) = SubSeq(s, Len(s) - k + 1, Len(s))
  BY <1>1 DEF LastOf
<1> QED BY <1>1, <1>2

LEMMA LeaveStep == IInv /\ Leave => IInv'
<1> SUFFICES ASSUME IInv, Leave PROVE IInv'
  OBVIOUS
<1> DEFINE k == Len(response_mask)
<1>1. /\ pc = "leave" /\ pc' = "done"
      /\ agent' = agent /\ limits' = limits /\ given' = given
      /\ prompt_ids' = prompt_ids /\ response_mask' = response_mask
      /\ user_turns' = user_turns /\ assistant_turns' = assistant_turns
      /\ call' = call
      /\ output' = [prompt_ids    |-> FirstOf(prompt_ids, Len(prompt_ids) - k),
                    response_ids  |-> FirstOf(LastOf(prompt_ids, k), ResponseLength),
                    response_mask |-> FirstOf(response_mask, ResponseLength),
                    num_turns     |-> user_turns + assistant_turns + 1]
  BY DEF Leave, config, turnVars
<1>2. TypeOK /\ ShapeInv /\ RoomInv /\ LastInv
  BY DEF IInv
<1>3. /\ prompt_ids \in Seq(Token) /\ response_mask \in Seq({0, 1})
      /\ given \in Nat /\ ResponseLength \in Nat /\ k \in 1 .. Len(prompt_ids)
      /\ Len(prompt_ids) - k \in Nat
  <2>1. /\ prompt_ids \in Seq(Token) /\ response_mask \in Seq({0, 1})
        /\ given \in Nat /\ ResponseLength \in Nat /\ response_mask # <<>>
    BY <1>1, <1>2, LoopAssumption DEF TypeOK, LastInv
  <2>2. k \in Nat \ {0} /\ Len(prompt_ids) = given + k
    BY <1>2, <2>1 DEF ShapeInv
  <2> QED BY <2>1, <2>2
<1>4. output'.prompt_ids \in Seq(Token) /\ output'.response_mask \in Seq({0, 1})
  BY <1>1, <1>3, FirstOfType
<1>5. output'.response_ids \in Seq(Token)
  <2>1. LastOf(prompt_ids, k) \in Seq(Token)
    BY <1>3, LastOfType
  <2> QED BY <1>1, <1>3, <2>1, FirstOfType
<1>6. output' \in [prompt_ids : Seq(Token), response_ids : Seq(Token),
                   response_mask : Seq({0, 1}), num_turns : Nat]
  <2>1. user_turns + assistant_turns + 1 \in Nat
    BY <1>2 DEF TypeOK
  <2> QED BY <1>1, <1>4, <1>5, <2>1
<1>7. TypeOK'
  BY <1>1, <1>2, <1>6 DEF TypeOK
<1>8. ShapeInv' /\ RoomInv' /\ LastInv'
  BY <1>1, <1>2 DEF ShapeInv, RoomInv, LastInv
<1>9. OutInv'
  BY <1>1 DEF OutInv
<1> QED BY <1>7, <1>8, <1>9 DEF IInv

(* The other steps touch neither prompt nor mask. *)
LEMMA OtherStep ==
  ASSUME IInv,
         \/ Ask \/ AskFails \/ NoCalls \/ CallsFailed \/ CallThrew
         \/ (\E k \in 1 .. MaxCalls : StartCalls(k))
         \/ (\E c \in Call : CallStep(c))
         \/ UNCHANGED vars
  PROVE  IInv'
<1>1. /\ agent' = agent /\ limits' = limits /\ given' = given
      /\ prompt_ids' = prompt_ids /\ response_mask' = response_mask
      /\ user_turns' = user_turns /\ assistant_turns' = assistant_turns
      /\ output' = output
  BY DEF Ask, AskFails, NoCalls, CallsFailed, CallThrew, StartCalls, CallStep,
         NotCreated, Create, Execute, Release, Becomes, vars, config, turnVars
<1>2. TypeOK /\ ShapeInv /\ RoomInv /\ LastInv /\ OutInv
  BY DEF IInv
<1>3. call' \in [Call -> CallState]
  <2>1. ASSUME NEW c \in Call, CallStep(c)
        PROVE  call' \in [Call -> CallState]
    BY <1>2, <2>1 DEF TypeOK, CallStep, NotCreated, Create, Execute, Release,
                      Becomes, CallState
  <2>2. ASSUME NEW k \in 1 .. MaxCalls, StartCalls(k)
        PROVE  call' \in [Call -> CallState]
    BY <2>2 DEF StartCalls, CallState
  <2>3. ASSUME Ask \/ AskFails \/ NoCalls \/ CallsFailed \/ CallThrew \/ UNCHANGED vars
        PROVE  call' = call
    BY <2>3 DEF Ask, AskFails, NoCalls, CallsFailed, CallThrew, vars
  <2> QED BY <1>2, <2>1, <2>2, <2>3 DEF TypeOK
<1>4. \/ pc' = pc \/ pc' = "raised"
      \/ pc = "ask" /\ pc' = "asking"
      \/ pc \in {"answered", "calling"} /\ pc' \in {"calling", "leave"}
  BY DEF Ask, AskFails, NoCalls, CallsFailed, CallThrew, StartCalls, CallStep,
         NotCreated, Create, Execute, Release, Becomes, vars
<1>5. TypeOK'
  BY <1>1, <1>2, <1>3, <1>4 DEF TypeOK
<1>6. ShapeInv'
  BY <1>1, <1>2 DEF ShapeInv
<1>7. RoomInv' /\ LastInv' /\ OutInv'
  BY <1>1, <1>2, <1>4 DEF RoomInv, LastInv, OutInv
<1> QED BY <1>5, <1>6, <1>7 DEF IInv

LEMMA StepKeepsIInv == IInv /\ [Next]_vars => IInv'
<1> SUFFICES ASSUME IInv, [Next]_vars PROVE IInv'
  OBVIOUS
<1>1. CASE Run
  BY <1>1, AnswerStep, ToldStep, LeaveStep, OtherStep DEF Run
<1>2. CASE AskFails \/ (\E c \in Call : CallStep(c)) \/ UNCHANGED vars
  BY <1>2, OtherStep
<1> QED BY <1>1, <1>2 DEF Next

LEMMA Invariance == Spec => []IInv
BY StepKeepsIInv, IInit, PTL DEF Spec

-----------------------------------------------------------------------------
(* The response is cut out of the prompt at the right place, whatever the  *)
(* lengths, the limits and the exit: ToolAgentLoop.run, lines 103 to 113.  *)
THEOREM ResponsesAligned == Spec => []Aligned
<1>1. IInv => Aligned
  <2> SUFFICES ASSUME IInv, pc = "done"
               PROVE  /\ output.prompt_ids = Block(given, "given")
                      /\ Len(output.response_ids) = Len(output.response_mask)
                      /\ Len(output.response_mask) <= ResponseLength
                      /\ \A i \in 1 .. Len(output.response_mask) :
                           output.response_ids[i] =
                             IF output.response_mask[i] = 1 THEN "made" ELSE "told"
    BY DEF Aligned
  <2> DEFINE k == Len(response_mask)
             l == Len(prompt_ids)
             r == LastOf(prompt_ids, k)
  <2>1. /\ output.prompt_ids = FirstOf(prompt_ids, l - k)
        /\ output.response_ids = FirstOf(r, ResponseLength)
        /\ output.response_mask = FirstOf(response_mask, ResponseLength)
    BY DEF IInv, OutInv
  <2>2. /\ prompt_ids \in Seq(Token) /\ response_mask \in Seq({0, 1})
        /\ given \in Nat /\ ResponseLength \in Nat
    BY LoopAssumption DEF IInv, TypeOK
  <2>3. k \in Nat \ {0} /\ l = given + k
    BY <2>2 DEF IInv, LastInv, ShapeInv
  <2>4. k \in 1 .. Len(prompt_ids) /\ l - k = given /\ given < l
    BY <2>2, <2>3
  <2>5. /\ r \in Seq(Token) /\ Len(r) = k
        /\ \A i \in 1 .. k : r[i] = prompt_ids[given + i]
    BY <2>2, <2>4, LastOfType
  <2>6. output.prompt_ids = Block(given, "given")
    <3>1. output.prompt_ids = SubSeq(prompt_ids, 1, given)
      BY <2>1, <2>4 DEF FirstOf
    <3>2. \A i \in 1 .. given : prompt_ids[i] = "given"
      BY DEF IInv, ShapeInv
    <3>3. /\ SubSeq(prompt_ids, 1, given) = [i \in 1 .. given |-> prompt_ids[i]]
      BY <2>2, <2>4
    <3> QED BY <3>1, <3>2, <3>3 DEF Block
  <2> HIDE DEF r, l, k
  <2>7. /\ Len(output.response_ids) = IF ResponseLength < k THEN ResponseLength ELSE k
        /\ \A i \in 1 .. Len(output.response_ids) : output.response_ids[i] = r[i]
    BY <2>1, <2>2, <2>5, FirstOfType
  <2>8. /\ Len(output.response_mask) = IF ResponseLength < k THEN ResponseLength ELSE k
        /\ \A i \in 1 .. Len(output.response_mask) :
             output.response_mask[i] = response_mask[i]
    BY <2>1, <2>2, FirstOfType DEF k
  <2>9. ASSUME NEW i \in 1 .. Len(output.response_mask)
        PROVE  output.response_ids[i] =
                 IF output.response_mask[i] = 1 THEN "made" ELSE "told"
    <3>1. i \in 1 .. k
      BY <2>2, <2>3, <2>8, <2>9
    <3>2. prompt_ids[given + i] = IF response_mask[i] = 1 THEN "made" ELSE "told"
      BY <3>1 DEF IInv, ShapeInv, k
    <3> QED BY <2>5, <2>7, <2>8, <2>9, <3>1, <3>2
  <2> QED BY <2>2, <2>3, <2>6, <2>7, <2>8, <2>9
<1> QED BY <1>1, Invariance, PTL

(* The last token of a response is one the model has made: the exits after *)
(* tool calls keep their responses out, and a response that is cut at its  *)
(* length is cut inside or at the end of an answer.                        *)
THEOREM ModelHasLastWord == Spec => []EndsWithAnswer
<1>1. IInv => EndsWithAnswer
  <2> SUFFICES ASSUME IInv, pc = "done"
               PROVE  /\ output.response_mask # <<>>
                      /\ output.response_mask[Len(output.response_mask)] = 1
    BY DEF EndsWithAnswer
  <2> DEFINE k == Len(response_mask)
             e == IF ResponseLength < k THEN ResponseLength ELSE k
             o == output.response_mask
  <2>1. /\ response_mask \in Seq({0, 1}) /\ ResponseLength \in Nat \ {0}
        /\ o = FirstOf(response_mask, ResponseLength)
    BY LoopAssumption DEF IInv, TypeOK, OutInv
  <2>2. /\ k \in Nat \ {0} /\ response_mask[k] = 1
        /\ k >= ResponseLength => response_mask[ResponseLength] = 1
    BY <2>1 DEF IInv, LastInv
  <2> HIDE DEF k, o
  <2>3. e \in 1 .. e /\ e # 0 /\ response_mask[e] = 1
    BY <2>1, <2>2
  <2>4. Len(o) = e /\ \A i \in 1 .. Len(o) : o[i] = response_mask[i]
    BY <2>1, FirstOfType DEF k
  <2> QED BY <2>1, <2>3, <2>4 DEF o
<1> QED BY <1>1, Invariance, PTL

(* With a window of the default size the server can sample a token at      *)
(* every turn: AsyncvLLMServer.generate never gets a full prompt.          *)
THEOREM AlwaysRoom == Spec => []RoomToAnswer
<1>1. IInv => RoomToAnswer
  <2> SUFFICES ASSUME IInv, MaxModelLen >= PromptLength + ResponseLength,
                      pc \in {"ask", "asking"}
               PROVE  MaxTokens >= 1
    BY DEF RoomToAnswer
  <2>1. /\ given \in Nat /\ given <= PromptLength /\ PromptLength \in Nat
        /\ ResponseLength \in Nat /\ MaxModelLen \in Nat
        /\ response_mask \in Seq({0, 1}) /\ Len(response_mask) \in Nat
    BY LoopAssumption DEF IInv, TypeOK
  <2>2. Len(prompt_ids) = given + Len(response_mask) /\ Len(response_mask) < ResponseLength
    BY DEF IInv, ShapeInv, RoomInv
  <2> QED BY <2>1, <2>2 DEF MaxTokens
<1> QED BY <1>1, Invariance, PTL

-----------------------------------------------------------------------------
(* The steps of AgentTurns.                                                *)

(* Every turn in which tools have told something has a token in the mask. *)
TurnInv == IInv /\ user_turns <= Len(response_mask)

LEMMA TurnInvariance == Spec => []TurnInv
<1>1. Init => TurnInv
  BY IInit DEF TurnInv, Init
<1>2. TurnInv /\ [Next]_vars => TurnInv'
  <2> SUFFICES ASSUME TurnInv, [Next]_vars PROVE TurnInv'
    OBVIOUS
  <2>1. IInv /\ IInv' /\ user_turns <= Len(response_mask)
    BY StepKeepsIInv DEF TurnInv
  <2>2. /\ user_turns \in Nat /\ response_mask \in Seq({0, 1})
        /\ prompt_ids \in Seq(Token) /\ MaxTold \in Nat /\ MaxModelLen \in Nat
    BY <2>1, LoopAssumption DEF IInv, TypeOK
  <2>3. ASSUME NEW n \in 1 .. MaxTokens, Answer(n)
        PROVE  user_turns' <= Len(response_mask')
    <3>1. n \in Nat
      BY <2>2 DEF MaxTokens
    <3>2. Block(n, 1) \in Seq({0, 1}) /\ Len(Block(n, 1)) = n
      BY <3>1, BlockType
    <3>3. Len(response_mask \o Block(n, 1)) = Len(response_mask) + n
      BY <2>2, <3>2, ConcatProperties
    <3> QED BY <2>1, <2>2, <2>3, <3>1, <3>3 DEF Answer
  <2>4. ASSUME NEW n \in 1 .. MaxTold, CallsTold(n)
        PROVE  user_turns' <= Len(response_mask')
    <3>1. n \in Nat \ {0} /\ Block(n, 0) \in Seq({0, 1}) /\ Len(Block(n, 0)) = n
      BY <2>2, BlockType
    <3>2. Len(response_mask \o Block(n, 0)) = Len(response_mask) + n
      BY <2>2, <3>1, ConcatProperties
    <3> QED BY <2>1, <2>2, <2>4, <3>1, <3>2 DEF CallsTold
  <2>5. ASSUME \/ Ask \/ NoCalls \/ CallsFailed \/ CallThrew \/ Leave \/ AskFails
               \/ (\E k \in 1 .. MaxCalls : StartCalls(k))
               \/ (\E c \in Call : CallStep(c)) \/ UNCHANGED vars
        PROVE  user_turns' <= Len(response_mask')
    <3>1. user_turns' = user_turns /\ response_mask' = response_mask
      BY <2>5 DEF Ask, AskFails, NoCalls, CallsFailed, CallThrew, Leave, StartCalls,
                  CallStep, NotCreated, Create, Execute, Release, Becomes, vars, turnVars
    <3> QED BY <2>1, <3>1
  <2>6. user_turns' <= Len(response_mask')
    BY <2>3, <2>4, <2>5 DEF Next, Run
  <2> QED BY <2>1, <2>6 DEF TurnInv
<1> QED BY <1>1, <1>2, PTL DEF Spec

(* An answer is asked for with fewer turns behind than the response has    *)
(* tokens: the turn before has left two in the mask.                       *)
LEMMA AskIsAsk == TurnInv /\ Ask => Turns!Ask
<1> SUFFICES ASSUME TurnInv, Ask PROVE Turns!Ask
  OBVIOUS
<1>1. /\ user_turns \in Nat /\ Len(response_mask) \in Nat /\ ResponseLength \in Nat
      /\ user_turns <= Len(response_mask) /\ Len(response_mask) < ResponseLength
  BY LoopAssumption DEF TurnInv, IInv, TypeOK, RoomInv, Ask
<1> QED BY <1>1 DEF Ask, turnVars, Turns!Ask

(* Without a limit on turns, a loop is from outside one that asks at most  *)
(* as many times as a response has tokens, takes an answer before it asks  *)
(* again, has asked before it ends, and is over when it has ended or       *)
(* raised: ToolAgentLoop.run, lines 71 to 113.                             *)
THEOREM StepsOfTurns == Spec => Turns!Init /\ [][Turns!Next]_(Turns!vars)
<1>1. Init => Turns!Init
  BY DEF Init, Turns!Init
<1>2. TurnInv /\ [Next]_vars => [Turns!Next]_(Turns!vars)
  <2> SUFFICES ASSUME TurnInv, [Next]_vars
               PROVE  Turns!Next \/ UNCHANGED Turns!vars
    OBVIOUS
  <2>1. user_turns \in Nat
    BY DEF TurnInv, IInv, TypeOK
  <2>2. CASE Ask
    BY <2>2, AskIsAsk DEF Turns!Next
  <2>3. ASSUME NEW n \in 1 .. MaxTokens, Answer(n) PROVE Turns!Next
    BY <2>3 DEF Answer, Turns!Next, Turns!Answer
  <2>4. CASE AskFails \/ CallThrew
    BY <2>4 DEF AskFails, CallThrew, turnVars, Turns!Next, Turns!Raise
  <2>5. CASE Leave
    BY <2>1, <2>5 DEF Leave, turnVars, Turns!Next, Turns!End
  <2>6. ASSUME NEW n \in 1 .. MaxTold, CallsTold(n) PROVE UNCHANGED Turns!vars
    BY <2>6 DEF CallsTold, Turns!vars
  <2>7. CASE \/ NoCalls \/ CallsFailed \/ (\E k \in 1 .. MaxCalls : StartCalls(k))
             \/ (\E c \in Call : CallStep(c)) \/ UNCHANGED vars
    <3>1. user_turns' = user_turns
      BY <2>7 DEF NoCalls, CallsFailed, StartCalls, CallStep, NotCreated, Create,
                  Execute, Release, Becomes, vars, turnVars
    <3>2. \/ pc' = pc
          \/ pc \in {"answered", "calling"} /\ pc' \in {"calling", "leave"}
      BY <2>7 DEF NoCalls, CallsFailed, StartCalls, CallStep, NotCreated, Create,
                  Execute, Release, Becomes, vars
    <3> QED BY <3>1, <3>2 DEF Turns!vars
  <2> QED BY <2>2, <2>3, <2>4, <2>5, <2>6, <2>7 DEF Next, Run
<1> QED BY <1>1, <1>2, TurnInvariance, PTL DEF Spec
=============================================================================
