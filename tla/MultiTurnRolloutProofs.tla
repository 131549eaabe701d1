----------------------- MODULE MultiTurnRolloutProofs -----------------------
(***************************************************************************)
(* MultiTurnRollout for any number of requests, tools and ranks, and any   *)
(* lengths and limits: the conversations are well-formed, whatever ends    *)
(* them, finalize knows the reason, the ranks accept them, and the tools   *)
(* are given back.                                                         *)
(***************************************************************************)
EXTENDS MultiTurnRollout, SequenceTheorems, TLAPS

(* A conversation as the properties want it: answers stand behind prompts, *)
(* prompts are complete at most, and followed by an answer.                *)
Shaped(s) ==
  /\ \A i \in 2 .. Len(s) : s[i] = "model" => s[i - 1] \in {"gen", "model"}
  /\ \A i \in DOMAIN s : s[i] = "gen" =>
       /\ i > GenLen => SubSeq(s, i - GenLen, i) # Tokens(GenLen + 1, "gen")
       /\ i < Len(s) => s[i + 1] \in {"gen", "model"}

(* A conversation that the loop may continue: no half of a prompt at its   *)
(* end.                                                                    *)
Closed(s) == s # <<>> /\ (s[Len(s)] = "gen" => EndsWithPrompt(s))

MaskOf(s) == [i \in DOMAIN s |-> s[i] = "model"]

EndsAs(s, w) == s # <<>> /\ s[Len(s)] = w

-----------------------------------------------------------------------------
(* Sequences of tokens.                                                    *)

(* The constants that are numbers. *)
LEMMA LengthsAreNatural ==
  /\ TP \in Nat \ {0} /\ GenLen \in Nat \ {0} /\ EndLen \in Nat \ {0}
  /\ PromptLength \in Nat \ {0} /\ ResponseLength \in Nat \ {0}
  /\ MaxModelLen \in Nat \ {0} /\ MaxAssistantTurns \in Nat \ {0}
BY RolloutAssumption

(* Tokens is a sequence of n equal tokens. *)
LEMMA TokensOf ==
  ASSUME NEW n \in Nat, NEW w \in Writer
  PROVE  /\ Tokens(n, w) \in Seq(Writer)
         /\ Len(Tokens(n, w)) = n
         /\ \A i \in 1 .. n : Tokens(n, w)[i] = w
BY DEF Tokens

(* Tokens put behind a sequence leave it as it was. *)
LEMMA Appended ==
  ASSUME NEW s \in Seq(Writer), NEW n \in Nat, NEW w \in Writer
  PROVE  LET t == s \o Tokens(n, w)
         IN /\ t \in Seq(Writer) /\ Len(t) = Len(s) + n
            /\ \A i \in 1 .. Len(s) : t[i] = s[i]
            /\ \A i \in Len(s) + 1 .. Len(s) + n : t[i] = w
<1>1. /\ Tokens(n, w) \in Seq(Writer)
      /\ Len(Tokens(n, w)) = n
      /\ \A i \in 1 .. n : Tokens(n, w)[i] = w
  BY TokensOf
<1> DEFINE g == Tokens(n, w)
<1> HIDE DEF g
<1>2. /\ g \in Seq(Writer) /\ Len(g) = n /\ \A i \in 1 .. n : g[i] = w
      /\ s \o Tokens(n, w) = s \o g
  BY <1>1 DEF g
<1>3. /\ s \o g \in Seq(Writer) /\ Len(s \o g) = Len(s) + n
      /\ \A i \in 1 .. Len(s) : (s \o g)[i] = s[i]
  BY <1>2
<1>4. ASSUME NEW i \in Len(s) + 1 .. Len(s) + n
      PROVE  (s \o g)[i] = w
  <2>1. (s \o g)[i] = g[i - Len(s)] /\ i - Len(s) \in 1 .. n
    BY <1>2
  <2> QED
    BY <1>2, <2>1
<1> QED
  BY <1>2, <1>3, <1>4

(* A part of a conversation that is all prompt. *)
LEMMA AllPrompt ==
  ASSUME NEW s \in Seq(Writer), NEW a \in Nat \ {0}, NEW b \in Nat, NEW n \in Nat,
         a <= b, b <= Len(s), n = b - a + 1
  PROVE  SubSeq(s, a, b) = Tokens(n, "gen") <=> \A j \in a .. b : s[j] = "gen"
<1> DEFINE t == SubSeq(s, a, b)
           g == Tokens(n, "gen")
<1>1. /\ t \in Seq(Writer) /\ Len(t) = n
      /\ \A i \in 1 .. n : t[i] = s[a + i - 1]
  BY SubSeqProperties
<1>2. /\ g \in Seq(Writer) /\ Len(g) = n
      /\ \A i \in 1 .. n : g[i] = "gen"
  BY TokensOf DEF Writer
<1> HIDE DEF t, g
<1>3. t = g <=> \A i \in 1 .. n : t[i] = g[i]
  BY <1>1, <1>2, SeqEqual
<1>4. ASSUME t = g PROVE \A j \in a .. b : s[j] = "gen"
  <2> SUFFICES ASSUME NEW j \in a .. b PROVE s[j] = "gen"
    OBVIOUS
  <2>1. j - a + 1 \in 1 .. n /\ a + (j - a + 1) - 1 = j
    OBVIOUS
  <2> QED
    BY <1>1, <1>2, <1>3, <1>4, <2>1
<1>5. ASSUME \A j \in a .. b : s[j] = "gen" PROVE t = g
  <2>1. \A i \in 1 .. n : a + i - 1 \in a .. b
    OBVIOUS
  <2> QED
    BY <1>1, <1>2, <1>3, <1>5, <2>1
<1> QED
  BY <1>4, <1>5 DEF t, g

(* EndsWithPrompt, by its elements. *)
LEMMA PromptAtEnd ==
  ASSUME NEW s \in Seq(Writer)
  PROVE  EndsWithPrompt(s) <=>
           /\ Len(s) >= GenLen
           /\ \A j \in Len(s) - GenLen + 1 .. Len(s) : s[j] = "gen"
<1>1. ASSUME Len(s) >= GenLen
      PROVE  SubSeq(s, Len(s) - GenLen + 1, Len(s)) = Tokens(GenLen, "gen")
               <=> \A j \in Len(s) - GenLen + 1 .. Len(s) : s[j] = "gen"
  <2> DEFINE b == Len(s)
             a == b - GenLen + 1
  <2>1. /\ a \in Nat \ {0} /\ b \in Nat /\ GenLen \in Nat
        /\ a <= b /\ b <= Len(s) /\ GenLen = b - a + 1
    BY <1>1, LengthsAreNatural
  <2> HIDE DEF a, b
  <2>2. SubSeq(s, a, b) = Tokens(GenLen, "gen") <=> \A j \in a .. b : s[j] = "gen"
    BY <2>1, AllPrompt
  <2> QED
    BY <2>2 DEF a, b
<1> QED
  BY <1>1 DEF EndsWithPrompt

(* The long run of prompts that Shaped rules out, by its elements. *)
LEMMA ShapedRun ==
  ASSUME NEW s \in Seq(Writer), NEW i \in DOMAIN s, i > GenLen
  PROVE  SubSeq(s, i - GenLen, i) # Tokens(GenLen + 1, "gen")
           <=> \E j \in i - GenLen .. i : s[j] # "gen"
<1>1. /\ i - GenLen \in Nat \ {0} /\ i \in Nat /\ i - GenLen <= i /\ i <= Len(s)
      /\ GenLen + 1 \in Nat /\ GenLen + 1 = i - (i - GenLen) + 1
  BY LengthsAreNatural
<1> QED
  BY <1>1, AllPrompt

(* A prefix of a well-formed conversation is one. *)
LEMMA PrefixShaped ==
  ASSUME NEW s \in Seq(Writer), NEW n \in 0 .. Len(s), Shaped(s)
  PROVE  /\ SubSeq(s, 1, n) \in Seq(Writer) /\ Len(SubSeq(s, 1, n)) = n
         /\ \A i \in 1 .. n : SubSeq(s, 1, n)[i] = s[i]
         /\ Shaped(SubSeq(s, 1, n))
<1> DEFINE t == SubSeq(s, 1, n)
<1>1. t \in Seq(Writer) /\ Len(t) = n /\ \A i \in 1 .. n : t[i] = s[i]
  BY SubSeqProperties
<1>2. \A i \in 2 .. Len(t) : t[i] = "model" => t[i - 1] \in {"gen", "model"}
  BY <1>1 DEF Shaped
<1>3. ASSUME NEW i \in DOMAIN t, t[i] = "gen", i > GenLen
      PROVE  SubSeq(t, i - GenLen, i) # Tokens(GenLen + 1, "gen")
  <2>1. i \in DOMAIN s /\ s[i] = "gen"
    BY <1>1, <1>3
  <2>2. PICK j \in i - GenLen .. i : s[j] # "gen"
    BY <2>1, <1>3, ShapedRun DEF Shaped
  <2>3. t[j] # "gen"
    BY <1>1, <1>3, <2>2, LengthsAreNatural
  <2> QED
    BY <1>1, <1>3, <2>3, ShapedRun
<1>4. ASSUME NEW i \in DOMAIN t, t[i] = "gen", i < Len(t)
      PROVE  t[i + 1] \in {"gen", "model"}
  BY <1>1, <1>4 DEF Shaped
<1> QED
  BY <1>1, <1>2, <1>3, <1>4 DEF Shaped

(* A run of prompts in a prefix stays one that is broken. *)
LEMMA RunBroken ==
  ASSUME NEW s \in Seq(Writer), NEW t \in Seq(Writer), Shaped(s), Len(s) <= Len(t),
         \A i \in 1 .. Len(s) : t[i] = s[i],
         NEW i \in 1 .. Len(s), t[i] = "gen", i > GenLen
  PROVE  SubSeq(t, i - GenLen, i) # Tokens(GenLen + 1, "gen")
<1>1. i \in DOMAIN s /\ i \in DOMAIN t /\ s[i] = "gen"
  OBVIOUS
<1>2. PICK j \in i - GenLen .. i : s[j] # "gen"
  BY <1>1, ShapedRun DEF Shaped
<1>3. t[j] # "gen"
  BY <1>2, LengthsAreNatural
<1> QED
  BY <1>1, <1>3, ShapedRun

(* The generation prompt may be added to whatever the loop continues. *)
LEMMA PromptShaped ==
  ASSUME NEW s \in Seq(Writer), Shaped(s), Closed(s)
  PROVE  /\ Prompted(s) \in Seq(Writer) /\ Shaped(Prompted(s))
         /\ EndsWithPrompt(Prompted(s))
         /\ Len(s) <= Len(Prompted(s))
         /\ \A i \in 1 .. Len(s) : Prompted(s)[i] = s[i]
         /\ \A i \in Len(s) + 1 .. Len(Prompted(s)) : Prompted(s)[i] = "gen"
<1>1. CASE EndsWithPrompt(s)
  BY <1>1 DEF Prompted
<1>2. CASE ~EndsWithPrompt(s)
  <2> DEFINE t == s \o Tokens(GenLen, "gen")
  <2>1. Prompted(s) = t
    BY <1>2 DEF Prompted
  <2>2. /\ t \in Seq(Writer) /\ Len(t) = Len(s) + GenLen
        /\ \A i \in 1 .. Len(s) : t[i] = s[i]
        /\ \A i \in Len(s) + 1 .. Len(s) + GenLen : t[i] = "gen"
    <3>1. "gen" \in Writer /\ GenLen \in Nat
      BY LengthsAreNatural DEF Writer
    <3> QED
      BY <3>1, Appended
  <2> HIDE DEF t
  <2>3. Len(s) \in Nat \ {0} /\ s[Len(s)] # "gen"
    BY <1>2 DEF Closed
  <2>4. EndsWithPrompt(t)
    BY <2>2, PromptAtEnd, LengthsAreNatural
  <2>5. ASSUME NEW i \in 2 .. Len(t), t[i] = "model"
        PROVE  t[i - 1] \in {"gen", "model"}
    <3>1. i \in 2 .. Len(s) /\ s[i] = "model"
      BY <2>2, <2>5
    <3> QED
      BY <3>1, <2>2 DEF Shaped
  <2>6. ASSUME NEW i \in DOMAIN t, t[i] = "gen", i > GenLen
        PROVE  SubSeq(t, i - GenLen, i) # Tokens(GenLen + 1, "gen")
    <3>1. CASE i <= Len(s)
      <4>1. i \in 1 .. Len(s) /\ Len(s) <= Len(t)
        BY <3>1, <2>2, <2>6, LengthsAreNatural
      <4> QED
        BY <4>1, <2>2, <2>6, RunBroken
    <3>2. CASE i > Len(s)
      <4>1. Len(s) \in i - GenLen .. i /\ t[Len(s)] # "gen"
        BY <3>2, <2>2, <2>3, <2>6, LengthsAreNatural
      <4> QED
        BY <4>1, <2>2, <2>6, ShapedRun
    <3> QED
      BY <3>1, <3>2, <2>2, <2>3
  <2>7. ASSUME NEW i \in DOMAIN t, t[i] = "gen", i < Len(t)
        PROVE  t[i + 1] \in {"gen", "model"}
    <3>1. CASE i < Len(s)
      BY <3>1, <2>2, <2>7 DEF Shaped
    <3>2. CASE i >= Len(s)
      BY <3>2, <2>2, <2>3, <2>7, LengthsAreNatural
    <3> QED
      BY <3>1, <3>2, <2>2
  <2> QED
    BY <2>1, <2>2, <2>4, <2>5, <2>6, <2>7, LengthsAreNatural DEF Shaped
<1> QED
  BY <1>1, <1>2

(* Tokens of the model behind a prompt, or those of a tool or a user       *)
(* behind an answer.                                                       *)
LEMMA MoreShaped ==
  ASSUME NEW s \in Seq(Writer), Shaped(s), s # <<>>, NEW n \in Nat \ {0},
         NEW w \in {"model", "user", "tool"},
         w = "model" => s[Len(s)] = "gen",
         w # "model" => s[Len(s)] = "model"
  PROVE  Shaped(s \o Tokens(n, w))
<1> DEFINE t == s \o Tokens(n, w)
<1>1. /\ t \in Seq(Writer) /\ Len(t) = Len(s) + n
      /\ \A i \in 1 .. Len(s) : t[i] = s[i]
      /\ \A i \in Len(s) + 1 .. Len(s) + n : t[i] = w
  <2>1. w \in Writer /\ n \in Nat
    BY DEF Writer
  <2> QED
    BY <2>1, Appended
<1> HIDE DEF t
<1>2. Len(s) \in Nat \ {0}
  OBVIOUS
<1>3. ASSUME NEW i \in 2 .. Len(t), t[i] = "model"
      PROVE  t[i - 1] \in {"gen", "model"}
  <2>1. CASE i <= Len(s)
    BY <2>1, <1>1, <1>2, <1>3 DEF Shaped
  <2>2. CASE i = Len(s) + 1
    BY <2>2, <1>1, <1>2, <1>3
  <2>3. CASE i > Len(s) + 1
    BY <2>3, <1>1, <1>2, <1>3
  <2> QED
    BY <2>1, <2>2, <2>3, <1>2
<1>4. ASSUME NEW i \in DOMAIN t, t[i] = "gen"
      PROVE  i \in 1 .. Len(s)
  BY <1>1, <1>2, <1>4
<1>5. ASSUME NEW i \in DOMAIN t, t[i] = "gen", i > GenLen
      PROVE  SubSeq(t, i - GenLen, i) # Tokens(GenLen + 1, "gen")
  <2>1. i \in 1 .. Len(s) /\ Len(s) <= Len(t)
    BY <1>1, <1>2, <1>4, <1>5
  <2> QED
    BY <2>1, <1>1, <1>5, RunBroken
<1>6. ASSUME NEW i \in DOMAIN t, t[i] = "gen", i < Len(t)
      PROVE  t[i + 1] \in {"gen", "model"}
  <2>1. CASE i < Len(s)
    BY <2>1, <1>1, <1>6, <1>4 DEF Shaped
  <2>2. CASE i = Len(s)
    BY <2>2, <1>1, <1>2, <1>6
  <2> QED
    BY <2>1, <2>2, <1>2, <1>4, <1>6
<1> QED
  BY <1>3, <1>5, <1>6 DEF Shaped, t

Extends(s, t) == Len(s) <= Len(t) /\ \A i \in 1 .. Len(s) : t[i] = s[i]

(* The mask of a sequence, by its elements. *)
LEMMA MaskType ==
  ASSUME NEW s \in Seq(Writer)
  PROVE  /\ MaskOf(s) \in Seq(BOOLEAN) /\ Len(MaskOf(s)) = Len(s)
         /\ \A i \in 1 .. Len(s) : MaskOf(s)[i] = (s[i] = "model")
<1>1. DOMAIN s = 1 .. Len(s) /\ Len(s) \in Nat
  OBVIOUS
<1>2. MaskOf(s) = [i \in 1 .. Len(s) |-> s[i] = "model"]
  BY <1>1 DEF MaskOf
<1>3. MaskOf(s) \in [1 .. Len(s) -> BOOLEAN]
  BY <1>2, Zenon
<1>4. MaskOf(s) \in Seq(BOOLEAN) /\ Len(MaskOf(s)) = Len(s)
  BY <1>1, <1>3
<1> QED
  BY <1>2, <1>4

(* What Grow appends to the mask is the mask of what it appends. *)
LEMMA MaskGrows ==
  ASSUME NEW s \in Seq(Writer), NEW t \in Seq(Writer), Extends(s, t)
  PROVE  MaskOf(s) \o [i \in 1 .. Len(t) - Len(s) |-> t[Len(s) + i] = "model"] = MaskOf(t)
<1> DEFINE m == [i \in 1 .. Len(t) - Len(s) |-> t[Len(s) + i] = "model"]
           b == MaskOf(s) \o m
<1>1. Len(t) - Len(s) \in Nat
  BY DEF Extends
<1>2. m \in Seq(BOOLEAN) /\ Len(m) = Len(t) - Len(s)
  BY <1>1
<1>3. \A i \in 1 .. Len(t) - Len(s) : m[i] = (t[Len(s) + i] = "model")
  OBVIOUS
<1> HIDE DEF m
<1>4. /\ MaskOf(s) \in Seq(BOOLEAN) /\ Len(MaskOf(s)) = Len(s)
      /\ MaskOf(t) \in Seq(BOOLEAN) /\ Len(MaskOf(t)) = Len(t)
      /\ \A i \in 1 .. Len(s) : MaskOf(s)[i] = (s[i] = "model")
      /\ \A i \in 1 .. Len(t) : MaskOf(t)[i] = (t[i] = "model")
  BY MaskType
<1>5. b \in Seq(BOOLEAN) /\ Len(b) = Len(t)
  BY <1>1, <1>2, <1>4
<1>6. ASSUME NEW i \in 1 .. Len(t)
      PROVE  b[i] = MaskOf(t)[i]
  <2>1. CASE i <= Len(s)
    <3>1. b[i] = MaskOf(s)[i] /\ t[i] = s[i] /\ i \in 1 .. Len(s)
      BY <2>1, <1>2, <1>4 DEF Extends
    <3> QED
      BY <3>1, <1>4
  <2>2. CASE i > Len(s)
    <3>1. /\ b[i] = m[i - Len(s)] /\ i - Len(s) \in 1 .. Len(t) - Len(s)
          /\ Len(s) + (i - Len(s)) = i
      BY <2>2, <1>2, <1>4
    <3> QED
      BY <3>1, <1>3, <1>4
  <2>3. i <= Len(s) \/ i > Len(s)
    OBVIOUS
  <2> QED
    BY <2>1, <2>2, <2>3, Zenon
<1> HIDE DEF b
<1>7. b = MaskOf(t)
  BY <1>4, <1>5, <1>6, SeqEqual
<1> QED
  BY <1>7 DEF b, m

(* The mask of a part is the part of the mask. *)
LEMMA MaskOfPart ==
  ASSUME NEW s \in Seq(Writer), NEW a \in Nat \ {0}, NEW b \in Nat, b <= Len(s)
  PROVE  /\ SubSeq(s, a, b) \in Seq(Writer)
         /\ SubSeq(MaskOf(s), a, b) = MaskOf(SubSeq(s, a, b))
<1> DEFINE t == SubSeq(s, a, b)
           m == SubSeq(MaskOf(s), a, b)
<1>1. /\ MaskOf(s) \in Seq(BOOLEAN) /\ Len(MaskOf(s)) = Len(s)
      /\ \A i \in 1 .. Len(s) : MaskOf(s)[i] = (s[i] = "model")
  BY MaskType
<1>2. /\ t \in Seq(Writer) /\ Len(t) = IF a <= b THEN b - a + 1 ELSE 0
      /\ \A i \in 1 .. b - a + 1 : t[i] = s[a + i - 1]
  <2>1. \A i \in a .. b : s[i] \in Writer
    OBVIOUS
  <2> QED
    BY <2>1, SubSeqProperties
<1>3. /\ m \in Seq(BOOLEAN) /\ Len(m) = IF a <= b THEN b - a + 1 ELSE 0
      /\ \A i \in 1 .. b - a + 1 : m[i] = MaskOf(s)[a + i - 1]
  <2>1. \A i \in a .. b : MaskOf(s)[i] \in BOOLEAN
    BY <1>1
  <2> QED
    BY <2>1, SubSeqProperties
<1> HIDE DEF t, m
<1>4. /\ MaskOf(t) \in Seq(BOOLEAN) /\ Len(MaskOf(t)) = Len(t)
      /\ \A i \in 1 .. Len(t) : MaskOf(t)[i] = (t[i] = "model")
  BY <1>2, MaskType
<1>5. ASSUME NEW i \in 1 .. Len(m) PROVE m[i] = MaskOf(t)[i]
  <2>1. i \in 1 .. b - a + 1 /\ i \in 1 .. Len(t) /\ a + i - 1 \in 1 .. Len(s)
    BY <1>2, <1>3, <1>5
  <2> QED
    BY <2>1, <1>1, <1>2, <1>3, <1>4
<1>6. m = MaskOf(t)
  <2>1. Len(m) = Len(MaskOf(t))
    BY <1>2, <1>3, <1>4
  <2> QED
    BY <2>1, <1>3, <1>4, <1>5, SeqEqual
<1> QED
  BY <1>2, <1>6 DEF t, m

-----------------------------------------------------------------------------
(* The invariant of a request.                                             *)

\* The conversation and its mask.
Text(q) ==
  /\ ids[q] \in Seq(Writer) /\ Shaped(ids[q])
  /\ mask[q] = MaskOf(ids[q])
  /\ pc[q] \in {"loop", "left"} => Closed(ids[q])

\* Who has had the last word.
LastWord(q) ==
  /\ pc[q] = "loop" /\ state[q] \in {"tool_calling", "interacting"} => EndsAs(ids[q], "model")
  /\ pc[q] = "loop" /\ Spent(q) => EndsAs(ids[q], "model")
  /\ pc[q] = "left" => \/ EndsAs(ids[q], "model")
                       \/ Len(ids[q]) + 1 >= MaxModelLen

\* The tools and their instances.
Kept(q) ==
  \A t \in kit[q].tools :
    /\ pc[q] = "returned" => inst[q][t] = "released"
    /\ state[q] \in {"running", "tool_calling", "interacting"} /\ pc[q] \in {"loop", "left"}
         => inst[q][t] = "live"

\* What comes of it.
Outcome(q) ==
  /\ pc[q] = "left" => reason[q] \in {"stop", "length", "claimed"}
  /\ pc[q] = "returned" => Accepted(q)
  /\ error[q] = "reason" => pc[q] = "raised" /\ reason[q] = "claimed"
  /\ response[q].mask = MaskOf(response[q].ids)

Req(q) == Text(q) /\ LastWord(q) /\ Kept(q) /\ Outcome(q)

RanksInv ==
  /\ rank[0] \in {"barrier", "returned"} => \A q \in Request : pc[q] = "returned"
  /\ \A r \in Rank \ {0} : rank[r] # "raised"

IInv == TypeOK /\ RanksInv /\ \A q \in Request : Req(q)

Same(p) ==
  /\ pc'[p] = pc[p] /\ state'[p] = state[p] /\ ids'[p] = ids[p] /\ mask'[p] = mask[p]
  /\ turns'[p] = turns[p] /\ reason'[p] = reason[p] /\ inst'[p] = inst[p]
  /\ response'[p] = response[p] /\ error'[p] = error[p]
  /\ UNCHANGED config

(* A step of a request concerns no other one. *)
Served(q) ==
  /\ TypeOK' /\ Req(q)'
  /\ \A p \in Request \ {q} : Same(p)
  /\ rank' = rank /\ rank[0] = "start"

(* A request that no step touches keeps its invariant. *)
LEMMA OthersKeep ==
  ASSUME NEW p \in Request, Req(p), Same(p)
  PROVE  Req(p)'
<1>1. Text(p)'
  BY DEF Req, Same, Text
<1>2. LastWord(p)'
  BY DEF Req, Same, LastWord, Spent
<1>3. Kept(p)'
  BY DEF Req, Same, Kept, config
<1>4. Outcome(p)'
  BY DEF Req, Same, Outcome, Accepted, config
<1> QED
  BY <1>1, <1>2, <1>3, <1>4 DEF Req

(* A step that serves one request keeps the invariant of all. *)
LEMMA ServedKeeps ==
  ASSUME IInv, NEW q \in Request, Served(q)
  PROVE  IInv'
<1>1. \A p \in Request : Req(p)'
  BY OthersKeep DEF IInv, Served
<1>2. RanksInv'
  BY DEF IInv, Served, RanksInv
<1> QED
  BY <1>1, <1>2 DEF IInv, Served

(* The text after a step that appends to it. *)
LEMMA Grown ==
  ASSUME TypeOK, NEW q \in Request, Text(q),
         NEW s \in Seq(Writer), Extends(ids[q], s), Grow(q, s)
  PROVE  /\ ids' = [ids EXCEPT ![q] = s] /\ ids'[q] = s
         /\ mask' = [mask EXCEPT ![q] = MaskOf(s)] /\ mask'[q] = MaskOf(s)
         /\ ids' \in [Request -> Seq(Writer)] /\ mask' \in [Request -> Seq(BOOLEAN)]
<1>1. mask[q] \o [i \in 1 .. Len(s) - Len(ids[q]) |-> s[Len(ids[q]) + i] = "model"] = MaskOf(s)
  BY MaskGrows DEF Text
<1>2. /\ ids' = [ids EXCEPT ![q] = s]
      /\ mask' = [mask EXCEPT ![q] = MaskOf(s)]
  BY <1>1 DEF Grow
<1>3. MaskOf(s) \in Seq(BOOLEAN)
  BY MaskType
<1> QED
  BY <1>2, <1>3 DEF TypeOK

(* _handle_pending_state. *)
LEMMA Created ==
  ASSUME IInv, NEW q \in Request, Create(q)
  PROVE  Served(q)
<1> USE DEF IInv, Req
<1>1. TypeOK'
  BY DEF TypeOK, Create, In, GoTo, config
<1>2. Text(q)' /\ Outcome(q)'
  BY DEF Text, Outcome, Accepted, Create, In, GoTo, config
<1>3. LastWord(q)'
  BY DEF LastWord, Spent, Create, In, GoTo, TypeOK
<1>4. Kept(q)'
  BY DEF Kept, Create, In, GoTo, TypeOK, config
<1>5. \A p \in Request \ {q} : Same(p)
  BY DEF Same, Create, In, GoTo, TypeOK, config
<1>6. rank' = rank /\ rank[0] = "start"
  BY DEF Create, In, Awaiting
<1> QED
  BY <1>1, <1>2, <1>3, <1>4, <1>5, <1>6 DEF Served

(* The prompt that the engine is sent. *)
LEMMA Asked ==
  ASSUME IInv, NEW q \in Request, pc[q] = "loop"
  PROVE  LET s == Prompted(ids[q])
         IN /\ s \in Seq(Writer) /\ Shaped(s) /\ EndsWithPrompt(s) /\ Closed(s)
            /\ EndsAs(s, "gen") /\ Extends(ids[q], s)
            /\ Prompted(s) = s
<1> DEFINE s == Prompted(ids[q])
<1>1. /\ ids[q] \in Seq(Writer) /\ Shaped(ids[q]) /\ Closed(ids[q])
  BY DEF IInv, Req, Text
<1>2. /\ s \in Seq(Writer) /\ Shaped(s) /\ EndsWithPrompt(s)
      /\ Len(ids[q]) <= Len(s)
      /\ \A i \in 1 .. Len(ids[q]) : s[i] = ids[q][i]
  BY <1>1, PromptShaped
<1>3. Prompted(s) = s
  BY <1>2 DEF Prompted
<1> HIDE DEF s
<1>4. EndsAs(s, "gen") /\ Closed(s)
  <2>1. Len(s) \in Nat /\ Len(s) >= GenLen
        /\ \A j \in Len(s) - GenLen + 1 .. Len(s) : s[j] = "gen"
    BY <1>2, PromptAtEnd
  <2>2. s # <<>> /\ s[Len(s)] = "gen"
    BY <2>1, LengthsAreNatural
  <2> QED
    BY <1>2, <2>2 DEF EndsAs, Closed
<1> QED
  BY <1>2, <1>3, <1>4 DEF s, Extends

(* The exit of a prompt that has no room left. *)
LEMMA RanOutOfRoom ==
  ASSUME IInv, NEW q \in Request, OutOfRoom(q)
  PROVE  Served(q)
<1> USE DEF IInv, Req
<1> DEFINE s == Prompted(ids[q])
<1>1. /\ s \in Seq(Writer) /\ Shaped(s) /\ Closed(s) /\ Extends(ids[q], s)
  BY Asked DEF OutOfRoom, In
<1>2. Len(s) + 1 >= MaxModelLen /\ Grow(q, s)
  BY DEF OutOfRoom
<1> HIDE DEF s
<1>3. /\ ids' = [ids EXCEPT ![q] = s] /\ ids'[q] = s
      /\ mask' = [mask EXCEPT ![q] = MaskOf(s)] /\ mask'[q] = MaskOf(s)
      /\ ids' \in [Request -> Seq(Writer)] /\ mask' \in [Request -> Seq(BOOLEAN)]
  BY <1>1, <1>2, Grown
<1>4. /\ pc' = [pc EXCEPT ![q] = "left"] /\ pc'[q] = "left"
      /\ reason' = [reason EXCEPT ![q] = "length"] /\ reason'[q] = "length"
      /\ UNCHANGED <<config, state, calls, turns, user_turns, inst, response, error, rank>>
      /\ pc[q] = "loop" /\ state[q] = "running" /\ rank[0] = "start"
  BY DEF OutOfRoom, Break, TypeOK, In, Awaiting
<1>5. TypeOK'
  BY <1>3, <1>4 DEF TypeOK, config
<1>6. Text(q)'
  BY <1>1, <1>3 DEF Text
<1>7. LastWord(q)'
  BY <1>2, <1>3, <1>4 DEF LastWord
<1>8. Kept(q)' /\ Outcome(q)'
  BY <1>4 DEF Kept, Outcome, config
<1>9. \A p \in Request \ {q} : Same(p)
  BY <1>3, <1>4 DEF Same, TypeOK
<1> QED
  BY <1>4, <1>5, <1>6, <1>7, <1>8, <1>9 DEF Served

(* current_turns += 1. *)
LEMMA Counted ==
  ASSUME NEW f \in [Request -> Nat], NEW q \in Request
  PROVE  [f EXCEPT ![q] = f[q] + 1] \in [Request -> Nat]
<1>1. f[q] + 1 \in Nat
  OBVIOUS
<1> QED
  BY <1>1

(* What all answers have in common. *)
LEMMA Answered ==
  ASSUME IInv, NEW q \in Request, NEW n \in Nat, Answer(q, n)
  PROVE  \E s \in Seq(Writer) :
           /\ Shaped(s) /\ Closed(s) /\ EndsAs(s, "model")
           /\ ids' = [ids EXCEPT ![q] = s]
           /\ mask' = [mask EXCEPT ![q] = MaskOf(s)]
           /\ ids' \in [Request -> Seq(Writer)] /\ mask' \in [Request -> Seq(BOOLEAN)]
<1> DEFINE a == Prompted(ids[q])
           s == a \o Tokens(n + EndLen, "model")
<1>1. /\ a \in Seq(Writer) /\ Shaped(a) /\ EndsAs(a, "gen") /\ Extends(ids[q], a)
      /\ Prompted(a) = a
  BY Asked DEF Answer, In
<1>2. Grow(q, s)
  BY <1>1 DEF Answer
<1> HIDE DEF a
<1>3. n + EndLen \in Nat \ {0}
  BY LengthsAreNatural
<1>4. /\ s \in Seq(Writer) /\ Len(s) = Len(a) + (n + EndLen)
      /\ \A i \in 1 .. Len(a) : s[i] = a[i]
      /\ \A i \in Len(a) + 1 .. Len(a) + (n + EndLen) : s[i] = "model"
  <2>1. "model" \in Writer
    BY DEF Writer
  <2> QED
    BY <1>1, <1>3, <2>1, Appended
<1>5. Shaped(s)
  BY <1>1, <1>3, MoreShaped DEF EndsAs
<1> HIDE DEF s
<1>6. Len(s) \in Len(a) + 1 .. Len(a) + (n + EndLen) /\ s # <<>>
  BY <1>1, <1>3, <1>4
<1>7. EndsAs(s, "model") /\ Closed(s)
  BY <1>4, <1>6 DEF EndsAs, Closed
<1>8. Extends(ids[q], s)
  <2>1. ids[q] \in Seq(Writer)
    BY DEF IInv, TypeOK
  <2> QED
    BY <1>1, <1>4, <1>6, <2>1 DEF Extends
<1> QED
  BY <1>2, <1>4, <1>5, <1>7, <1>8, Grown DEF IInv, Req

(* Whatever the answer is taken for. *)
LEMMA Replied ==
  ASSUME IInv, NEW q \in Request, NEW n \in Nat, Answer(q, n),
         NEW at \in {"loop", "left"}, pc' = [pc EXCEPT ![q] = at],
         NEW st \in {"running", "tool_calling", "interacting", "completed"},
         state' = [state EXCEPT ![q] = st],
         NEW why \in {"stop", "length", "tool_call", "claimed"},
         reason' = [reason EXCEPT ![q] = why],
         at = "left" => why \in {"stop", "length", "claimed"},
         calls' \in [Request -> SUBSET (Tool \cup {"unknown"})]
  PROVE  Served(q)
<1> USE DEF IInv, Req
<1>1. PICK s \in Seq(Writer) :
        /\ Shaped(s) /\ Closed(s) /\ EndsAs(s, "model")
        /\ ids' = [ids EXCEPT ![q] = s]
        /\ mask' = [mask EXCEPT ![q] = MaskOf(s)]
        /\ ids' \in [Request -> Seq(Writer)] /\ mask' \in [Request -> Seq(BOOLEAN)]
  BY Answered
<1>2. ids'[q] = s /\ mask'[q] = MaskOf(s)
  BY <1>1 DEF TypeOK
<1>3. /\ pc'[q] = at /\ state'[q] = st /\ reason'[q] = why
      /\ pc[q] = "loop" /\ state[q] = "running" /\ rank[0] = "start"
      /\ turns' = [turns EXCEPT ![q] = @ + 1]
      /\ UNCHANGED <<config, user_turns, inst, response, error, rank>>
  BY DEF TypeOK, Answer, In, Awaiting
<1>4. TypeOK'
  <2>1. turns' \in [Request -> Nat]
    BY <1>3, Counted DEF TypeOK
  <2>2. /\ pc' \in [Request -> {"loop", "left", "returned", "raised"}]
        /\ reason' \in [Request -> {"none", "stop", "length", "tool_call", "claimed"}]
    BY DEF TypeOK
  <2>3. state' \in [Request -> {"pending", "running", "tool_calling", "interacting",
                                "completed"}]
    BY DEF TypeOK
  <2> QED
    BY <1>1, <1>3, <2>1, <2>2, <2>3 DEF TypeOK, config
<1>5. Text(q)'
  BY <1>1, <1>2 DEF Text
<1>6. LastWord(q)'
  BY <1>1, <1>2 DEF LastWord
<1>7. Kept(q)' /\ Outcome(q)'
  BY <1>3 DEF Kept, Outcome, config
<1>8. \A p \in Request \ {q} : Same(p)
  BY <1>1, <1>3 DEF Same, TypeOK
<1> QED
  BY <1>3, <1>4, <1>5, <1>6, <1>7, <1>8 DEF Served

(* Every way to take an answer. *)
LEMMA RepliedInSomeWay ==
  ASSUME IInv, NEW q \in Request,
         \/ AnswerCut(q)
         \/ \E n \in AnswerLens :
              \/ AnswerWithBadCalls(q, n)
              \/ \E why \in {"stop", "claimed"} : PlainAnswer(q, n, why)
              \/ \E names \in SUBSET (kit[q].tools \cup {"unknown"}) \ {{}} :
                   AnswerWithCalls(q, n, names)
  PROVE  Served(q)
<1> USE DEF IInv
<1>0. /\ pc[q] = "loop" /\ state[q] = "running"
      /\ Len(Prompted(ids[q])) + 1 < MaxModelLen
  BY DEF AnswerCut, AnswerWithBadCalls, PlainAnswer, AnswerWithCalls, Answer, In
<1>1. pc = [pc EXCEPT ![q] = "loop"] /\ state = [state EXCEPT ![q] = "running"]
  BY <1>0 DEF TypeOK
<1>2. CASE AnswerCut(q)
  <2> DEFINE n == MaxNewTokens(Prompted(Prompted(ids[q])))
  <2>1. n \in Nat
    <3>1. /\ Prompted(ids[q]) \in Seq(Writer)
          /\ Prompted(Prompted(ids[q])) = Prompted(ids[q])
      BY <1>0, Asked
    <3> QED
      BY <1>0, <3>1, LengthsAreNatural DEF MaxNewTokens, Smaller
  <2>2. Answer(q, n)
    BY <1>2 DEF AnswerCut
  <2> HIDE DEF n
  <2>3. /\ pc' = [pc EXCEPT ![q] = "left"] /\ reason' = [reason EXCEPT ![q] = "length"]
        /\ state' = [state EXCEPT ![q] = "running"]
        /\ calls' \in [Request -> SUBSET (Tool \cup {"unknown"})]
    BY <1>1, <1>2 DEF AnswerCut, Break, TypeOK
  <2> QED
    BY <2>1, <2>2, <2>3, Replied
<1>3. ASSUME NEW n \in AnswerLens, AnswerWithBadCalls(q, n)
      PROVE  Served(q)
  <2>1. n \in Nat
    BY RolloutAssumption
  <2>2. /\ pc' = [pc EXCEPT ![q] = "left"] /\ reason' = [reason EXCEPT ![q] = "stop"]
        /\ state' = [state EXCEPT ![q] = "completed"]
        /\ calls' \in [Request -> SUBSET (Tool \cup {"unknown"})]
        /\ Answer(q, n)
    BY <1>3 DEF AnswerWithBadCalls, Break, TypeOK
  <2> QED
    BY <2>1, <2>2, Replied
<1>4. ASSUME NEW n \in AnswerLens, NEW why \in {"stop", "claimed"},
             PlainAnswer(q, n, why)
      PROVE  Served(q)
  <2>1. n \in Nat
    BY RolloutAssumption
  <2>2. Answer(q, n) /\ calls' \in [Request -> SUBSET (Tool \cup {"unknown"})]
    BY <1>4 DEF PlainAnswer, TypeOK
  <2>3. CASE Interacts(q)
    <3>1. /\ pc' = [pc EXCEPT ![q] = "loop"] /\ reason' = [reason EXCEPT ![q] = why]
          /\ state' = [state EXCEPT ![q] = "interacting"]
      BY <1>1, <1>4, <2>3 DEF PlainAnswer
    <3> QED
      BY <2>1, <2>2, <3>1, Replied
  <2>4. CASE ~Interacts(q)
    <3>1. /\ pc' = [pc EXCEPT ![q] = "left"] /\ reason' = [reason EXCEPT ![q] = why]
          /\ state' = [state EXCEPT ![q] = "running"]
      BY <1>1, <1>4, <2>4 DEF PlainAnswer, Break
    <3> QED
      BY <2>1, <2>2, <3>1, Replied
  <2> QED
    BY <2>3, <2>4
<1>5. ASSUME NEW n \in AnswerLens,
             NEW names \in SUBSET (kit[q].tools \cup {"unknown"}) \ {{}},
             AnswerWithCalls(q, n, names)
      PROVE  Served(q)
  <2>1. n \in Nat
    BY RolloutAssumption
  <2>2. kit[q].tools \subseteq Tool
    BY DEF TypeOK
  <2>3. /\ pc' = [pc EXCEPT ![q] = "loop"] /\ reason' = [reason EXCEPT ![q] = "tool_call"]
        /\ state' = [state EXCEPT ![q] = "tool_calling"]
        /\ Answer(q, n)
    BY <1>1, <1>5 DEF AnswerWithCalls
  <2>4. calls' \in [Request -> SUBSET (Tool \cup {"unknown"})]
    BY <1>5, <2>2 DEF AnswerWithCalls, TypeOK
  <2> QED
    BY <2>1, <2>3, <2>4, Replied
<1> QED
  BY <1>2, <1>3, <1>4, <1>5

(* What a tool or a user says behind the model's last word. *)
LEMMA ToldText ==
  ASSUME IInv, NEW q \in Request, EndsAs(ids[q], "model"),
         NEW n \in ToldLens, NEW who \in {"user", "tool"},
         Grow(q, ids[q] \o Tokens(n, who))
  PROVE  \E s \in Seq(Writer) :
           /\ Shaped(s) /\ Closed(s) /\ Len(s) = Len(ids[q]) + n
           /\ ids' = [ids EXCEPT ![q] = s]
           /\ mask' = [mask EXCEPT ![q] = MaskOf(s)]
           /\ ids' \in [Request -> Seq(Writer)] /\ mask' \in [Request -> Seq(BOOLEAN)]
<1> DEFINE s == ids[q] \o Tokens(n, who)
<1>0. n \in Nat \ {0} /\ who \in Writer
  BY RolloutAssumption DEF Writer
<1>1. ids[q] \in Seq(Writer) /\ Shaped(ids[q])
  BY DEF IInv, Req, Text
<1>2. /\ s \in Seq(Writer) /\ Len(s) = Len(ids[q]) + n
      /\ \A i \in 1 .. Len(ids[q]) : s[i] = ids[q][i]
      /\ \A i \in Len(ids[q]) + 1 .. Len(ids[q]) + n : s[i] = who
  BY <1>0, <1>1, Appended
<1>3. Shaped(s)
  BY <1>0, <1>1, MoreShaped DEF EndsAs
<1> HIDE DEF s
<1>4. Closed(s)
  <2>1. Len(s) \in Len(ids[q]) + 1 .. Len(ids[q]) + n /\ s # <<>>
    BY <1>0, <1>1, <1>2
  <2> QED
    BY <1>2, <2>1 DEF Closed
<1>5. Extends(ids[q], s)
  BY <1>0, <1>1, <1>2 DEF Extends
<1>6. Grow(q, s)
  BY DEF s
<1> QED
  BY <1>2, <1>3, <1>4, <1>5, <1>6, Grown DEF IInv, Req

(* The tools have run, or a name was not found. *)
LEMMA ToolsAnswered ==
  ASSUME IInv, NEW q \in Request, NEW n \in ToldLens, Execute(q, n)
  PROVE  Served(q)
<1> USE DEF IInv, Req
<1>1. /\ pc[q] = "loop" /\ state[q] = "tool_calling" /\ rank[0] = "start" /\ ~Spent(q)
      /\ UNCHANGED <<config, calls, turns, user_turns, inst, response, rank>>
      /\ EndsAs(ids[q], "model")
  BY DEF Execute, In, Awaiting, LastWord
<1>2. CASE calls[q] \subseteq kit[q].tools
  <2>0. Told(q, n, "tool") /\ error' = error
    BY <1>2 DEF Execute
  <2>1. PICK s \in Seq(Writer) :
           /\ Shaped(s) /\ Closed(s) /\ Len(s) = Len(ids[q]) + n
           /\ ids' = [ids EXCEPT ![q] = s]
           /\ mask' = [mask EXCEPT ![q] = MaskOf(s)]
           /\ ids' \in [Request -> Seq(Writer)] /\ mask' \in [Request -> Seq(BOOLEAN)]
    <3>1. Grow(q, ids[q] \o Tokens(n, "tool"))
      BY <2>0 DEF Told
    <3> QED
      BY <1>1, <3>1, ToldText
  <2>2. ids'[q] = s /\ mask'[q] = MaskOf(s)
    BY <2>1 DEF TypeOK
  <2>3. state' = [state EXCEPT ![q] = "running"] /\ pc' = pc /\ reason' = reason
    BY <2>0 DEF Told, GoTo
  <2>4. TypeOK'
    <3>1. /\ pc' \in [Request -> {"loop", "left", "returned", "raised"}]
          /\ reason' \in [Request -> {"none", "stop", "length", "tool_call", "claimed"}]
      BY <2>3 DEF TypeOK
    <3>2. state' \in [Request -> {"pending", "running", "tool_calling", "interacting",
                                  "completed"}]
      BY <2>3 DEF TypeOK
    <3> QED
      BY <1>1, <2>0, <2>1, <3>1, <3>2 DEF TypeOK, config
  <2>5. Text(q)'
    BY <2>1, <2>2 DEF Text
  <2>6. LastWord(q)'
    <3>1. pc'[q] = "loop" /\ state'[q] = "running" /\ turns'[q] = turns[q]
      BY <1>1, <2>3 DEF TypeOK
    <3> QED
      BY <3>1, <1>1 DEF LastWord, Spent
  <2>7. Kept(q)'
    BY <1>1, <2>3 DEF Kept, TypeOK, config
  <2>8. Outcome(q)'
    BY <1>1, <2>0, <2>3 DEF Outcome, TypeOK, config
  <2>9. \A p \in Request \ {q} : Same(p)
    BY <1>1, <2>0, <2>1, <2>3 DEF Same, TypeOK
  <2> QED
    BY <1>1, <2>4, <2>5, <2>6, <2>7, <2>8, <2>9 DEF Served
<1>3. CASE ~(calls[q] \subseteq kit[q].tools)
  <2>1. /\ pc' = [pc EXCEPT ![q] = "raised"] /\ error' = [error EXCEPT ![q] = "unknown tool"]
        /\ UNCHANGED <<ids, mask, state, reason>>
    BY <1>3 DEF Execute, Raise
  <2>2. TypeOK'
    BY <1>1, <2>1 DEF TypeOK, config
  <2>3. pc'[q] = "raised" /\ error'[q] = "unknown tool"
    BY <2>1 DEF TypeOK
  <2>4. Text(q)' /\ LastWord(q)'
    BY <1>1, <2>1, <2>3 DEF Text, LastWord
  <2>5. Kept(q)' /\ Outcome(q)'
    BY <1>1, <2>1, <2>3 DEF Kept, Outcome
  <2>6. \A p \in Request \ {q} : Same(p)
    BY <1>1, <2>1 DEF Same, TypeOK
  <2> QED
    BY <1>1, <2>2, <2>4, <2>5, <2>6 DEF Served
<1> QED
  BY <1>2, <1>3

(* The interaction has answered. *)
LEMMA UserAnswered ==
  ASSUME IInv, NEW q \in Request, NEW n \in ToldLens, UserTurn(q, n)
  PROVE  Served(q)
<1> USE DEF IInv, Req
<1>1. /\ pc[q] = "loop" /\ state[q] = "interacting" /\ rank[0] = "start" /\ ~Spent(q)
      /\ UNCHANGED <<config, calls, turns, inst, response, error, rank>>
      /\ user_turns' = [user_turns EXCEPT ![q] = @ + 1]
      /\ EndsAs(ids[q], "model")
  BY DEF UserTurn, In, Awaiting, LastWord
<1>2. PICK s \in Seq(Writer) :
         /\ Shaped(s) /\ Closed(s) /\ Len(s) = Len(ids[q]) + n
         /\ ids' = [ids EXCEPT ![q] = s]
         /\ mask' = [mask EXCEPT ![q] = MaskOf(s)]
         /\ ids' \in [Request -> Seq(Writer)] /\ mask' \in [Request -> Seq(BOOLEAN)]
  <2>1. Grow(q, ids[q] \o Tokens(n, "user"))
    BY DEF UserTurn, Told
  <2> QED
    BY <1>1, <2>1, ToldText
<1>3. ids'[q] = s /\ mask'[q] = MaskOf(s)
  BY <1>2 DEF TypeOK
<1>4. state' = [state EXCEPT ![q] = "running"] /\ pc' = pc /\ reason' = reason
  BY DEF UserTurn, Told, GoTo
<1>5. TypeOK'
  <2>1. /\ pc' \in [Request -> {"loop", "left", "returned", "raised"}]
        /\ reason' \in [Request -> {"none", "stop", "length", "tool_call", "claimed"}]
    BY <1>4 DEF TypeOK
  <2>2. state' \in [Request -> {"pending", "running", "tool_calling", "interacting",
                                "completed"}]
    BY <1>4 DEF TypeOK
  <2>3. user_turns' \in [Request -> Nat]
    BY <1>1, Counted DEF TypeOK
  <2> QED
    BY <1>1, <1>2, <2>1, <2>2, <2>3 DEF TypeOK, config
<1>6. Text(q)'
  BY <1>2, <1>3 DEF Text
<1>7. LastWord(q)'
  <2>1. pc'[q] = "loop" /\ state'[q] = "running" /\ turns'[q] = turns[q]
    BY <1>1, <1>4 DEF TypeOK
  <2> QED
    BY <2>1, <1>1 DEF LastWord, Spent
<1>8. Kept(q)'
  BY <1>1, <1>4 DEF Kept, TypeOK, config
<1>9. Outcome(q)'
  BY <1>1, <1>4 DEF Outcome, TypeOK, config
<1>10. \A p \in Request \ {q} : Same(p)
  BY <1>1, <1>2, <1>4 DEF Same, TypeOK
<1> QED
  BY <1>1, <1>5, <1>6, <1>7, <1>8, <1>9, <1>10 DEF Served

(* The interaction has ended the conversation. *)
LEMMA UserLeft ==
  ASSUME IInv, NEW q \in Request, UserLeaves(q)
  PROVE  Served(q)
<1> USE DEF IInv, Req
<1>1. /\ pc[q] = "loop" /\ state[q] = "interacting" /\ rank[0] = "start"
      /\ pc' = [pc EXCEPT ![q] = "left"] /\ reason' = [reason EXCEPT ![q] = "stop"]
      /\ state' = [state EXCEPT ![q] = "completed"]
      /\ user_turns' = [user_turns EXCEPT ![q] = @ + 1]
      /\ UNCHANGED <<config, ids, mask, calls, turns, inst, response, error, rank>>
  BY DEF UserLeaves, In, Awaiting, Break
<1>2. pc'[q] = "left" /\ reason'[q] = "stop" /\ state'[q] = "completed"
  BY <1>1 DEF TypeOK
<1>3. TypeOK'
  <2>1. user_turns' \in [Request -> Nat]
    BY <1>1, Counted DEF TypeOK
  <2> QED
    BY <1>1, <2>1 DEF TypeOK, config
<1>4. Text(q)' /\ LastWord(q)'
  BY <1>1, <1>2 DEF Text, LastWord
<1>5. Kept(q)' /\ Outcome(q)'
  BY <1>1, <1>2 DEF Kept, Outcome, config
<1>6. \A p \in Request \ {q} : Same(p)
  BY <1>1 DEF Same, TypeOK
<1> QED
  BY <1>1, <1>3, <1>4, <1>5, <1>6 DEF Served

-----------------------------------------------------------------------------
(* The end of a request.                                                   *)

(* What finalize keeps of a conversation. *)
LEMMA FinalText ==
  ASSUME NEW s \in Seq(Writer), Shaped(s)
  PROVE  LET t == Truncated(Stripped(s))
         IN /\ t \in Seq(Writer) /\ Shaped(t) /\ Len(t) <= MaxModelLen
            /\ Truncated(SubSeq(MaskOf(s), 1, Len(Stripped(s)))) = MaskOf(t)
<1> DEFINE u == Stripped(s)
           k == IF EndsWithPrompt(s) THEN Len(s) - GenLen ELSE Len(s)
<1>1. k \in 0 .. Len(s)
  BY PromptAtEnd, LengthsAreNatural
<1>2. u = SubSeq(s, 1, k)
  <2>1. SubSeq(s, 1, Len(s)) = s
    BY SubSeqFull
  <2> QED
    BY <2>1 DEF Stripped
<1> HIDE DEF k
<1>3. u \in Seq(Writer) /\ Len(u) = k /\ Shaped(u)
  BY <1>1, <1>2, PrefixShaped
<1>4. SubSeq(MaskOf(s), 1, Len(u)) = MaskOf(u)
  BY <1>1, <1>2, <1>3, MaskOfPart
<1> HIDE DEF u
<1> DEFINE j == Smaller(Len(u), Smaller(MaxModelLen, PromptLength + ResponseLength))
<1>5. j \in 0 .. Len(u) /\ j <= MaxModelLen /\ j \in Nat
  BY <1>3, LengthsAreNatural DEF Smaller
<1>6. Truncated(u) = SubSeq(u, 1, j)
  BY DEF Truncated
<1>7. Truncated(MaskOf(u)) = SubSeq(MaskOf(u), 1, j)
  BY <1>3, MaskType DEF Truncated
<1> HIDE DEF j
<1>8. Truncated(u) \in Seq(Writer) /\ Shaped(Truncated(u)) /\ Len(Truncated(u)) <= MaxModelLen
  BY <1>3, <1>5, <1>6, PrefixShaped
<1>9. Truncated(MaskOf(u)) = MaskOf(Truncated(u))
  BY <1>3, <1>5, <1>6, <1>7, MaskOfPart
<1> QED
  BY <1>4, <1>8, <1>9 DEF u

(* The response that truncate_output_ids cuts. *)
LEMMA FinalResponse ==
  ASSUME NEW q, prompt[q] \in Nat, NEW s \in Seq(Writer)
  PROVE  /\ ResponseOf(q, s) \in Seq(Writer)
         /\ ResponseOf(q, MaskOf(s)) = MaskOf(ResponseOf(q, s))
         /\ ResponseOf(q, MaskOf(s)) \in Seq(BOOLEAN)
<1> DEFINE a == prompt[q] + 1
           b == Smaller(Len(s), prompt[q] + ResponseLength)
<1>1. a \in Nat \ {0} /\ b \in Nat /\ b <= Len(s)
  BY LengthsAreNatural DEF Smaller
<1>2. ResponseOf(q, s) = SubSeq(s, a, b)
  BY DEF ResponseOf
<1>3. ResponseOf(q, MaskOf(s)) = SubSeq(MaskOf(s), a, b)
  BY MaskType DEF ResponseOf
<1> HIDE DEF a, b
<1>4. SubSeq(s, a, b) \in Seq(Writer) /\ SubSeq(MaskOf(s), a, b) = MaskOf(SubSeq(s, a, b))
  BY <1>1, MaskOfPart
<1>5. MaskOf(SubSeq(s, a, b)) \in Seq(BOOLEAN)
  BY <1>4, MaskType
<1> QED
  BY <1>2, <1>3, <1>4, <1>5

(* finalize, whatever the loop has left. *)
LEMMA Finalized ==
  ASSUME IInv, NEW q \in Request, Finalize(q)
  PROVE  Served(q)
<1> USE DEF IInv, Req
<1>1. /\ pc[q] \in {"loop", "left"} /\ rank[0] = "start"
      /\ inst' = [inst EXCEPT ![q] = Released(q)]
      /\ state' = [state EXCEPT ![q] = "completed"]
      /\ reason' = [reason EXCEPT ![q] = FinishReason(q)]
      /\ UNCHANGED <<config, calls, turns, user_turns, rank>>
  BY DEF Finalize, Left, Awaiting
<1>2. FinishReason(q) \in {"stop", "length", "claimed"}
  BY DEF Finalize, Left, FinishReason, Outcome
<1>3. /\ inst'[q] = Released(q) /\ state'[q] = "completed"
      /\ kit[q].tools \subseteq Tool
      /\ \A t \in kit[q].tools : inst'[q][t] = "released"
  BY <1>1 DEF TypeOK, Released
<1>4. /\ inst' \in [Request -> [Tool -> {"none", "live", "released"}]]
      /\ state' \in [Request -> {"pending", "running", "tool_calling", "interacting",
                                 "completed"}]
      /\ reason' \in [Request -> {"none", "stop", "length", "tool_call", "claimed"}]
  <2>1. Released(q) \in [Tool -> {"none", "live", "released"}]
    <3>1. inst[q] \in [Tool -> {"none", "live", "released"}]
      BY DEF TypeOK
    <3> QED
      BY <3>1 DEF Released
  <2> QED
    BY <1>1, <1>2, <2>1 DEF TypeOK
<1>5. CASE checked \/ FinishReason(q) = "claimed"
  <2> DEFINE why == IF checked THEN "diffs" ELSE "reason"
  <2>1. /\ pc' = [pc EXCEPT ![q] = "raised"] /\ error' = [error EXCEPT ![q] = why]
        /\ why = "reason" => FinishReason(q) = "claimed"
        /\ UNCHANGED <<ids, mask, response>>
    BY <1>5 DEF Finalize, Raise
  <2>2. TypeOK'
    BY <1>1, <1>4, <2>1 DEF TypeOK, config
  <2>3. pc'[q] = "raised" /\ error'[q] = why /\ reason'[q] = FinishReason(q)
    BY <1>1, <2>1 DEF TypeOK
  <2>4. Text(q)' /\ LastWord(q)'
    BY <2>1, <2>3 DEF Text, LastWord
  <2>5. Kept(q)' /\ Outcome(q)'
    BY <1>1, <2>1, <2>3 DEF Kept, Outcome, config
  <2>6. \A p \in Request \ {q} : Same(p)
    BY <1>1, <2>1 DEF Same, TypeOK
  <2> QED
    BY <1>1, <2>2, <2>4, <2>5, <2>6 DEF Served
<1>6. CASE ~(checked \/ FinishReason(q) = "claimed")
  <2> DEFINE t == Truncated(Stripped(ids[q]))
             a == ResponseOf(q, t)
  <2>1. /\ ids' = [ids EXCEPT ![q] = t]
        /\ mask' = [mask EXCEPT ![q] = FinalMask(q)]
        /\ response' = [response EXCEPT ![q] = [ids |-> a, mask |-> ResponseOf(q, FinalMask(q))]]
        /\ pc' = [pc EXCEPT ![q] = "returned"] /\ error' = error
    BY <1>2, <1>6 DEF Finalize
  <2>2. /\ t \in Seq(Writer) /\ Shaped(t) /\ Len(t) <= MaxModelLen
        /\ FinalMask(q) = MaskOf(t)
    BY FinalText DEF Text, FinalMask
  <2> HIDE DEF t
  <2>3. /\ a \in Seq(Writer) /\ MaskOf(a) \in Seq(BOOLEAN)
        /\ ResponseOf(q, FinalMask(q)) = MaskOf(a)
    <3>1. prompt[q] \in Nat
      BY DEF TypeOK
    <3> QED
      BY <2>2, <3>1, FinalResponse, MaskType
  <2> HIDE DEF a
  <2>4. /\ ids'[q] = t /\ mask'[q] = MaskOf(t) /\ pc'[q] = "returned"
        /\ response'[q] = [ids |-> a, mask |-> MaskOf(a)]
    BY <2>1, <2>2, <2>3 DEF TypeOK
  <2>5. TypeOK'
    <3>1. MaskOf(t) \in Seq(BOOLEAN)
      BY <2>2, MaskType
    <3>2. /\ ids' \in [Request -> Seq(Writer)] /\ mask' \in [Request -> Seq(BOOLEAN)]
          /\ pc' \in [Request -> {"loop", "left", "returned", "raised"}]
      BY <2>1, <2>2, <3>1 DEF TypeOK
    <3>3. response' \in [Request -> [ids : Seq(Writer), mask : Seq(BOOLEAN)]]
      BY <2>1, <2>3 DEF TypeOK
    <3> QED
      BY <1>1, <1>4, <2>1, <3>2, <3>3 DEF TypeOK, config
  <2>6. Text(q)'
    BY <2>2, <2>4 DEF Text
  <2>7. LastWord(q)' /\ Kept(q)'
    BY <1>1, <1>3, <2>4 DEF LastWord, Kept, config
  <2>8. Outcome(q)'
    <3>1. Accepted(q)'
      BY <1>3, <2>2, <2>4, MaskType DEF Accepted
    <3> QED
      BY <1>1, <2>1, <2>4, <3>1 DEF Outcome, config
  <2>9. \A p \in Request \ {q} : Same(p)
    BY <1>1, <2>1 DEF Same, TypeOK
  <2> QED
    BY <1>1, <2>5, <2>6, <2>7, <2>8, <2>9 DEF Served
<1> QED
  BY <1>5, <1>6

(* An awaited call that raises. *)
LEMMA Faulted ==
  ASSUME IInv, NEW q \in Request, Fault(q)
  PROVE  Served(q)
<1> USE DEF IInv, Req
<1>1. /\ rank[0] = "start"
      /\ pc' = [pc EXCEPT ![q] = "raised"] /\ error' = [error EXCEPT ![q] = "external"]
      /\ UNCHANGED <<config, state, ids, mask, calls, turns, user_turns, reason,
                     response, rank>>
  BY DEF Fault, Awaiting, Raise
<1>2. PICK some \in SUBSET kit[q].tools :
        inst' = [inst EXCEPT ![q] =
          [t \in Tool |-> CASE t \in some /\ state[q] = "pending" -> "live"
                            [] t \in some /\ Left(q) -> "released"
                            [] OTHER -> @[t]]]
  BY DEF Fault
<1>3. inst' \in [Request -> [Tool -> {"none", "live", "released"}]]
  <2>1. inst[q] \in [Tool -> {"none", "live", "released"}]
    BY DEF TypeOK
  <2>2. [t \in Tool |-> CASE t \in some /\ state[q] = "pending" -> "live"
                          [] t \in some /\ Left(q) -> "released"
                          [] OTHER -> inst[q][t]] \in [Tool -> {"none", "live", "released"}]
    BY <2>1
  <2> QED
    BY <1>2, <2>2 DEF TypeOK
<1>4. pc'[q] = "raised" /\ error'[q] = "external"
  BY <1>1 DEF TypeOK
<1>5. TypeOK'
  BY <1>1, <1>3 DEF TypeOK, config
<1>6. Text(q)' /\ LastWord(q)'
  BY <1>1, <1>4 DEF Text, LastWord
<1>7. Kept(q)' /\ Outcome(q)'
  BY <1>1, <1>4 DEF Kept, Outcome, config
<1>8. \A p \in Request \ {q} : Same(p)
  BY <1>1, <1>2 DEF Same, TypeOK
<1> QED
  BY <1>1, <1>5, <1>6, <1>7, <1>8 DEF Served

-----------------------------------------------------------------------------
(* The ranks, and all together.                                            *)

(* The steps of the ranks, and stuttering. *)
LEMMA RanksKeep ==
  ASSUME IInv, Ranks \/ Over \/ UNCHANGED vars
  PROVE  IInv'
<1> USE DEF IInv
<1>0. 0 \in Rank
  BY LengthsAreNatural DEF Rank
<1>1. UNCHANGED <<config, pc, state, ids, mask, calls, turns, user_turns, reason, inst,
                  response, error>>
  BY DEF Ranks, Over, Follow, Gather, Broadcast, vars
<1>2. \A q \in Request : Req(q)'
  <2> SUFFICES ASSUME NEW q \in Request PROVE Req(q)'
    OBVIOUS
  <2>1. Same(q)
    BY <1>1 DEF Same
  <2> QED
    BY <2>1, OthersKeep
<1>3. rank' \in [Rank -> {"start", "barrier", "returned", "raised"}] /\ RanksInv'
  <2>1. CASE \E r \in Rank : Follow(r)
    <3>1. PICK r \in Rank : Follow(r)
      BY <2>1
    <3>2. r # 0 /\ rank' = [rank EXCEPT ![r] = "barrier"]
      BY <3>1 DEF Follow
    <3>3. rank \in [Rank -> {"start", "barrier", "returned", "raised"}]
      BY DEF TypeOK
    <3>4. /\ rank'[0] = rank[0]
          /\ \A p \in Rank : rank'[p] = IF p = r THEN "barrier" ELSE rank[p]
      BY <1>0, <3>2, <3>3
    <3>5. RanksInv'
      BY <1>0, <1>1, <3>4 DEF RanksInv
    <3> QED
      BY <3>2, <3>3, <3>5
  <2>2. CASE Gather
    BY <1>0, <1>1, <2>2 DEF Gather, TypeOK, RanksInv
  <2>3. CASE Broadcast
    <3>1. \A q \in Request : pc[q] = "returned" /\ Accepted(q)
      BY <1>0, <2>3 DEF Broadcast, RanksInv, Req, Outcome
    <3>2. rank' = [r \in Rank |-> "returned"]
      BY <2>3, <3>1 DEF Broadcast
    <3> QED
      BY <1>0, <1>1, <3>1, <3>2 DEF RanksInv
  <2>4. CASE rank' = rank
    BY <1>1, <2>4 DEF TypeOK, RanksInv
  <2> QED
    BY <2>1, <2>2, <2>3, <2>4 DEF Ranks, Over, vars
<1>4. TypeOK'
  BY <1>1, <1>3 DEF TypeOK, config
<1> QED
  BY <1>2, <1>3, <1>4

(* initialize_request starts in the invariant. *)
LEMMA InitInv == Init => IInv
<1> SUFFICES ASSUME Init PROVE IInv
  OBVIOUS
<1>1. PICK lens \in [Request -> PromptLens] :
        /\ prompt = [q \in Request |-> lens[q] + GenLen]
        /\ ids = [q \in Request |-> Tokens(lens[q], "data") \o Tokens(GenLen, "gen")]
        /\ mask = [q \in Request |-> Tokens(lens[q] + GenLen, FALSE)]
  BY DEF Init
<1>2. ASSUME NEW q \in Request
      PROVE  Text(q) /\ prompt[q] \in Nat /\ mask[q] \in Seq(BOOLEAN)
  <2> DEFINE n == lens[q]
             d == Tokens(n, "data")
             s == d \o Tokens(GenLen, "gen")
  <2>1. n \in Nat \ {0} /\ GenLen \in Nat \ {0}
    BY RolloutAssumption
  <2>2. /\ d \in Seq(Writer) /\ Len(d) = n /\ \A i \in 1 .. n : d[i] = "data"
    <3>1. "data" \in Writer /\ n \in Nat
      BY <2>1 DEF Writer
    <3> QED
      BY <3>1, TokensOf
  <2> HIDE DEF d
  <2>3. /\ s \in Seq(Writer) /\ Len(s) = n + GenLen
        /\ \A i \in 1 .. n : s[i] = d[i]
        /\ \A i \in n + 1 .. n + GenLen : s[i] = "gen"
    <3>1. "gen" \in Writer /\ GenLen \in Nat
      BY <2>1 DEF Writer
    <3>2. \A m \in Nat : \A w \in Writer :
            LET t == d \o Tokens(m, w)
            IN /\ t \in Seq(Writer) /\ Len(t) = Len(d) + m
               /\ \A i \in 1 .. Len(d) : t[i] = d[i]
               /\ \A i \in Len(d) + 1 .. Len(d) + m : t[i] = w
      BY <2>2, Appended
    <3> HIDE DEF n
    <3> QED
      BY <2>2, <3>1, <3>2
  <2>4. ids[q] = s
    BY <1>1 DEF d
  <2>5. mask[q] = [i \in 1 .. n + GenLen |-> FALSE] /\ prompt[q] = n + GenLen
    BY <1>1 DEF Tokens
  <2> HIDE DEF n, s
  <2>6. EndsWithPrompt(s) /\ s # <<>>
    BY <2>1, <2>3, PromptAtEnd
  <2>7. \A i \in 1 .. Len(s) : s[i] # "model" /\ (s[i] = "gen" => i > n)
    BY <2>1, <2>2, <2>3
  <2>8. ASSUME NEW i \in DOMAIN s, s[i] = "gen"
        PROVE  /\ i > GenLen => SubSeq(s, i - GenLen, i) # Tokens(GenLen + 1, "gen")
               /\ i < Len(s) => s[i + 1] \in {"gen", "model"}
    <3>1. i \in n + 1 .. n + GenLen
      BY <2>1, <2>3, <2>7, <2>8
    <3>2. ASSUME i > GenLen
          PROVE  SubSeq(s, i - GenLen, i) # Tokens(GenLen + 1, "gen")
      <4>1. i - GenLen \in i - GenLen .. i /\ i - GenLen \in 1 .. n
        BY <2>1, <3>1, <3>2
      <4>2. s[i - GenLen] # "gen"
        BY <2>2, <2>3, <4>1
      <4> QED
        BY <2>3, <3>2, <4>1, <4>2, ShapedRun
    <3>3. i < Len(s) => s[i + 1] = "gen"
      BY <2>1, <2>3, <3>1
    <3> QED
      BY <3>2, <3>3
  <2>9. Shaped(s)
    BY <2>3, <2>7, <2>8 DEF Shaped
  <2>10. mask[q] \in Seq(BOOLEAN) /\ mask[q] = MaskOf(s)
    <3>1. mask[q] \in Seq(BOOLEAN) /\ Len(mask[q]) = n + GenLen
      <4>1. n + GenLen \in Nat
        BY <2>1
      <4>2. mask[q] \in [1 .. n + GenLen -> BOOLEAN]
        BY <2>5
      <4> QED
        BY <4>1, <4>2
    <3>2. \A i \in 1 .. n + GenLen : mask[q][i] = FALSE
      BY <2>5
    <3>3. /\ MaskOf(s) \in Seq(BOOLEAN) /\ Len(MaskOf(s)) = Len(s)
          /\ \A i \in 1 .. Len(s) : MaskOf(s)[i] = (s[i] = "model")
      BY <2>3, MaskType
    <3>4. \A i \in 1 .. Len(mask[q]) : mask[q][i] = MaskOf(s)[i]
      BY <2>3, <2>7, <3>1, <3>2, <3>3
    <3> QED
      BY <2>3, <3>1, <3>3, <3>4, SeqEqual
  <2> QED
    BY <2>1, <2>3, <2>4, <2>5, <2>6, <2>9, <2>10 DEF Text, Closed
<1>3. TypeOK
  <2>1. /\ prompt \in [Request -> Nat] /\ ids \in [Request -> Seq(Writer)]
        /\ mask \in [Request -> Seq(BOOLEAN)]
    BY <1>1, <1>2 DEF Text
  <2>2. /\ calls \in [Request -> SUBSET (Tool \cup {"unknown"})]
        /\ turns \in [Request -> Nat] /\ user_turns \in [Request -> Nat]
        /\ inst \in [Request -> [Tool -> {"none", "live", "released"}]]
    BY DEF Init
  <2>3. response \in [Request -> [ids : Seq(Writer), mask : Seq(BOOLEAN)]]
    BY DEF Init
  <2>4. /\ kit \in [Request -> [tools : SUBSET Tool, interaction : BOOLEAN]]
        /\ checked \in BOOLEAN
        /\ pc \in [Request -> {"loop", "left", "returned", "raised"}]
        /\ state \in [Request -> {"pending", "running", "tool_calling", "interacting",
                                  "completed"}]
        /\ reason \in [Request -> {"none", "stop", "length", "tool_call", "claimed"}]
        /\ error \in [Request -> {"none", "external", "unknown tool", "diffs", "reason"}]
        /\ rank \in [Rank -> {"start", "barrier", "returned", "raised"}]
    BY DEF Init
  <2> QED
    BY <2>1, <2>2, <2>3, <2>4 DEF TypeOK
<1>4. ASSUME NEW q \in Request
      PROVE  LastWord(q) /\ Kept(q) /\ Outcome(q)
  <2>1. ~Spent(q)
    BY LengthsAreNatural DEF Init, Spent
  <2>2. MaskOf(<<>>) = <<>>
    BY DEF MaskOf
  <2> QED
    BY <2>1, <2>2 DEF Init, LastWord, Kept, Outcome
<1>5. RanksInv
  BY LengthsAreNatural DEF Init, RanksInv, Rank
<1> QED
  BY <1>2, <1>3, <1>4, <1>5 DEF IInv, Req

(* Every step keeps the invariant. *)
LEMMA NextInv == IInv /\ [Next]_vars => IInv'
<1> SUFFICES ASSUME IInv, [Next]_vars PROVE IInv'
  OBVIOUS
<1>1. ASSUME NEW q \in Request, Turn(q) \/ Fault(q)
      PROVE  IInv'
  <2>1. CASE Create(q)
    BY <2>1, Created, ServedKeeps
  <2>2. CASE OutOfRoom(q)
    BY <2>2, RanOutOfRoom, ServedKeeps
  <2>3. CASE \/ AnswerCut(q)
             \/ \E n \in AnswerLens :
                  \/ AnswerWithBadCalls(q, n)
                  \/ \E why \in {"stop", "claimed"} : PlainAnswer(q, n, why)
                  \/ \E names \in SUBSET (kit[q].tools \cup {"unknown"}) \ {{}} :
                       AnswerWithCalls(q, n, names)
    BY <2>3, RepliedInSomeWay, ServedKeeps
  <2>4. CASE UserLeaves(q)
    BY <2>4, UserLeft, ServedKeeps
  <2>5. CASE Finalize(q)
    BY <2>5, Finalized, ServedKeeps
  <2>6. CASE \E n \in ToldLens : Execute(q, n) \/ UserTurn(q, n)
    BY <2>6, ToolsAnswered, UserAnswered, ServedKeeps
  <2>7. CASE Fault(q)
    BY <2>7, Faulted, ServedKeeps
  <2> QED
    BY <1>1, <2>1, <2>2, <2>3, <2>4, <2>5, <2>6, <2>7 DEF Turn
<1>2. CASE Ranks \/ Over \/ UNCHANGED vars
  BY <1>2, RanksKeep
<1> QED
  BY <1>1, <1>2 DEF Next

(* The inductive invariant that the theorems below follow from. *)
THEOREM Inductive == Spec => []IInv
BY InitInv, NextInv, PTL DEF Spec

(* Every variable has its type. *)
THEOREM RolloutTypeCorrect == Spec => []TypeOK
<1>1. IInv => TypeOK
  BY DEF IInv
<1> QED
  BY <1>1, Inductive, PTL

(* No way out of the loop leaves finalize with a finish reason it does not *)
(* know, but the engine's own claim of tool calls.                         *)
THEOREM FinishReasonsAreKnown == Spec => []FinishReasonsKnown
<1>1. IInv => FinishReasonsKnown
  BY DEF IInv, Req, Outcome, FinishReasonsKnown
<1> QED
  BY <1>1, Inductive, PTL

(* However much the tools and users have said, the batch passes the        *)
(* assertions of every rank.                                               *)
THEOREM BatchIsAccepted == Spec => []RanksAccept
<1>1. IInv => RanksAccept
  BY DEF IInv, RanksInv, RanksAccept
<1> QED
  BY <1>1, Inductive, PTL

(* Whatever cuts a conversation, its answers stand behind one generation   *)
(* prompt and the mask picks them out.                                     *)
THEOREM ConversationsAreShaped == Spec => []AnswersArePrompted
<1>1. IInv => AnswersArePrompted
  BY DEF IInv, Req, Text, Outcome, Shaped, MaskOf, AnswersArePrompted
<1> QED
  BY <1>1, Inductive, PTL

(* The loop stops on an answer, or where none fits. *)
THEOREM ModelHasLastWord == Spec => []EndsWithAnswer
<1>1. IInv => EndsWithAnswer
  BY DEF IInv, Req, LastWord, EndsAs, Left, EndsWithAnswer
<1> QED
  BY <1>1, Inductive, PTL

(* Tools are executed while they keep an instance, and give it back.       *)
THEOREM InstancesAreReleased == Spec => []ToolsReleased
<1>1. IInv => ToolsReleased
  BY DEF IInv, Req, Kept, ToolsReleased
<1> QED
  BY <1>1, Inductive, PTL
=============================================================================
