------------------------- MODULE ChatHistoryProofs -------------------------
(***************************************************************************)
(* What holds of the chat client for every tokenizer, budget, set of       *)
(* prompts and length of the conversation.                                 *)
(***************************************************************************)
EXTENDS ChatHistory, TLAPS, SequenceTheorems

Turns == [role : {"user"}, content : Prompts] \cup [role : {"assistant"}, content : Replies]
Texts == {Normal[p] : p \in Notable}

USE ChatHistoryAssumption

-----------------------------------------------------------------------------
(* Sequences                                                               *)

\* What is appended is last, and everything else stays in its place.
LEMMA AppendTurn ==
  ASSUME NEW S, NEW s \in Seq(S), NEW x \in S
  PROVE  /\ Append(s, x) \in Seq(S) /\ Len(Append(s, x)) = Len(s) + 1
         /\ \A i \in 1..Len(s) : Append(s, x)[i] = s[i]
         /\ Append(s, x)[Len(s) + 1] = x /\ Len(s) \in Nat
BY AppendProperties, LenProperties

LEMMA DropTwo ==
  ASSUME NEW S, NEW s \in Seq(S), Len(s) >= 3
  PROVE  /\ SubSeq(s, 3, Len(s)) \in Seq(S) /\ Len(SubSeq(s, 3, Len(s))) = Len(s) - 2
         /\ \A i \in 1..Len(s) - 2 : SubSeq(s, 3, Len(s))[i] = s[i + 2]
         /\ Len(s) \in Nat
BY SubSeqProperties, LenProperties

LEMMA FrontKeeps ==
  ASSUME NEW S, NEW s \in Seq(S), s # <<>>
  PROVE  /\ Front(s) \in Seq(S) /\ Len(Front(s)) = Len(s) - 1
         /\ \A i \in 1..Len(s) - 1 : Front(s)[i] = s[i]
         /\ Last(s) = s[Len(s)] /\ Len(s) \in Nat \ {0}
<1>1. Len(s) \in Nat \ {0}
  BY EmptySeq, LenProperties
<1>2. Front(s) = SubSeq(s, 1, Len(s) - 1) /\ Last(s) = s[Len(s)]
  BY DEF Front, Last
<1>3. /\ SubSeq(s, 1, Len(s) - 1) \in Seq(S) /\ Len(SubSeq(s, 1, Len(s) - 1)) = Len(s) - 1
      /\ \A i \in 1..Len(s) - 1 : SubSeq(s, 1, Len(s) - 1)[i] = s[i]
  <2>1. PICK n \in Nat : n = Len(s) - 1
    BY <1>1
  <2>2. \A i \in 1..n : s[i] \in S
    BY <1>1, <2>1, ElementOfSeq
  <2>3. /\ SubSeq(s, 1, n) \in Seq(S)
        /\ Len(SubSeq(s, 1, n)) = IF 1 <= n THEN n - 1 + 1 ELSE 0
        /\ \A i \in 1..n - 1 + 1 : SubSeq(s, 1, n)[i] = s[1 + i - 1]
    BY <2>2, SubSeqProperties
  <2>4. \A i \in 1..n : 1 + i - 1 = i /\ i \in 1..n - 1 + 1
    OBVIOUS
  <2>. QED BY <2>1, <2>3, <2>4
<1>. QED BY <1>1, <1>2, <1>3

\* One more, one less and two less than an even or an odd number.
LEMMA Parity ==
  ASSUME NEW m \in Int
  PROVE  /\ m % 2 = 0 => (m + 1) % 2 = 1
         /\ m % 2 = 1 => (m + 1) % 2 = 0 /\ (m - 1) % 2 = 0 /\ (m - 2) % 2 = 1
OBVIOUS

-----------------------------------------------------------------------------
(* Turns and budget                                                        *)

\* A turn that is answered, as the log has it.
Kept == TypeOK /\ TurnOrder

LEMMA KeptInit == Init => Kept
BY EmptySeq DEF Init, Kept, TypeOK, TurnOrder

\* With a prompt pending the turns end with it, and removing it leaves pairs.
LEMMA PendingIsLast ==
  ASSUME Kept, stage # "input"
  PROVE  /\ turns \in Seq(Turns) /\ turns # <<>> /\ Len(turns) \in Nat \ {0}
         /\ turns[Len(turns)].role = "user" /\ Last(turns) = turns[Len(turns)]
         /\ RemovePending(turns) = Front(turns)
         /\ Len(turns) % 2 = 1
<1>1. turns \in Seq(Turns) /\ Len(turns) % 2 = 1
  BY DEF Kept, TypeOK, TurnOrder, Turns
<1>2. turns # <<>>
  BY <1>1
<1>3. Len(turns) \in Nat \ {0} /\ Last(turns) = turns[Len(turns)]
  BY <1>1, <1>2, FrontKeeps
<1>4. turns[Len(turns)].role = "user"
  BY <1>1, <1>3, LenProperties DEF Kept, TurnOrder
<1>. QED BY <1>1, <1>2, <1>3, <1>4 DEF RemovePending

LEMMA EnterKeeps ==
  ASSUME Kept, NEW p \in Prompts, Enter(p)
  PROVE  Kept'
<1>0. turns \in Seq(Turns) /\ Len(turns) % 2 = 0 /\ stage = "input"
  BY DEF Kept, TypeOK, TurnOrder, Turns, Enter
<1>1. turns' = Append(turns, Turn("user", p)) /\ Turn("user", p) \in Turns
  BY DEF Enter, Turn, Turns
<1>2. /\ turns' \in Seq(Turns) /\ Len(turns') = Len(turns) + 1 /\ Len(turns) \in Nat
      /\ \A i \in 1..Len(turns) : turns'[i] = turns[i]
      /\ turns'[Len(turns) + 1].role = "user"
  BY <1>0, <1>1, AppendTurn DEF Turn
<1>3. DOMAIN turns' = 1..Len(turns') /\ DOMAIN turns = 1..Len(turns)
  BY <1>0, <1>2, LenProperties
<1>4. TurnOrder'
  <2>1. ASSUME NEW i \in 1..Len(turns')
        PROVE  turns'[i].role = IF i % 2 = 1 THEN "user" ELSE "assistant"
    <3>1. CASE i = Len(turns) + 1
      BY <1>0, <1>2, <3>1
    <3>2. CASE i \in 1..Len(turns)
      BY <1>2, <1>3, <3>2 DEF Kept, TurnOrder
    <3>. QED BY <1>2, <3>1, <3>2
  <2>2. Len(turns') % 2 = 1
    <3>1. Len(turns) \in Int
      BY <1>2
    <3>. QED BY <1>0, <1>2, <3>1, Parity, Zenon
  <2>3. stage' # "input"
    BY DEF Enter
  <2>. QED BY <1>3, <2>1, <2>2, <2>3 DEF TurnOrder
<1>5. TypeOK'
  BY <1>2 DEF Kept, TypeOK, Turns, Enter
<1>. QED BY <1>4, <1>5 DEF Kept

LEMMA RememberType ==
  ASSUME NEW m \in Seq(Texts), NEW p
  PROVE  Remember(m, p) \in Seq(Texts)
BY AppendProperties DEF Remember, Texts

LEMMA DropKeeps ==
  ASSUME Kept, DropPair
  PROVE  Kept'
<1>0. turns \in Seq(Turns) /\ Len(turns) >= 3 /\ stage = "compacting" /\ Len(turns) % 2 = 1
  BY DEF Kept, TypeOK, TurnOrder, Turns, DropPair, PairToDrop
<1>1. turns' = SubSeq(turns, 3, Len(turns)) /\ stage' = stage
  BY DEF DropPair
<1>2. /\ turns' \in Seq(Turns) /\ Len(turns') = Len(turns) - 2 /\ Len(turns) \in Nat
      /\ \A i \in 1..Len(turns') : turns'[i] = turns[i + 2]
  BY <1>0, <1>1, DropTwo
<1>3. DOMAIN turns' = 1..Len(turns') /\ DOMAIN turns = 1..Len(turns)
  BY <1>0, <1>2, LenProperties
<1>4. TurnOrder'
  <2>1. ASSUME NEW i \in 1..Len(turns')
        PROVE  turns'[i].role = IF i % 2 = 1 THEN "user" ELSE "assistant"
    <3>1. i + 2 \in 1..Len(turns) /\ (i + 2) % 2 = i % 2
      BY <1>2
    <3>. QED BY <1>2, <1>3, <3>1 DEF Kept, TurnOrder
  <2>2. Len(turns') % 2 = 1
    <3>1. Len(turns) \in Int
      BY <1>2
    <3>. QED BY <1>0, <1>2, <3>1, Parity, Zenon
  <2>. QED BY <1>0, <1>1, <1>3, <2>1, <2>2 DEF TurnOrder
<1>5. TypeOK'
  <2>1. memory' \in Seq(Texts)
    <3>1. memory \in Seq(Texts)
      BY DEF Kept, TypeOK, Texts
    <3>2. memory' = Remember(memory, turns[1].content)
      BY DEF DropPair
    <3>. QED BY <3>1, <3>2, RememberType
  <2>. QED BY <1>0, <1>1, <1>2, <2>1 DEF Kept, TypeOK, Turns, Texts
<1>. QED BY <1>4, <1>5 DEF Kept

LEMMA TakenBackKeeps ==
  ASSUME Kept, Refuse \/ Failed
  PROVE  Kept'
<1>0. /\ stage # "input" /\ turns' = RemovePending(turns) /\ stage' = "input"
      /\ memory' = memory
  BY DEF Refuse, Failed
<1>1. turns \in Seq(Turns) /\ turns # <<>> /\ turns' = Front(turns) /\ Len(turns) % 2 = 1
  BY <1>0, PendingIsLast
<1>2. /\ turns' \in Seq(Turns) /\ Len(turns') = Len(turns) - 1 /\ Len(turns) \in Nat \ {0}
      /\ \A i \in 1..Len(turns') : turns'[i] = turns[i]
  BY <1>1, FrontKeeps
<1>3. DOMAIN turns' = 1..Len(turns') /\ DOMAIN turns = 1..Len(turns)
  BY <1>1, <1>2, LenProperties
<1>4. TurnOrder'
  <2>1. Len(turns') % 2 = 0
    <3>1. Len(turns) \in Int
      BY <1>2
    <3>. QED BY <1>1, <1>2, <3>1, Parity, Zenon
  <2>2. \A i \in 1..Len(turns') : i \in DOMAIN turns
    BY <1>2, <1>3
  <2>. QED BY <1>0, <1>2, <1>3, <2>1, <2>2 DEF Kept, TurnOrder
<1>5. TypeOK'
  BY <1>0, <1>2 DEF Kept, TypeOK, Turns
<1>. QED BY <1>4, <1>5 DEF Kept

LEMMA AnsweredKeeps ==
  ASSUME Kept, NEW a \in Replies, Answered(a)
  PROVE  Kept'
<1>0. turns \in Seq(Turns) /\ Len(turns) % 2 = 1 /\ stage = "asking"
  BY DEF Kept, TypeOK, TurnOrder, Turns, Answered
<1>1. turns' = Append(turns, Turn("assistant", a)) /\ Turn("assistant", a) \in Turns
  BY DEF Answered, Turn, Turns
<1>2. /\ turns' \in Seq(Turns) /\ Len(turns') = Len(turns) + 1 /\ Len(turns) \in Nat
      /\ \A i \in 1..Len(turns) : turns'[i] = turns[i]
      /\ turns'[Len(turns) + 1].role = "assistant"
  BY <1>0, <1>1, AppendTurn DEF Turn
<1>3. DOMAIN turns' = 1..Len(turns') /\ DOMAIN turns = 1..Len(turns)
  BY <1>0, <1>2, LenProperties
<1>4. TurnOrder'
  <2>1. ASSUME NEW i \in 1..Len(turns')
        PROVE  turns'[i].role = IF i % 2 = 1 THEN "user" ELSE "assistant"
    <3>1. CASE i = Len(turns) + 1
      BY <1>0, <1>2, <3>1
    <3>2. CASE i \in 1..Len(turns)
      BY <1>2, <1>3, <3>2 DEF Kept, TurnOrder
    <3>. QED BY <1>2, <3>1, <3>2
  <2>2. Len(turns') % 2 = 0
    <3>1. Len(turns) \in Int
      BY <1>2
    <3>. QED BY <1>0, <1>2, <3>1, Parity, Zenon
  <2>3. stage' = "input"
    BY DEF Answered
  <2>. QED BY <1>3, <2>1, <2>2, <2>3 DEF TurnOrder
<1>5. TypeOK'
  BY <1>2 DEF Kept, TypeOK, Turns, Answered
<1>. QED BY <1>4, <1>5 DEF Kept

LEMMA KeptStep == Kept /\ [Next]_vars => Kept'
<1>. SUFFICES ASSUME Kept, [Next]_vars PROVE Kept'
  OBVIOUS
<1>1. CASE UNCHANGED vars
  BY <1>1 DEF vars, Kept, TypeOK, TurnOrder
<1>2. CASE Compacted
  BY <1>2 DEF Compacted, Kept, TypeOK, TurnOrder
<1>3. CASE Restart
  BY <1>3, EmptySeq DEF Restart, Kept, TypeOK, TurnOrder
<1>. QED BY <1>1, <1>2, <1>3, EnterKeeps, DropKeeps, TakenBackKeeps, AnsweredKeeps
         DEF Next, Compact, Settle

LEMMA KeptInductive == Spec => []Kept
BY KeptInit, KeptStep, PTL DEF Spec

\* Every variable keeps the type the code gives it.
THEOREM TypeCorrect == Spec => []TypeOK
BY KeptInductive, PTL DEF Kept

\* Turns alternate and end with the pending prompt, whatever was refused, failed
\* or compacted before: compact() never finds an invalid turn order.
THEOREM TurnsAlternate == Spec => []TurnOrder
BY KeptInductive, PTL DEF Kept

\* A request fits the budget if the tokenizer returns a number: nothing is
\* assumed of how the prompt's size depends on its turns and its memory.
THEOREM RequestsFit ==
  ASSUME \A m, t : Tokens(m, t) \in Int
  PROVE  Spec => []RequestFits
<1>1. Init => RequestFits
  BY DEF Init, RequestFits
<1>2. RequestFits /\ [Next]_vars => RequestFits'
  <2>. SUFFICES ASSUME RequestFits, [Next]_vars PROVE RequestFits'
    OBVIOUS
  <2>1. Target <= Budget /\ Target \in Int
    BY DEF Target
  <2>2. ASSUME NEW p \in Prompts, Enter(p)
        PROVE  RequestFits'
    <3>1. Tokens(memory, turns') \in Int /\ memory' = memory
      BY <2>2 DEF Enter
    <3>2. stage' = "asking" => 100 * Tokens(memory, turns') < 90 * Budget
      BY <2>2 DEF Enter
    <3>. QED BY <3>1, <3>2 DEF RequestFits, Size
  <2>3. CASE Compacted
    <3>1. Size \in Int /\ Size <= Budget /\ Size' = Size
      BY <2>1, <2>3 DEF Compacted, SmallEnough, Size
    <3>. QED BY <3>1 DEF RequestFits
  <2>4. CASE UNCHANGED vars
    BY <2>4 DEF vars, RequestFits, Size
  <2>5. CASE DropPair \/ Refuse \/ Settle \/ Restart
    BY <2>5 DEF DropPair, Refuse, Settle, Failed, Answered, Restart, RequestFits
  <2>. QED BY <2>2, <2>3, <2>4, <2>5 DEF Next, Compact
<1>. QED BY <1>1, <1>2, PTL DEF Spec

\* A round of compact() always finds something to do: while the prompt is being
\* compacted there is a pair in the right order to drop, or the loop is done, or
\* the prompt is refused.  compact() never raises its RuntimeError.
CompactionGoesOn == stage = "compacting" => PairToDrop \/ SmallEnough \/ TooBig

THEOREM CompactionNeverSticks ==
  ASSUME \A m, t : Tokens(m, t) \in Int
  PROVE  Spec => []CompactionGoesOn
<1>1. Kept => CompactionGoesOn
  <2>. SUFFICES ASSUME Kept, stage = "compacting" PROVE PairToDrop \/ SmallEnough \/ TooBig
    BY DEF CompactionGoesOn
  <2>1. Size \in Int /\ Target \in Int /\ Len(turns) \in Nat
    BY PendingIsLast DEF Size, Target
  <2>2. CASE Size > Target /\ Len(turns) >= 3
    <3>1. 1 \in DOMAIN turns /\ 2 \in DOMAIN turns
      BY <2>1, <2>2, PendingIsLast, LenProperties
    <3>2. turns[1].role = "user" /\ turns[2].role = "assistant"
      BY <3>1 DEF Kept, TurnOrder
    <3>. QED BY <2>2, <3>2 DEF PairToDrop
  <2>3. CASE Size <= Target \/ Len(turns) < 3
    BY <2>1, <2>3 DEF SmallEnough, TooBig
  <2>. QED BY <2>1, <2>2, <2>3
<1>. QED BY <1>1, KeptInductive, PTL

\* Every round of compact() that goes on leaves fewer turns, whatever the memory
\* it writes costs: the loop ends after at most half as many rounds as there are
\* turns, so that with CompactionNeverSticks only the scheduling is left of
\* EveryPromptSettled.
THEOREM CompactionShrinks ==
  Spec => [][stage = "compacting" /\ stage' = "compacting" => Len(turns') < Len(turns)]_vars
<1>1. ASSUME Kept, [Next]_vars, stage = "compacting", stage' = "compacting", vars' # vars
      PROVE  Len(turns') < Len(turns)
  <2>1. CASE DropPair
    <3>1. turns \in Seq(Turns) /\ Len(turns) >= 3 /\ turns' = SubSeq(turns, 3, Len(turns))
      BY <1>1, <2>1, PendingIsLast DEF DropPair, PairToDrop
    <3>. QED BY <3>1, DropTwo
  <2>2. ~ (Compacted \/ Refuse \/ Settle \/ Restart \/ \E p \in Prompts : Enter(p))
    BY <1>1 DEF Compacted, Refuse, Settle, Failed, Answered, Restart, Enter
  <2>. QED BY <1>1, <2>1, <2>2 DEF Next, Compact, vars
<1>2. Kept /\ [Next]_vars =>
        [stage = "compacting" /\ stage' = "compacting" => Len(turns') < Len(turns)]_vars
  BY <1>1
<1>. QED BY <1>2, KeptInductive, PTL DEF Spec

-----------------------------------------------------------------------------
(* The conversation                                                        *)

\* The log is a sequence of pairs; Left of its turns are still sent.
Logged ==
  /\ log \in Seq(Turns) /\ Len(log) % 2 = 0
  /\ \A j \in 1..Len(log) : log[j].role = IF j % 2 = 1 THEN "user" ELSE "assistant"
Left == Len(turns) - (IF stage = "input" THEN 0 ELSE 1)

IInv == Kept /\ Logged /\ NothingForgotten

LEMMA Lengths ==
  ASSUME IInv
  PROVE  /\ turns \in Seq(Turns) /\ Len(turns) \in Nat /\ Len(log) \in Nat /\ Left \in Int
         /\ Dropped = Len(log) - Left /\ Dropped \in Nat /\ Dropped % 2 = 0
         /\ Left % 2 = 0
<1>1. turns \in Seq(Turns) /\ log \in Seq(Turns)
  BY DEF IInv, Kept, TypeOK, Turns, Logged
<1>2. Len(turns) \in Nat /\ Len(log) \in Nat
  BY <1>1, LenProperties
<1>3. Len(turns) % 2 = (IF stage = "input" THEN 0 ELSE 1) /\ Len(log) % 2 = 0
  BY DEF IInv, Kept, TurnOrder, Logged
<1>4. Left \in Int /\ Left % 2 = 0
  <2>1. CASE stage = "input"
    BY <1>2, <1>3, <2>1 DEF Left
  <2>2. CASE stage # "input"
    <3>1. Left = Len(turns) - 1 /\ Len(turns) % 2 = 1
      BY <1>3, <2>2 DEF Left
    <3>. QED BY <1>2, <3>1
  <2>. QED BY <2>1, <2>2
<1>5. Dropped = Len(log) - Left /\ Dropped >= 0
  BY DEF Dropped, Left, IInv, NothingForgotten
<1>6. (Len(log) - Left) % 2 = 0
  BY <1>2, <1>3, <1>4
<1>. QED BY <1>1, <1>2, <1>4, <1>5, <1>6

\* What is remembered is added, unless the memory has it.
LEMMA RememberAdds ==
  ASSUME NEW m \in Seq(Texts), IsInjective(m), NEW p
  PROVE  /\ ToSet(Remember(m, p)) = ToSet(m) \cup {Normal[q] : q \in {p} \cap Notable}
         /\ IsInjective(Remember(m, p))
<1>0. DOMAIN m = 1..Len(m) /\ Len(m) \in Nat
  BY LenProperties
<1>1. CASE p \in Notable /\ ~Contains(m, Normal[p])
  <2>1. Normal[p] \in Texts /\ Remember(m, p) = Append(m, Normal[p])
    BY <1>1 DEF Texts, Remember
  <2>. DEFINE a == Append(m, Normal[p])
  <2>2. /\ a \in Seq(Texts) /\ Len(a) = Len(m) + 1 /\ a[Len(m) + 1] = Normal[p]
        /\ \A i \in 1..Len(m) : a[i] = m[i]
    BY <2>1, AppendProperties
  <2>3. DOMAIN a = 1..Len(m) + 1
    BY <2>2, LenProperties
  <2>. HIDE DEF a
  <2>4. \A i \in 1..Len(m) : m[i] # Normal[p]
    BY <1>1 DEF Contains
  <2>5. IsInjective(a)
    BY <1>0, <2>2, <2>3, <2>4 DEF IsInjective
  <2>6. ToSet(a) = ToSet(m) \cup {Normal[p]}
    BY <1>0, <2>2, <2>3 DEF ToSet
  <2>7. {Normal[q] : q \in {p} \cap Notable} = {Normal[p]}
    BY <1>1
  <2>. QED BY <2>1, <2>5, <2>6, <2>7 DEF a
<1>2. CASE p \in Notable /\ Contains(m, Normal[p])
  <2>1. Normal[p] \in ToSet(m)
    BY <1>0, <1>2 DEF Contains, ToSet
  <2>. QED BY <1>2, <2>1 DEF Remember
<1>3. CASE p \notin Notable
  BY <1>3 DEF Remember
<1>. QED BY <1>1, <1>2, <1>3

\* A step that leaves the log, the memory and the turns still sent alone.
LEMMA SameConversation ==
  ASSUME IInv, log' = log, memory' = memory, Left' = Left, Kept',
         \A i \in 1..Left : turns'[i] = turns[i]
  PROVE  IInv'
<1>1. Logged'
  BY DEF IInv, Logged
<1>2. Dropped' = Dropped /\ Len(log) - Dropped = Left
  <2>1. Dropped' = Len(log') - Left' /\ Dropped = Len(log) - Left
    BY DEF Dropped, Left
  <2>. QED BY <2>1, Lengths
<1>3. DroppedPrompts' = DroppedPrompts
  BY <1>2 DEF DroppedPrompts
<1>. QED BY <1>1, <1>2, <1>3 DEF IInv, NothingForgotten

LEMMA DropForgetsNothing ==
  ASSUME IInv, DropPair
  PROVE  IInv'
<1>. DEFINE d == Dropped
<1>0. /\ turns \in Seq(Turns) /\ Len(turns) >= 3 /\ stage = "compacting" /\ Len(turns) \in Nat
      /\ d \in Nat /\ d % 2 = 0 /\ Left = Len(turns) - 1 /\ d = Len(log) - Left
      /\ Len(log) \in Nat
  BY Lengths DEF DropPair, PairToDrop, Left
<1>1. /\ turns' = SubSeq(turns, 3, Len(turns)) /\ stage' = stage /\ log' = log
      /\ memory' = Remember(memory, turns[1].content)
  BY DEF DropPair
<1>2. /\ Len(turns') = Len(turns) - 2
      /\ \A i \in 1..Len(turns) - 2 : turns'[i] = turns[i + 2]
  BY <1>0, <1>1, DropTwo
<1>3. Kept' /\ Logged'
  BY <1>1, DropKeeps DEF IInv, Logged
<1>4. Dropped' = d + 2 /\ Len(log) - d = Len(turns) - 1
  BY <1>0, <1>1, <1>2 DEF Dropped
<1>5. \A i \in 1..Len(turns) - 1 : turns[i] = log[d + i]
  BY <1>4 DEF IInv, NothingForgotten
<1>. HIDE DEF d
<1>6. \A i \in 1..Len(log) - Dropped' : turns'[i] = log[Dropped' + i]
  <2>1. SUFFICES ASSUME NEW i \in 1..Len(log) - (d + 2)
                 PROVE  turns'[i] = log[d + 2 + i]
    BY <1>4
  <2>2. i \in 1..Len(turns) - 2 /\ i + 2 \in 1..Len(turns) - 1 /\ d + (i + 2) = d + 2 + i
    BY <1>0, <1>4
  <2>. QED BY <1>2, <1>5, <2>2
<1>7. DroppedPrompts' = DroppedPrompts \cup {turns[1].content}
  <2>1. d + 1 \in 1..Len(log) /\ d + 2 \in 1..Len(log) /\ log[d + 1] = turns[1]
    BY <1>0, <1>4, <1>5
  <2>2. (d + 1) % 2 = 1 /\ (d + 2) % 2 = 0
    BY <1>0
  <2>3. log[d + 1].role = "user" /\ log[d + 2].role = "assistant"
    BY <2>1, <2>2 DEF IInv, Logged
  <2>4. 1..d + 2 = 1..d \cup {d + 1, d + 2}
    BY <1>0
  <2>5. {j \in 1..d + 2 : log[j].role = "user"}
          = {j \in 1..d : log[j].role = "user"} \cup {d + 1}
    BY <2>3, <2>4
  <2>6. DroppedPrompts' = {log[i].content : i \in {j \in 1..d + 2 : log[j].role = "user"}}
    BY <1>1, <1>4 DEF DroppedPrompts
  <2>7. DroppedPrompts = {log[i].content : i \in {j \in 1..d : log[j].role = "user"}}
    BY DEF DroppedPrompts, d
  <2>. QED BY <2>1, <2>5, <2>6, <2>7
<1>8. /\ ToSet(memory') = {Normal[p] : p \in DroppedPrompts' \cap Notable}
      /\ IsInjective(memory')
  <2>1. memory \in Seq(Texts) /\ IsInjective(memory)
    BY DEF IInv, Kept, TypeOK, Texts, NothingForgotten
  <2>2. ToSet(memory) = {Normal[p] : p \in DroppedPrompts \cap Notable}
    BY DEF IInv, NothingForgotten
  <2>. QED BY <1>1, <1>7, <2>1, <2>2, RememberAdds
<1>. QED BY <1>0, <1>1, <1>3, <1>4, <1>6, <1>8 DEF IInv, NothingForgotten

LEMMA AnsweredIsLogged ==
  ASSUME IInv, NEW a \in Replies, Answered(a)
  PROVE  IInv'
<1>. DEFINE d == Dropped
            n == Len(turns)
            x == Last(turns)
            y == Turn("assistant", a)
<1>0. /\ turns \in Seq(Turns) /\ stage = "asking" /\ n \in Nat \ {0} /\ x = turns[n]
      /\ turns[n].role = "user" /\ d \in Nat /\ d = Len(log) - (n - 1)
      /\ Len(log) \in Nat /\ log \in Seq(Turns) /\ Len(log) % 2 = 0
  BY Lengths, PendingIsLast DEF IInv, Answered, Left, Logged
<1>1. /\ turns' = Append(turns, y) /\ log' = log \o <<x, y>> /\ stage' = "input"
      /\ memory' = memory
  BY DEF Answered
<1>2. x \in Turns /\ y \in Turns /\ x.role = "user" /\ y.role = "assistant"
  BY <1>0, ElementOfSeq DEF Turn, Turns
<1>. HIDE DEF d, n, x, y
<1>3. /\ Len(turns') = n + 1 /\ turns'[n + 1] = y
      /\ \A i \in 1..n : turns'[i] = turns[i]
  BY <1>0, <1>1, <1>2, AppendTurn DEF n
<1>4. /\ log' \in Seq(Turns) /\ Len(log') = Len(log) + 2
      /\ \A i \in 1..Len(log) : log'[i] = log[i]
      /\ log'[Len(log) + 1] = x /\ log'[Len(log) + 2] = y
  <2>1. /\ <<x, y>> \in Seq(Turns) /\ Len(<<x, y>>) = 2 /\ <<x, y>>[1] = x /\ <<x, y>>[2] = y
    BY <1>2
  <2>. QED BY <1>0, <1>1, <2>1, ConcatProperties
<1>5. Logged'
  <2>1. ASSUME NEW j \in 1..Len(log')
        PROVE  log'[j].role = IF j % 2 = 1 THEN "user" ELSE "assistant"
    <3>1. CASE j \in 1..Len(log)
      BY <1>4, <3>1 DEF IInv, Logged
    <3>2. CASE j = Len(log) + 1
      BY <1>0, <1>2, <1>4, <3>2
    <3>3. CASE j = Len(log) + 2
      BY <1>0, <1>2, <1>4, <3>3
    <3>. QED BY <1>0, <1>4, <3>1, <3>2, <3>3
  <2>. QED BY <1>0, <1>4, <2>1 DEF Logged
<1>6. Dropped' = d
  BY <1>0, <1>1, <1>3, <1>4 DEF Dropped
<1>7. \A i \in 1..n - 1 : turns[i] = log[d + i]
  <2>1. Len(log) - Dropped = n - 1
    BY <1>0 DEF d
  <2>. QED BY <2>1 DEF IInv, NothingForgotten, d
<1>8. ASSUME NEW i \in 1..Len(log') - d
      PROVE  turns'[i] = log'[d + i]
  <2>1. CASE i \in 1..n - 1
    <3>1. i \in 1..n /\ d + i \in 1..Len(log)
      BY <1>0, <2>1
    <3>. QED BY <1>3, <1>4, <1>7, <2>1, <3>1
  <2>2. CASE i = n
    BY <1>0, <1>3, <1>4, <2>2
  <2>3. CASE i = n + 1
    BY <1>0, <1>3, <1>4, <2>3
  <2>. QED BY <1>0, <1>4, <2>1, <2>2, <2>3
<1>9. DroppedPrompts' = DroppedPrompts
  <2>1. d <= Len(log)
    BY <1>0
  <2>2. \A j \in 1..d : log'[j] = log[j]
    <3>1. \A j \in 1..d : j \in 1..Len(log)
      BY <1>0, <2>1
    <3>. QED BY <1>4, <3>1, Zenon
  <2>. QED BY <1>6, <2>2 DEF DroppedPrompts, d
<1>10. NothingForgotten'
  <2>1. /\ ToSet(memory') = {Normal[p] : p \in DroppedPrompts' \cap Notable}
        /\ IsInjective(memory')
    BY <1>1, <1>9 DEF IInv, NothingForgotten
  <2>2. Dropped' >= 0 /\ \A i \in 1..Len(log') - Dropped' : turns'[i] = log'[Dropped' + i]
    BY <1>0, <1>6, <1>8
  <2>. QED BY <2>1, <2>2 DEF NothingForgotten
<1>. QED BY <1>5, <1>10, AnsweredKeeps DEF IInv

LEMMA ConversationStep == IInv /\ [Next]_vars => IInv'
<1>. SUFFICES ASSUME IInv, [Next]_vars PROVE IInv'
  OBVIOUS
<1>0. Kept' /\ turns \in Seq(Turns) /\ Len(turns) \in Nat /\ Left \in Int
  BY KeptStep, Lengths DEF IInv
<1>1. CASE UNCHANGED vars \/ Compacted
  BY <1>0, <1>1, SameConversation DEF vars, Compacted, Left
<1>2. ASSUME NEW p \in Prompts, Enter(p)
      PROVE  IInv'
  <2>1. turns' = Append(turns, Turn("user", p)) /\ Turn("user", p) \in Turns
    BY <1>2 DEF Enter, Turn, Turns
  <2>2. Len(turns') = Len(turns) + 1 /\ \A i \in 1..Len(turns) : turns'[i] = turns[i]
    BY <1>0, <2>1, AppendTurn
  <2>3. log' = log /\ memory' = memory /\ stage = "input" /\ stage' # "input"
    BY <1>2 DEF Enter
  <2>4. Left' = Left /\ Left = Len(turns)
    BY <1>0, <2>2, <2>3 DEF Left
  <2>. QED BY <1>0, <2>2, <2>3, <2>4, SameConversation
<1>3. CASE Refuse \/ Failed
  <2>1. /\ stage # "input" /\ turns' = RemovePending(turns) /\ stage' = "input"
        /\ memory' = memory /\ log' = log
    BY <1>3 DEF Refuse, Failed
  <2>2. turns # <<>> /\ turns' = Front(turns)
    BY <2>1, PendingIsLast DEF IInv
  <2>3. Len(turns') = Len(turns) - 1 /\ \A i \in 1..Len(turns) - 1 : turns'[i] = turns[i]
    BY <1>0, <2>2, FrontKeeps
  <2>4. Left' = Left /\ Left = Len(turns) - 1
    BY <1>0, <2>1, <2>3 DEF Left
  <2>. QED BY <1>0, <2>1, <2>3, <2>4, SameConversation
<1>4. CASE Restart
  <2>1. turns' = <<>> /\ memory' = <<>> /\ log' = <<>> /\ stage' = "input"
    BY <1>4 DEF Restart
  <2>2. Logged'
    BY <2>1, EmptySeq DEF Logged
  <2>3. Dropped' = 0 /\ DroppedPrompts' = {}
    BY <2>1, EmptySeq DEF Dropped, DroppedPrompts
  <2>4. ToSet(memory') = {} /\ IsInjective(memory')
    BY <2>1 DEF ToSet, IsInjective
  <2>. QED BY <1>0, <2>1, <2>2, <2>3, <2>4, EmptySeq DEF IInv, NothingForgotten
<1>. QED BY <1>1, <1>2, <1>3, <1>4, DropForgetsNothing, AnsweredIsLogged
         DEF Next, Compact, Settle

LEMMA ConversationInit == Init => IInv
<1>. SUFFICES ASSUME Init PROVE IInv
  OBVIOUS
<1>1. turns = <<>> /\ memory = <<>> /\ log = <<>> /\ stage = "input"
  BY DEF Init
<1>2. Logged
  BY <1>1, EmptySeq DEF Logged
<1>3. Dropped = 0 /\ DroppedPrompts = {}
  BY <1>1, EmptySeq DEF Dropped, DroppedPrompts
<1>4. ToSet(memory) = {} /\ IsInjective(memory)
  BY <1>1 DEF ToSet, IsInjective
<1>. QED BY <1>1, <1>2, <1>3, <1>4, KeptInit, EmptySeq DEF IInv, NothingForgotten

\* However often compaction, refusals and failures take turns, the client sends
\* the latest of the conversation without a gap, and its memory has exactly what
\* the user asked to remember in the turns dropped, each statement once.
THEOREM CompactionForgetsNothing == Spec => []NothingForgotten
BY ConversationInit, ConversationStep, PTL DEF Spec, IInv

=============================================================================
