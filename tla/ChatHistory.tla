---------------------------- MODULE ChatHistory ----------------------------
(***************************************************************************)
(* ConversationHistory and the prompt loop of main() in                    *)
(* 03-production-serving/src/production_serving/chat_client.py, with the   *)
(* server as the requests see it.                                          *)
(*                                                                         *)
(* The client is one thread.  A prompt is counted, compacted when it       *)
(* fills the budget, and sent with the whole history; the compaction loop  *)
(* drops the oldest pair of turns at a time, and the pairs it has dropped  *)
(* stay dropped when it gives up.  usage and target are floats in the code *)
(* and are compared here by integer arithmetic.                            *)
(***************************************************************************)
EXTENDS Integers, SequencesExt

CONSTANTS Prompts,       \* what the user may type
          Replies,       \* what the server may answer; Empty may be one
          Empty,         \* the empty content
          Notable,       \* the prompts that contain "remember"
          Normal,        \* their text with its white space normalised
          Tokens(_, _),  \* the tokens of the prompt rendered from a memory
                         \* and turns (tokenizer, template, system prompt)
          Budget,        \* context_window - max_tokens
          MaxExchanges   \* bound: exchanges in the life of one client

ASSUME ChatHistoryAssumption ==
  /\ Empty \notin Prompts
  /\ Notable \subseteq Prompts
  /\ DOMAIN Normal = Notable
  /\ Budget \in Nat \ {0}
  /\ MaxExchanges \in Nat

VARIABLES turns,    \* turns
          memory,   \* memory
          stage,    \* where main() is: "input", "compacting" or "asking"
          log       \* history: every turn answered since the client started
vars == <<turns, memory, stage, log>>

Turn(role, content) == [role |-> role, content |-> content]

\* The prompt's size now, and the size compaction aims for.
Size   == Tokens(memory, turns)
Target == (Budget * 80) \div 100

\* Mutant of Remember: the text is kept as it was typed.
RememberRaw(m, p) ==
  IF p \in Notable /\ ~Contains(m, p) THEN Append(m, p) ELSE m

\* _remember(): memory m after the turn with content p is dropped.
Remember(m, p) ==
  IF p \in Notable /\ ~Contains(m, Normal[p]) THEN Append(m, Normal[p]) ELSE m

\* remove_pending_user()
RemovePending(t) == IF t # <<>> /\ Last(t).role = "user" THEN Front(t) ELSE t

Init ==
  /\ turns = <<>>
  /\ memory = <<>>
  /\ stage = "input"
  /\ log = <<>>

-----------------------------------------------------------------------------
\* The user enters a prompt: it is added, and compact() decides whether the
\* prompt fills less than 90 percent of the budget.
Enter(p) ==
  /\ stage = "input"
  /\ Len(log) < 2 * MaxExchanges
  /\ turns' = Append(turns, Turn("user", p))
  /\ stage' = IF 100 * Tokens(memory, turns') < 90 * Budget
              THEN "asking" ELSE "compacting"
  /\ UNCHANGED <<memory, log>>

\* What a round of compact() finds: a pair to drop, nothing more to do, or a
\* prompt that does not fit by itself.  A pair in another order raises a
\* RuntimeError that main() does not catch.
PairToDrop  == /\ Size > Target /\ Len(turns) >= 3
               /\ turns[1].role = "user" /\ turns[2].role = "assistant"
SmallEnough == Size <= Target \/ (Len(turns) < 3 /\ Size <= Budget)
TooBig      == Size > Target /\ Len(turns) < 3 /\ Size > Budget

\* Mutant of DropPair: the pair is deleted before its prompt is looked at.
DropThenRemember ==
  /\ stage = "compacting"
  /\ PairToDrop
  /\ turns' = SubSeq(turns, 3, Len(turns))
  /\ memory' = Remember(memory, turns'[1].content)
  /\ UNCHANGED <<stage, log>>

\* One round of compact(): the oldest pair goes.  There is no action for a pair
\* in another order, so that TLC's deadlock check would report it.
DropPair ==
  /\ stage = "compacting"
  /\ PairToDrop
  /\ memory' = Remember(memory, turns[1].content)
  /\ turns' = SubSeq(turns, 3, Len(turns))
  /\ UNCHANGED <<stage, log>>

\* Mutant of Compacted: compact() gives up quietly when nothing is left to drop.
CompactedAnyway ==
  /\ stage = "compacting"
  /\ Size <= Target \/ Len(turns) < 3
  /\ stage' = "asking"
  /\ UNCHANGED <<turns, memory, log>>

\* compact() returns: the target is reached, or nothing is left to drop and
\* the prompt fits all the same.
Compacted ==
  /\ stage = "compacting"
  /\ SmallEnough
  /\ stage' = "asking"
  /\ UNCHANGED <<turns, memory, log>>

\* Mutant of Refuse: compaction is tried again.
RefuseAndRetry ==
  /\ stage = "compacting"
  /\ TooBig
  /\ UNCHANGED vars

\* compact() raises ContextBudgetExceededError and main() takes the pending
\* prompt back; what was compacted before stays compacted.
Refuse ==
  /\ stage = "compacting"
  /\ TooBig
  /\ turns' = RemovePending(turns)
  /\ stage' = "input"
  /\ UNCHANGED <<memory, log>>

\* The server takes a request whose messages all have content.
Acceptable == \A i \in DOMAIN turns : turns[i].content # Empty

\* The stream comes to its [DONE]: the reply, which may be empty, is added.
Answered(a) ==
  /\ stage = "asking"
  /\ Acceptable
  /\ turns' = Append(turns, Turn("assistant", a))
  /\ log' = log \o <<Last(turns), Turn("assistant", a)>>
  /\ stage' = "input"
  /\ UNCHANGED memory

\* Mutant of Failed: the prompt that was not answered stays.
FailedKeeping ==
  /\ stage = "asking"
  /\ stage' = "input"
  /\ UNCHANGED <<turns, memory, log>>

\* stream_prompt() raises a RuntimeError (an HTTP error) or a URLError.
Failed ==
  /\ stage = "asking"
  /\ turns' = RemovePending(turns)
  /\ stage' = "input"
  /\ UNCHANGED <<memory, log>>

\* The client exits, or dies of an error main() does not catch (a timeout, a
\* stream cut off), and is started again: nothing is kept.
Restart ==
  /\ stage \in {"input", "asking"}
  /\ turns' = <<>>
  /\ memory' = <<>>
  /\ log' = <<>>
  /\ stage' = "input"

Compact == DropPair \/ Compacted \/ Refuse
Settle  == Failed \/ \E a \in Replies : Answered(a)

Next == (\E p \in Prompts : Enter(p)) \/ Compact \/ Settle \/ Restart

Spec == Init /\ [][Next]_vars

\* The client's loop runs, and urlopen() returns or raises.
FairSpec == Spec /\ WF_vars(Compact) /\ WF_vars(Settle)

-----------------------------------------------------------------------------
\* Where the answered turns that are left begin in the log.
Dropped == Len(log) - (Len(turns) - (IF stage = "input" THEN 0 ELSE 1))

\* The contents of the prompts compaction has dropped.
DroppedPrompts ==
  {log[i].content : i \in {j \in 1 .. Dropped : log[j].role = "user"}}

\* Each variable has the type the code gives it.
TypeOK ==
  /\ turns \in Seq([role : {"user"}, content : Prompts]
                     \cup [role : {"assistant"}, content : Replies])
  /\ memory \in Seq({Normal[p] : p \in Notable})
  /\ stage \in {"input", "compacting", "asking"}

\* The turns alternate, and end with the pending prompt when there is one:
\* compact() never raises its "invalid turn order", and a request always ends
\* with the user's message, whatever failed before.
TurnOrder ==
  /\ \A i \in DOMAIN turns :
       turns[i].role = IF i % 2 = 1 THEN "user" ELSE "assistant"
  /\ Len(turns) % 2 = (IF stage = "input" THEN 0 ELSE 1)

\* A request that is sent fits the input budget.
RequestFits == stage = "asking" => Size <= Budget

\* The turns kept are the latest of the conversation, with nothing missing in
\* between, and what the user asked to remember in the earlier ones is in the
\* memory: each statement once, and nothing else.
NothingForgotten ==
  /\ Dropped >= 0
  /\ \A i \in 1 .. Len(log) - Dropped : turns[i] = log[Dropped + i]
  /\ ToSet(memory) = {Normal[p] : p \in DroppedPrompts \cap Notable}
  /\ IsInjective(memory)

\* Every prompt is answered, refused or given up: compaction ends although
\* the memory it writes takes tokens too.
EveryPromptSettled == stage # "input" ~> stage = "input"

\* Every request the client sends is one the server's models accept: messages
\* have content (models.py, ChatMessage).
OnlyAcceptableRequests == stage = "asking" => Acceptable

=============================================================================
