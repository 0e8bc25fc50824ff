--------------------------- MODULE MCChatHistory ---------------------------
(***************************************************************************)
(* A small tokenizer: every message costs what its content costs, and the  *)
(* memory message costs its heading and its lines.  The prompts "note" and *)
(* "Note" differ in white space only, and "blue" is another thing to       *)
(* remember; "big" leaves no room for much else.                           *)
(***************************************************************************)
EXTENDS ChatHistory

MCPrompts == {"big", "note", "Note", "blue"}
MCReplies == {"", "ok", "long"}
MCNotable == {"note", "Note", "blue"}
MCNormal  == [p \in MCNotable |-> IF p = "blue" THEN "blue" ELSE "note"]

Cost ==
  [c \in MCPrompts \cup MCReplies |->
     CASE c = "big"  -> 11
       [] c = "long" -> 6
       [] c = "Note" -> 5
       [] c \in {"note", "blue"} -> 4
       [] OTHER -> 1]

Heading == 2
System  == 1

TotalCost(s) == FoldLeft(LAMBDA n, c : n + Cost[c], 0, s)

MCTokens(m, t) ==
  System
    + (IF m = <<>> THEN 0 ELSE Heading + TotalCost(m))
    + TotalCost([i \in DOMAIN t |-> t[i].content])

=============================================================================
