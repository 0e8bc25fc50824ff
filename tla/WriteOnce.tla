------------------------------ MODULE WriteOnce ------------------------------
(***************************************************************************)
(* What publishing a file promises, without temporary names, calls that    *)
(* raise or processes that are killed: a path that has no file gets one in *)
(* a single step, all of it, and after that only a power loss takes it     *)
(* away, and then the whole of it.  Whose file it is may be told so, or    *)
(* may not; nobody else is.  Publishing implements this (write_jsonl() and *)
(* write_markdown() in 02-local-inference/src/local_inference).            *)
(***************************************************************************)
EXTENDS Naturals

CONSTANTS Processes, Paths, None,
          Target(_),         \* the path a process publishes under
          Complete(_, _)     \* whether what is shown has all that a process publishes

VARIABLES maker,     \* who made the file of each path
          shown,     \* its lines
          told,      \* the processes that were told their file is published
          losses     \* power losses so far
vars == <<maker, shown, told, losses>>

Init ==
  /\ maker = [t \in Paths |-> None]
  /\ shown = [t \in Paths |-> <<>>]
  /\ told = {} /\ losses = 0

\* A path without a file gets that of p.
Publish(p) ==
  /\ p \notin told /\ maker[Target(p)] = None
  /\ maker' = [maker EXCEPT ![Target(p)] = p]
  /\ shown' = [shown EXCEPT ![Target(p)] = shown'[Target(p)]]
  /\ Complete(p, shown')
  /\ UNCHANGED <<told, losses>>

\* p, whose file it is, is told so.
Tell(p) ==
  /\ p \notin told /\ maker[Target(p)] = p
  /\ told' = told \cup {p}
  /\ UNCHANGED <<maker, shown, losses>>

\* The power fails: files disappear, and those that do not stay as they are.
PowerLoss ==
  /\ losses' = losses + 1
  /\ \E gone \in SUBSET Paths :
       /\ maker' = [t \in Paths |-> IF t \in gone THEN None ELSE maker[t]]
       /\ shown' = [t \in Paths |-> IF t \in gone THEN <<>> ELSE shown[t]]
  /\ UNCHANGED told

Next == (\E p \in Processes : Publish(p) \/ Tell(p)) \/ PowerLoss

Spec == Init /\ [][Next]_vars

=============================================================================
