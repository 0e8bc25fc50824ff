-------------------------- MODULE BoundedAdmission --------------------------
(***************************************************************************)
(* What bounded admission promises its callers, without condition          *)
(* variables, futures or counters: at most Capacity requests hold a slot,  *)
(* at most QueueLimit wait, a request starts to wait only when no slot is  *)
(* free, one is refused only when the queue is full and no slot is free    *)
(* that nobody waits for, and a slot that stays free while requests wait   *)
(* is handed to one of them.  Admission implements this                    *)
(* (AdmissionController in                                                 *)
(* 03-production-serving/src/production_serving/admission.py).             *)
(***************************************************************************)
EXTENDS Naturals, FiniteSets

CONSTANTS Requests,    \* the requests
          Capacity,    \* how many may hold a slot at once
          QueueLimit   \* how many may wait for one

VARIABLES holding,     \* the requests that hold a slot
          queued,      \* the requests that wait for one
          refused      \* the requests that were turned away
vars == <<holding, queued, refused>>

Known == holding \cup queued \cup refused

SlotFree == Cardinality(holding) < Capacity

Init == holding = {} /\ queued = {} /\ refused = {}

\* A newcomer takes a free slot.
Admit(r) ==
  /\ r \notin Known
  /\ SlotFree
  /\ holding' = holding \cup {r}
  /\ UNCHANGED <<queued, refused>>

\* A newcomer waits: only when every slot is taken and the queue has room.
Enqueue(r) ==
  /\ r \notin Known
  /\ ~SlotFree
  /\ Cardinality(queued) < QueueLimit
  /\ queued' = queued \cup {r}
  /\ UNCHANGED <<holding, refused>>

\* A newcomer is refused: the queue is full, and a slot that is free, if any,
\* has requests that wait for it.
Refuse(r) ==
  /\ r \notin Known
  /\ ~SlotFree \/ queued # {}
  /\ Cardinality(queued) >= QueueLimit
  /\ refused' = refused \cup {r}
  /\ UNCHANGED <<holding, queued>>

\* A waiting request gets a free slot.
Promote(r) ==
  /\ r \in queued
  /\ SlotFree
  /\ holding' = holding \cup {r}
  /\ queued' = queued \ {r}
  /\ UNCHANGED refused

\* A waiting request gives up.
Leave(r) ==
  /\ r \in queued
  /\ queued' = queued \ {r}
  /\ UNCHANGED <<holding, refused>>

\* A holder gives its slot back.
Finish(r) ==
  /\ r \in holding
  /\ holding' = holding \ {r}
  /\ UNCHANGED <<queued, refused>>

\* A request that was refused may come again.
Return(r) ==
  /\ r \in refused
  /\ refused' = refused \ {r}
  /\ UNCHANGED <<holding, queued>>

Next == \E r \in Requests :
          \/ Admit(r) \/ Enqueue(r) \/ Refuse(r) \/ Return(r)
          \/ Promote(r) \/ Leave(r) \/ Finish(r)

\* The safety part of the promise.
Spec == Init /\ [][Next]_vars

\* The whole promise: a free slot does not stay free while requests wait.
FairSpec == Spec /\ WF_vars(\E r \in Requests : Promote(r))

=============================================================================
