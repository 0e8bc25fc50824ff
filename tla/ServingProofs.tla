---------------------------- MODULE ServingProofs ----------------------------
(***************************************************************************)
(* What holds of chat completions for every number of requests, slots and  *)
(* places in the queue.  The handler uses the admission controller as its  *)
(* module allows, so what AdmissionProofs shows of the controller holds    *)
(* here too.                                                               *)
(***************************************************************************)
EXTENDS Serving, TLAPS, FiniteSetTheorems

P == INSTANCE AdmissionProofs

LEMMA Assumed == P!AdmissionAssumption
BY ServingAssumption DEF P!AdmissionAssumption, P!IsFiniteSet, IsFiniteSet

-----------------------------------------------------------------------------
(* The handler and the controller                                          *)

\* The operations of the controller, whichever instance names them.
LEMMA SameArrival ==
  ASSUME NEW r
  PROVE  /\ A!Acquire(r) => P!Acquire(r)
         /\ A!Reject(r)  => P!Reject(r)
         /\ A!Enqueue(r) => P!Enqueue(r)
BY DEF A!Acquire, A!Reject, A!Enqueue, P!Acquire, P!Reject, P!Enqueue, A!SlotFree, P!SlotFree

LEMMA SameWake ==
  ASSUME NEW r
  PROVE  /\ A!WakeAndTake(r) => P!WakeAndTake(r)
         /\ A!WakeAndWait(r) => P!WakeAndWait(r)
BY DEF A!WakeAndTake, P!WakeAndTake, A!WakeAndWait, P!WakeAndWait, A!SlotFree, P!SlotFree,
       A!Without, P!Without, A!RemoveAt, P!RemoveAt

LEMMA SameRelease ==
  ASSUME NEW r
  PROVE  A!Release(r) => P!Release(r)
BY DEF A!Release, P!Release, A!Notify, P!Notify, A!PendingPlaces, P!PendingPlaces, A!Min, P!Min

LEMMA SameInit == A!Init => P!Init
BY DEF A!Init, P!Init

\* A step of the handler is one operation of the controller, or none.
LEMMA OneOperation ==
  ASSUME [Next]_vars
  PROVE  [P!Next]_(P!vars)
<1>. USE DEF admission
<1>1. CASE UNCHANGED vars
  BY <1>1 DEF vars, P!vars
<1>2. ASSUME NEW r \in Requests,
             Arrive(r) \/ TurnAway(r) \/ Server(r) \/ Sent(r) \/ Finished(r) \/ Disconnect(r)
      PROVE  [P!Next]_(P!vars)
  <2>1. \/ UNCHANGED admission
        \/ A!Acquire(r) \/ A!Reject(r) \/ A!Enqueue(r)
        \/ A!WakeAndTake(r) \/ A!WakeAndWait(r) \/ A!Release(r)
    BY <1>2 DEF Arrive, TurnAway, Server, Sent, Finished, Disconnect, Enter, Wake,
                GenerateReturns, FirstChunk, FirstIsUseless, FirstRaises, Abandoned,
                NextChunk, StreamEnds, Cut, Closed, EndReleased
  <2>2. CASE UNCHANGED admission
    BY <2>2 DEF P!vars
  <2>3. CASE ~UNCHANGED admission
    <3>1. P!Step(r)
      BY <2>1, <2>3, SameArrival, SameWake, SameRelease DEF P!Step, P!Arrive
    <3>. QED BY <3>1 DEF P!Next
  <2>. QED BY <2>2, <2>3
<1>. QED BY <1>1, <1>2 DEF Next

\* The composition keeps the contract of the controller: a chat completion uses
\* it as calls of acquire() and releases of their leases, in every interleaving.
THEOREM UsesAdmissionAsMeant == Spec => P!Spec
<1>1. Init => P!Init
  BY SameInit DEF Init
<1>2. [Next]_vars => [P!Next]_(P!vars)
  BY OneOperation
<1>. QED BY <1>1, <1>2, PTL DEF Spec, P!Spec

LEMMA AdmissionKept == Spec => [](P!TypeOK /\ P!Accounting /\ P!DequeMatchesQueue)
BY UsesAdmissionAsMeant, P!TypeCorrect, P!AccountingCorrect, P!DequeCorrect, Assumed, PTL

-----------------------------------------------------------------------------
(* The handler and its leases                                              *)

Typed ==
  /\ stage \in [Requests -> Stages]
  /\ open \in [Requests -> BOOLEAN] /\ gone \in [Requests -> BOOLEAN]
  /\ unclosed \subseteq Requests

\* Where a request is in its handler tells where it is in the life of its lease.
Lease(r) ==
  /\ stage[r] \in {"idle", "validating"} => status[r] = "new"
  /\ stage[r] = "queued" => status[r] = "waiting"
  /\ stage[r] \in Threads \cup Streaming => status[r] = "holding"
  /\ stage[r] = "done" /\ r \notin unclosed => status[r] \in {"new", "released", "rejected"}
  /\ open[r] => stage[r] \in {"abandoning", "sending", "fetching", "closing"}
  /\ r \in unclosed => stage[r] = "done" /\ status[r] = "holding"

Leases == Typed /\ \A r \in Requests : Lease(r)

LEMMA LeasesInit == Init => Leases
BY DEF Init, A!Init, Leases, Typed, Lease, Stages, Threads, Streaming

\* A step of r changes no other request's place, lease or stream.
LEMMA LeasesAct ==
  ASSUME Leases, P!TypeOK, P!DequeMatchesQueue, NEW r \in Requests,
         Arrive(r) \/ TurnAway(r) \/ Server(r) \/ Sent(r) \/ Finished(r) \/ Disconnect(r)
  PROVE  Leases'
<1>. USE DEF Goto, admission
<1>0. /\ status \in [Requests -> P!Status] /\ Typed /\ Lease(r)
      /\ fut[r] = "notified" => stage[r] = "queued"
  BY DEF P!TypeOK, P!DequeMatchesQueue, P!Queued, Leases, Typed, Lease, Stages
<1>1. PICK s \in Stages : stage' = [stage EXCEPT ![r] = s]
  <2>1. stage' = stage => stage' = [stage EXCEPT ![r] = stage[r]] /\ stage[r] \in Stages
    BY <1>0 DEF Typed
  <2>2. stage' = stage \/ \E s \in Stages : stage' = [stage EXCEPT ![r] = s]
    BY DEF Arrive, TurnAway, Server, Sent, Finished, Disconnect, Enter, Wake, Begin,
           GenerateReturns, FirstChunk, FirstIsUseless, FirstRaises, Abandoned,
           NextChunk, StreamEnds, Cut, Closed, EndReleased, Stages, Threads, Streaming
  <2>. QED BY <2>1, <2>2
<1>2. /\ open' = open \/ \E b \in BOOLEAN : open' = [open EXCEPT ![r] = b]
      /\ gone' = gone \/ \E b \in BOOLEAN : gone' = [gone EXCEPT ![r] = b]
      /\ unclosed' = unclosed \/ unclosed' = unclosed \cup {r}
  BY DEF Arrive, TurnAway, Server, Sent, Finished, Disconnect, Enter, Wake,
         GenerateReturns, FirstChunk, FirstIsUseless, FirstRaises, Abandoned,
         NextChunk, StreamEnds, Cut, Closed
<1>3. status' = status \/ \E x \in P!Status : status' = [status EXCEPT ![r] = x]
  BY DEF Arrive, TurnAway, Server, Sent, Finished, Disconnect, Enter, Wake,
         GenerateReturns, FirstChunk, FirstIsUseless, FirstRaises, Abandoned,
         NextChunk, StreamEnds, Cut, Closed, EndReleased, P!Status,
         A!Acquire, A!Reject, A!Enqueue, A!WakeAndTake, A!WakeAndWait, A!Release
<1>4. Typed'
  BY <1>0, <1>1, <1>2 DEF Typed
<1>5. ASSUME NEW q \in Requests \ {r}
      PROVE  Lease(q)'
  <2>1. stage'[q] = stage[q] /\ status'[q] = status[q] /\ open'[q] = open[q]
    BY <1>0, <1>1, <1>2, <1>3 DEF Typed
  <2>2. q \in unclosed' <=> q \in unclosed
    BY <1>2
  <2>. QED BY <2>1, <2>2 DEF Leases, Lease
<1>6. Lease(r)'
  <2>. USE <1>0 DEF Typed, Lease, Threads, Streaming
  <2>1. CASE Arrive(r) \/ TurnAway(r)
    BY <2>1 DEF Arrive, TurnAway
  <2>2. CASE Enter(r)
    <3>0. UNCHANGED <<open, gone, unclosed>> /\ stage[r] = "validating"
      BY <2>2 DEF Enter
    <3>1. CASE A!Acquire(r) /\ Begin(r)
      BY <3>0, <3>1 DEF Begin, A!Acquire
    <3>2. CASE A!Reject(r) /\ Goto(r, "done")
      BY <3>0, <3>2 DEF A!Reject
    <3>3. CASE A!Enqueue(r) /\ Goto(r, "queued")
      BY <3>0, <3>3 DEF A!Enqueue
    <3>. QED BY <2>2, <3>1, <3>2, <3>3 DEF Enter
  <2>3. CASE Wake(r)
    BY <2>3 DEF Wake, Begin, A!WakeAndTake, A!WakeAndWait
  <2>4. CASE GenerateReturns(r) \/ FirstRaises(r) \/ Abandoned(r)
    <3>1. /\ stage[r] # "done" /\ status' = [status EXCEPT ![r] = "released"]
          /\ stage' = [stage EXCEPT ![r] = "done"] /\ UNCHANGED <<gone, unclosed>>
      BY <2>4 DEF GenerateReturns, FirstRaises, Abandoned, EndReleased, A!Release
    <3>2. ~open'[r]
      BY <2>4 DEF GenerateReturns, FirstRaises, Abandoned
    <3>. QED BY <3>1, <3>2
  <2>5. CASE FirstChunk(r) \/ FirstIsUseless(r)
    BY <2>5 DEF FirstChunk, FirstIsUseless
  <2>6. CASE NextChunk(r) \/ StreamEnds(r) \/ Cut(r)
    BY <2>6 DEF NextChunk, StreamEnds, Cut
  <2>7. CASE Closed(r)
    BY <2>7 DEF Closed, A!Release
  <2>8. CASE Sent(r) \/ Finished(r) \/ Disconnect(r)
    BY <2>8 DEF Sent, Finished, Disconnect
  <2>. QED BY <2>1, <2>2, <2>3, <2>4, <2>5, <2>6, <2>7, <2>8 DEF Server
<1>. QED BY <1>4, <1>5, <1>6 DEF Leases

LEMMA LeasesStep ==
  P!TypeOK /\ P!DequeMatchesQueue /\ Leases /\ [Next]_vars => Leases'
<1>. SUFFICES ASSUME P!TypeOK, P!DequeMatchesQueue, Leases, [Next]_vars PROVE Leases'
  OBVIOUS
<1>1. CASE UNCHANGED vars
  BY <1>1 DEF vars, admission, Leases, Typed, Lease
<1>. QED BY <1>1, LeasesAct DEF Next

LEMMA LeasesInductive == Spec => []Leases
BY LeasesInit, LeasesStep, AdmissionKept, PTL DEF Spec

LEMMA ServingGives ==
  P!TypeOK /\ P!Accounting /\ Leases => TypeOK /\ BackendLoadBounded /\ OnlyFailedCloseLeaves
<1>. SUFFICES ASSUME P!TypeOK, P!Accounting, Leases
              PROVE  TypeOK /\ BackendLoadBounded /\ OnlyFailedCloseLeaves
  OBVIOUS
<1>1. TypeOK
  BY DEF P!TypeOK, A!TypeOK, P!Status, A!Status, TypeOK, Leases, Typed
<1>2. BackendLoadBounded
  <2>1. InBackend \in SUBSET P!Holding
    BY DEF InBackend, Leases, Lease, Threads, Streaming, P!Holding
  <2>2. IsFiniteSet(P!Holding)
    BY ServingAssumption, FS_Subset DEF P!Holding
  <2>3. Cardinality(P!Holding) <= MaxConcurrent
    <3>1. P!Cardinality(P!Holding) = Cardinality(P!Holding)
      BY DEF P!Cardinality, Cardinality
    <3>. QED BY <3>1 DEF P!Accounting
  <2>4. Cardinality(InBackend) <= Cardinality(P!Holding)
    BY <2>1, <2>2, FS_Subset
  <2>5. /\ Cardinality(InBackend) \in Nat /\ Cardinality(P!Holding) \in Nat
        /\ MaxConcurrent \in Nat
    BY <2>1, <2>2, FS_Subset, FS_CardinalityType, ServingAssumption
  <2>. QED BY <2>3, <2>4, <2>5 DEF BackendLoadBounded
<1>3. OnlyFailedCloseLeaves
  BY DEF OnlyFailedCloseLeaves, GaveBack, Leases, Lease, Threads, Streaming
<1>. QED BY <1>1, <1>2, <1>3

LEMMA ServingInvariant == Spec => [](TypeOK /\ BackendLoadBounded /\ OnlyFailedCloseLeaves)
BY LeasesInductive, AdmissionKept, ServingGives, PTL

\* Every variable of the handler and of the controller keeps its type.
THEOREM TypeCorrect == Spec => []TypeOK
BY ServingInvariant, PTL

\* Timeouts, errors, disconnects and streams that are being closed included, the
\* backend works for at most max_concurrent requests at a time.
THEOREM BackendIsProtected == Spec => []BackendLoadBounded
BY ServingInvariant, PTL

\* Whatever way a request ends, it gives its slot back and closes its stream,
\* except that an error of close() keeps the slot.
THEOREM OnlyFailedCloseLeaks == Spec => []OnlyFailedCloseLeaves
BY ServingInvariant, PTL

-----------------------------------------------------------------------------
(* The service seen from its clients                                       *)

\* Whatever the handler does with timeouts, errors and streams, its requests get
\* their slots and their places in the queue as BoundedAdmission promises: each
\* step of the service is one step of that specification, or none.
THEOREM ServesBoundedly == Spec => P!Abstract!Spec
BY UsesAdmissionAsMeant, P!SafelyImplements, Assumed, PTL

\* No end of a request, not even the disconnect of a request that streams, loses
\* the wake-up of one that waits: a slot that is free while requests wait has
\* notified one of them.
THEOREM WaitersAreWoken == Spec => []P!NoLostWakeup
BY UsesAdmissionAsMeant, P!NoWakeupIsLost, Assumed, PTL

=============================================================================
