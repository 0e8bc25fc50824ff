----------------------------- MODULE Admission -----------------------------
(***************************************************************************)
(* AdmissionController and AdmissionLease of                               *)
(* 03-production-serving/src/production_serving/admission.py on CPython's  *)
(* asyncio.Condition.                                                      *)
(*                                                                         *)
(* One event loop runs every request.  The condition's lock is never held  *)
(* across a suspension except by wait(), which gives it up, so the code    *)
(* between two suspensions is one action.  The only suspension is the      *)
(* `await fut` inside Condition.wait(), reached from wait_for: a request   *)
(* there has a future in the condition's deque (`waiters`), and runs again *)
(* after the future is set by notify() or after its task is cancelled.     *)
(*                                                                         *)
(* A member of Requests is one call of acquire() and the lease it returns. *)
(* Recycle lets a finished member stand for a later call, so that a small  *)
(* set of requests gives unboundedly many arrivals.                        *)
(***************************************************************************)
EXTENDS Integers, SequencesExt

CONSTANTS Requests,          \* calls of acquire()
          MaxConcurrent,     \* max_concurrent
          MaxQueued,         \* max_queued
          RenotifyOnCancel   \* does Condition.wait() pass a notification on
                             \* when it is interrupted?  CPython 3.13 does,
                             \* earlier versions do not

ASSUME AdmissionAssumption ==
  /\ IsFiniteSet(Requests)
  /\ MaxConcurrent \in Nat \ {0}
  /\ MaxQueued \in Nat
  /\ RenotifyOnCancel \in BOOLEAN

VARIABLES active,    \* _active
          waiting,   \* _waiting
          waiters,   \* the condition's deque, as the requests of its futures
          fut,       \* the future a request waits on: "none", "pending",
                     \* "notified" (its result is set) or "cancelled" (the task
                     \* was cancelled, before or after the result was set)
          status     \* where a request is in the life of its lease
vars == <<active, waiting, waiters, fut, status>>

Status == {"new", "waiting", "holding", "released", "rejected", "cancelled"}
Over   == {"released", "rejected", "cancelled"}

-----------------------------------------------------------------------------
(* asyncio.Condition                                                       *)

\* deque.remove(fut)
Without(w, r) == RemoveAt(w, CHOOSE i \in DOMAIN w : w[i] = r)

PendingPlaces(w, f) == {i \in DOMAIN w : f[w[i]] = "pending"}

\* notify(1): set the result of the first future in the deque that is not
\* done; cancelled and already notified futures are skipped.
Notify(w, f) ==
  IF PendingPlaces(w, f) = {}
  THEN f
  ELSE [f EXCEPT ![w[Min(PendingPlaces(w, f))]] = "notified"]

-----------------------------------------------------------------------------
SlotFree == active < MaxConcurrent

Init ==
  /\ active = 0
  /\ waiting = 0
  /\ waiters = <<>>
  /\ fut = [r \in Requests |-> "none"]
  /\ status = [r \in Requests |-> "new"]

\* acquire() finds a slot without suspending.  With no queue it takes the
\* fast path; with a queue that still has room it counts itself as waiting,
\* and wait_for evaluates its predicate before it waits for the first time,
\* so a slot released but not yet taken by the request it was announced to
\* goes to the newcomer.
Acquire(r) ==
  /\ status[r] = "new"
  /\ SlotFree
  /\ waiting = 0 \/ waiting < MaxQueued
  /\ active' = active + 1
  /\ status' = [status EXCEPT ![r] = "holding"]
  /\ UNCHANGED <<waiting, waiters, fut>>

\* acquire() raises QueueFullError.
Reject(r) ==
  /\ status[r] = "new"
  /\ ~(SlotFree /\ waiting = 0)
  /\ waiting >= MaxQueued
  /\ status' = [status EXCEPT ![r] = "rejected"]
  /\ UNCHANGED <<active, waiting, waiters, fut>>

\* Mutant of Enqueue: a call that finds a queue joins it even when a slot is
\* free, as with wait() in place of wait_for().
EnqueueBehind(r) ==
  /\ status[r] = "new"
  /\ ~(SlotFree /\ waiting = 0)
  /\ waiting < MaxQueued
  /\ waiting' = waiting + 1
  /\ waiters' = Append(waiters, r)
  /\ fut' = [fut EXCEPT ![r] = "pending"]
  /\ status' = [status EXCEPT ![r] = "waiting"]
  /\ UNCHANGED active

\* acquire() counts itself as waiting and suspends in wait_for.
Enqueue(r) ==
  /\ status[r] = "new"
  /\ ~SlotFree
  /\ waiting < MaxQueued
  /\ waiting' = waiting + 1
  /\ waiters' = Append(waiters, r)
  /\ fut' = [fut EXCEPT ![r] = "pending"]
  /\ status' = [status EXCEPT ![r] = "waiting"]
  /\ UNCHANGED active

\* Mutant of WakeAndTake: the predicate is not tested again after the wake-up.
TakeUntested(r) ==
  /\ fut[r] = "notified"
  /\ active' = active + 1
  /\ waiting' = waiting - 1
  /\ waiters' = Without(waiters, r)
  /\ fut' = [fut EXCEPT ![r] = "none"]
  /\ status' = [status EXCEPT ![r] = "holding"]

\* A notified request runs again and finds a slot: its future leaves the
\* deque, the lease is made, and the finally clause takes it off the count.
WakeAndTake(r) ==
  /\ fut[r] = "notified"
  /\ SlotFree
  /\ active' = active + 1
  /\ waiting' = waiting - 1
  /\ waiters' = Without(waiters, r)
  /\ fut' = [fut EXCEPT ![r] = "none"]
  /\ status' = [status EXCEPT ![r] = "holding"]

\* Mutant of WakeAndWait: the old future stays in the deque.
WaitTwice(r) ==
  /\ fut[r] = "notified"
  /\ ~SlotFree
  /\ waiters' = Append(waiters, r)
  /\ fut' = [fut EXCEPT ![r] = "pending"]
  /\ UNCHANGED <<active, waiting, status>>

\* A notified request runs again and finds that the slot is gone: wait_for
\* waits once more, with a new future at the tail of the deque.
WakeAndWait(r) ==
  /\ fut[r] = "notified"
  /\ ~SlotFree
  /\ waiters' = Append(Without(waiters, r), r)
  /\ fut' = [fut EXCEPT ![r] = "pending"]
  /\ UNCHANGED <<active, waiting, status>>

\* The task of a waiting request is cancelled.  It runs again later (Unwind).
\* A cancellation after the notification is thrown at the same place.
Cancel(r) ==
  /\ fut[r] \in {"pending", "notified"}
  /\ fut' = [fut EXCEPT ![r] = "cancelled"]
  /\ UNCHANGED <<active, waiting, waiters, status>>

\* The notification wait() passes on before it re-raises CancelledError.
PassOn(w, f) == IF RenotifyOnCancel THEN Notify(w, f) ELSE f

\* Mutant of Unwind: no finally clause around the wait.
UnwindUncounted(r) ==
  /\ fut[r] = "cancelled"
  /\ waiters' = Without(waiters, r)
  /\ fut' = PassOn(waiters', [fut EXCEPT ![r] = "none"])
  /\ status' = [status EXCEPT ![r] = "cancelled"]
  /\ UNCHANGED <<active, waiting>>

\* Mutant of Unwind: the finally clause counts down and does not notify.
UnwindSilently(r) ==
  /\ fut[r] = "cancelled"
  /\ waiting' = waiting - 1
  /\ waiters' = Without(waiters, r)
  /\ fut' = PassOn(waiters', [fut EXCEPT ![r] = "none"])
  /\ status' = [status EXCEPT ![r] = "cancelled"]
  /\ UNCHANGED active

\* A cancelled request runs again: its future leaves the deque, wait() passes
\* the notification on, and the finally clause of acquire() takes the request
\* off the count and notifies once more when a slot is free.
Unwind(r) ==
  /\ fut[r] = "cancelled"
  /\ waiting' = waiting - 1
  /\ waiters' = Without(waiters, r)
  /\ LET f == PassOn(waiters', [fut EXCEPT ![r] = "none"])
     IN  fut' = IF SlotFree THEN Notify(waiters', f) ELSE f
  /\ status' = [status EXCEPT ![r] = "cancelled"]
  /\ UNCHANGED active

\* Mutant of Release: the slot is given back without a notification.
ReleaseSilently(r) ==
  /\ status[r] = "holding"
  /\ active' = active - 1
  /\ status' = [status EXCEPT ![r] = "released"]
  /\ UNCHANGED <<waiting, waiters, fut>>

\* AdmissionLease.release() and the controller's release() it calls: the slot
\* is given back and one waiting request is notified.
Release(r) ==
  /\ status[r] = "holding"
  /\ active' = active - 1
  /\ fut' = Notify(waiters, fut)
  /\ status' = [status EXCEPT ![r] = "released"]
  /\ UNCHANGED <<waiting, waiters>>

\* A lease released again: _released is set and nothing happens.
ReleaseAgain(r) ==
  /\ status[r] = "released"
  /\ UNCHANGED vars

\* A finished request stands for a later call.
Recycle(r) ==
  /\ status[r] \in Over
  /\ status' = [status EXCEPT ![r] = "new"]
  /\ UNCHANGED <<active, waiting, waiters, fut>>

-----------------------------------------------------------------------------
\* A call of acquire() that has not suspended yet.
Arrive(r) == Acquire(r) \/ Reject(r) \/ Enqueue(r)

\* One call of acquire() and the release of its lease.
Step(r) ==
  \/ Arrive(r)
  \/ WakeAndTake(r) \/ WakeAndWait(r)
  \/ Cancel(r) \/ Unwind(r)
  \/ Release(r) \/ ReleaseAgain(r)

Next == \E r \in Requests : Step(r) \/ Recycle(r)

Spec == Init /\ [][Next]_vars

\* The event loop runs every task that is ready, and every holder releases
\* its lease in the end: each path through create_chat_completion and
\* stream_chat_completion does, when the backend call it waits for returns.
Fairness == \A r \in Requests :
  /\ WF_vars(WakeAndTake(r) \/ WakeAndWait(r))
  /\ WF_vars(Unwind(r))
  /\ WF_vars(Release(r))

FairSpec == Spec /\ Fairness

-----------------------------------------------------------------------------
Holding  == {r \in Requests : status[r] = "holding"}
Queued   == {r \in Requests : status[r] = "waiting"}
Rejected == {r \in Requests : status[r] = "rejected"}
Pending  == {r \in Requests : fut[r] = "pending"}
Awakened == {r \in Requests : fut[r] \in {"notified", "cancelled"}}

\* Each variable has the type the code gives it.
TypeOK ==
  /\ active \in 0 .. MaxConcurrent
  /\ waiting \in 0 .. MaxQueued
  /\ waiters \in Seq(Requests)
  /\ fut \in [Requests -> {"none", "pending", "notified", "cancelled"}]
  /\ status \in [Requests -> Status]

\* The counters tell the truth: _active is the number of leases that are out
\* and never exceeds max_concurrent, _waiting is the number of calls between
\* the two updates of the counter and never exceeds max_queued.  In particular
\* release() with a lease in hand never raises its RuntimeError.
Accounting ==
  /\ active = Cardinality(Holding)
  /\ active <= MaxConcurrent
  /\ waiting = Cardinality(Queued)
  /\ waiting <= MaxQueued

\* The condition's deque holds one future for each waiting call and nothing
\* else: a cancelled or served call leaves none behind for notify() to waste
\* a notification on.
DequeMatchesQueue ==
  /\ IsInjective(waiters)
  /\ ToSet(waiters) = Queued
  /\ \A r \in Requests : r \in Queued <=> fut[r] # "none"

\* No lost wake-up: while some waiting call is not on its way to run, the
\* slots in use and the calls on their way account for every slot, so a free
\* slot always has a call coming for it, whichever of them are cancelled.
NoLostWakeup == Pending # {} => active + Cardinality(Awakened) >= MaxConcurrent

\* The request queue is as abstract admission promises: who waits, who is
\* refused and when, and that a free slot is handed to a waiting request.
Abstract == INSTANCE BoundedAdmission WITH
  Capacity <- MaxConcurrent, QueueLimit <- MaxQueued,
  holding <- Holding, queued <- Queued, refused <- Rejected
ImplementsBoundedAdmission == Abstract!FairSpec

\* First come, first served: a call that finds others waiting does not get a
\* slot before them (README.md of the repository calls the queue FIFO, and the
\* fast path of acquire() tests _waiting == 0).
NoBarging == [][\A r \in Requests :
  status[r] = "new" /\ status'[r] = "holding" => Queued = {}]_vars

=============================================================================
