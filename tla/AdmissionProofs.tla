-------------------------- MODULE AdmissionProofs --------------------------
(***************************************************************************)
(* What holds of AdmissionController for every max_concurrent, every       *)
(* max_queued and every finite set of calls.                               *)
(***************************************************************************)
EXTENDS Admission, TLAPS, FiniteSetTheorems, SequenceTheorems,
        WellFoundedInduction

-----------------------------------------------------------------------------
(* Lemmas about the operators of the condition variable                    *)

\* Min of a non-empty set of naturals is its least member.
LEMMA MinInSet ==
  ASSUME NEW S \in SUBSET Nat, S # {}
  PROVE  Min(S) \in S /\ \A y \in S : Min(S) <= y
<1>. DEFINE upTo == {0 .. n : n \in S}
<1>1. upTo \subseteq FiniteSubsetsOf(Nat) /\ upTo # {}
  <2>1. \A n \in Nat : IsFiniteSet(0 .. n) /\ 0 .. n \in SUBSET Nat
    BY FS_Interval
  <2>. QED BY <2>1 DEF FiniteSubsetsOf
<1>2. PICK m \in upTo : \A k \in upTo : <<k, m>> \notin StrictSubsetOrdering(Nat)
  BY <1>1, FS_StrictSubsetOrderingWellFounded, WFMin, Zenon
<1>3. PICK x \in S : m = 0 .. x
  OBVIOUS
<1>4. ASSUME NEW y \in S PROVE x <= y
  <2>1. SUFFICES ASSUME y < x PROVE FALSE
    OBVIOUS
  <2>2. 0 .. y \subseteq 0 .. x /\ 0 .. y # 0 .. x
    <3>1. x \in 0 .. x /\ x \notin 0 .. y
      BY <2>1
    <3>. QED BY <2>1, <3>1
  <2>3. <<0 .. y, 0 .. x>> \in StrictSubsetOrdering(Nat)
    <3>1. 0 .. y \in SUBSET Nat /\ 0 .. x \in SUBSET Nat
      OBVIOUS
    <3>. QED BY <2>2, <3>1 DEF StrictSubsetOrdering
  <2>. QED BY <2>3, <1>2, <1>3
<1>. QED BY <1>3, <1>4 DEF Min

\* RemoveAt drops the place it is given and closes the gap.
LEMMA RemoveAtDrops ==
  ASSUME NEW w \in Seq(Requests), NEW k \in 1 .. Len(w)
  PROVE  /\ RemoveAt(w, k) \in Seq(Requests)
         /\ Len(RemoveAt(w, k)) = Len(w) - 1
         /\ \A i \in 1 .. Len(w) - 1 :
              RemoveAt(w, k)[i] = IF i < k THEN w[i] ELSE w[i+1]
<1>1. PICK s : s = SubSeq(w, 1, k-1)
  OBVIOUS
<1>2. PICK t : t = SubSeq(w, k+1, Len(w))
  OBVIOUS
<1>3. Len(w) \in Nat /\ \A i \in 1 .. Len(w) : w[i] \in Requests
  BY ElementOfSeq, LenProperties
<1>4. /\ s \in Seq(Requests)
      /\ Len(s) = k - 1
      /\ \A i \in 1 .. k-1 : s[i] = w[i]
  <2>1. \A i \in 1 .. k-1 : w[i] \in Requests
    BY <1>3
  <2>. QED BY <1>1, <1>3, <2>1, SubSeqProperties
<1>5. /\ t \in Seq(Requests)
      /\ Len(t) = Len(w) - k
      /\ \A i \in 1 .. Len(w) - k : t[i] = w[k+i]
  <2>1. \A i \in k+1 .. Len(w) : w[i] \in Requests
    BY <1>3
  <2>. QED BY <1>2, <1>3, <2>1, SubSeqProperties
<1>6. /\ s \o t \in Seq(Requests)
      /\ Len(s \o t) = Len(s) + Len(t)
      /\ \A i \in 1 .. Len(s) + Len(t) :
           (s \o t)[i] = IF i <= Len(s) THEN s[i] ELSE t[i - Len(s)]
  BY <1>4, <1>5, ConcatProperties
<1>7. RemoveAt(w, k) = s \o t
  BY <1>1, <1>2 DEF RemoveAt
<1>8. PICK u : u = s \o t
  OBVIOUS
<1>9. u \in Seq(Requests) /\ Len(u) = Len(w) - 1
  BY <1>3, <1>4, <1>5, <1>6, <1>8
<1>10. ASSUME NEW i \in 1 .. Len(w) - 1
       PROVE  u[i] = IF i < k THEN w[i] ELSE w[i+1]
  <2>1. CASE i < k
    BY <1>3, <1>4, <1>5, <1>6, <1>8, <2>1
  <2>2. CASE i >= k
    <3>1. u[i] = t[i - (k - 1)]
      BY <1>3, <1>4, <1>5, <1>6, <1>8, <2>2
    <3>2. i - (k - 1) \in 1 .. Len(w) - k /\ k + (i - (k - 1)) = i + 1
      BY <1>3, <2>2
    <3>. QED BY <1>5, <2>2, <3>1, <3>2
  <2>. QED BY <1>3, <2>1, <2>2
<1>. QED BY <1>7, <1>8, <1>9, <1>10

\* Without takes exactly the future of r out of a deque without duplicates.
LEMMA WithoutRemoves ==
  ASSUME NEW w \in Seq(Requests), IsInjective(w), NEW r \in ToSet(w)
  PROVE  /\ Without(w, r) \in Seq(Requests)
         /\ IsInjective(Without(w, r))
         /\ ToSet(Without(w, r)) = ToSet(w) \ {r}
<1>1. PICK k \in 1 .. Len(w) : w[k] = r /\ Without(w, r) = RemoveAt(w, k)
  <2>. DEFINE k == CHOOSE i \in DOMAIN w : w[i] = r
  <2>1. k \in DOMAIN w /\ w[k] = r
    BY DEF ToSet
  <2>2. Without(w, r) = RemoveAt(w, k)
    BY DEF Without
  <2>. HIDE DEF k
  <2>. QED BY <2>1, <2>2, LenProperties
<1>2. PICK v : v = Without(w, r)
  OBVIOUS
<1>3. /\ v \in Seq(Requests)
      /\ Len(v) = Len(w) - 1
      /\ \A i \in 1 .. Len(w) - 1 : v[i] = IF i < k THEN w[i] ELSE w[i+1]
  BY <1>1, <1>2, RemoveAtDrops
<1>4. /\ DOMAIN w = 1 .. Len(w)
      /\ DOMAIN v = 1 .. Len(w) - 1
      /\ Len(w) \in Nat
  BY <1>3, LenProperties
<1>5. \A i, j \in 1 .. Len(w) : w[i] = w[j] => i = j
  BY <1>4 DEF IsInjective
<1>6. IsInjective(v)
  <2>1. SUFFICES ASSUME NEW i \in 1 .. Len(w) - 1, NEW j \in 1 .. Len(w) - 1,
                        v[i] = v[j]
                 PROVE  i = j
    BY <1>4 DEF IsInjective
  <2>. QED BY <1>3, <1>4, <1>5, <2>1
<1>7. \A i \in 1 .. Len(w) - 1 : v[i] \in ToSet(w) /\ v[i] # r
  <2>1. SUFFICES ASSUME NEW i \in 1 .. Len(w) - 1
                 PROVE  \E j \in 1 .. Len(w) : v[i] = w[j] /\ w[j] # r
    BY <1>4 DEF ToSet
  <2>2. CASE i < k
    <3>1. i \in 1 .. Len(w) /\ i # k /\ v[i] = w[i]
      BY <1>3, <1>4, <2>2
    <3>. QED BY <1>1, <1>5, <3>1
  <2>3. CASE i >= k
    <3>1. i + 1 \in 1 .. Len(w) /\ i + 1 # k /\ v[i] = w[i+1]
      BY <1>3, <1>4, <2>3
    <3>. QED BY <1>1, <1>5, <3>1
  <2>. QED BY <1>4, <2>2, <2>3
<1>8. ASSUME NEW j \in 1 .. Len(w), w[j] # r
      PROVE  \E i \in 1 .. Len(w) - 1 : v[i] = w[j]
  <2>1. CASE j < k
    BY <1>3, <1>4, <2>1
  <2>2. CASE j > k
    <3>1. j - 1 \in 1 .. Len(w) - 1 /\ ~(j - 1 < k) /\ (j - 1) + 1 = j
      BY <1>4, <2>2
    <3>. QED BY <1>3, <3>1
  <2>. QED BY <1>1, <1>4, <1>8, <2>1, <2>2
<1>9. ToSet(v) = ToSet(w) \ {r}
  <2>1. ToSet(v) = {v[i] : i \in 1 .. Len(w) - 1}
    BY <1>4 DEF ToSet
  <2>2. ToSet(w) = {w[i] : i \in 1 .. Len(w)}
    BY <1>4 DEF ToSet
  <2>. QED BY <1>7, <1>8, <2>1, <2>2
<1>. QED BY <1>2, <1>3, <1>6, <1>9

\* Appending a future that is not in the deque adds it and nothing else.
LEMMA AppendAdds ==
  ASSUME NEW w \in Seq(Requests), IsInjective(w),
         NEW r \in Requests, r \notin ToSet(w)
  PROVE  /\ Append(w, r) \in Seq(Requests)
         /\ IsInjective(Append(w, r))
         /\ ToSet(Append(w, r)) = ToSet(w) \cup {r}
<1>1. /\ Append(w, r) \in Seq(Requests)
      /\ Len(Append(w, r)) = Len(w) + 1
      /\ \A i \in 1 .. Len(w) : Append(w, r)[i] = w[i]
      /\ Append(w, r)[Len(w) + 1] = r
  BY AppendProperties
<1>. QED BY <1>1 DEF IsInjective, ToSet

\* notify(1) sets the result of one pending future of the deque, or finds
\* none and does nothing.
LEMMA NotifySetsOne ==
  ASSUME NEW w \in Seq(Requests), NEW f
  PROVE  \/ /\ \A p \in ToSet(w) : f[p] # "pending"
            /\ Notify(w, f) = f
         \/ \E p \in ToSet(w) : /\ f[p] = "pending"
                                /\ Notify(w, f) = [f EXCEPT ![p] = "notified"]
<1>1. CASE PendingPlaces(w, f) = {}
  BY <1>1 DEF PendingPlaces, Notify, ToSet
<1>2. CASE PendingPlaces(w, f) # {}
  <2>1. Min(PendingPlaces(w, f)) \in PendingPlaces(w, f)
    <3>1. PendingPlaces(w, f) \in SUBSET Nat
      BY DEF PendingPlaces
    <3>. QED BY <1>2, <3>1, MinInSet
  <2>2. Min(PendingPlaces(w, f)) \in DOMAIN w /\ f[w[Min(PendingPlaces(w, f))]] = "pending"
    BY <2>1 DEF PendingPlaces
  <2>. QED BY <1>2, <2>2 DEF Notify, ToSet
<1>. QED BY <1>1, <1>2

-----------------------------------------------------------------------------
(* The deque                                                               *)

\* The parts of the state that notify() and the deque are about.
QueueShape(w, f, q) ==
  /\ w \in Seq(Requests)
  /\ IsInjective(w)
  /\ ToSet(w) = q
  /\ f \in [Requests -> {"none", "pending", "notified", "cancelled"}]
  /\ \A r \in Requests : r \in q <=> f[r] # "none"

\* notify(1) leaves the deque and the set of waiting calls as they are.
LEMMA NotifyKeepsShape ==
  ASSUME NEW w, NEW f, NEW q, QueueShape(w, f, q)
  PROVE  QueueShape(w, Notify(w, f), q)
<1>1. CASE Notify(w, f) = f
  BY <1>1
<1>2. ASSUME NEW p \in ToSet(w), f[p] = "pending",
             Notify(w, f) = [f EXCEPT ![p] = "notified"]
      PROVE  QueueShape(w, Notify(w, f), q)
  BY <1>2 DEF QueueShape
<1>. QED BY <1>1, <1>2, NotifySetsOne DEF QueueShape

\* The calls whose future is pending, and those on their way to run.
PendingIn(f) == {r \in Requests : f[r] = "pending"}
AwakeIn(f)   == {r \in Requests : f[r] \in {"notified", "cancelled"}}

\* notify(1) wakes one more call when one is pending.
LEMMA NotifyWakesOne ==
  ASSUME NEW w, NEW f, NEW q, QueueShape(w, f, q), PendingIn(f) # {}
  PROVE  Cardinality(AwakeIn(Notify(w, f))) = Cardinality(AwakeIn(f)) + 1
<1>1. PICK p \in ToSet(w) : /\ f[p] = "pending"
                            /\ Notify(w, f) = [f EXCEPT ![p] = "notified"]
  <2>1. \E r \in ToSet(w) : f[r] = "pending"
    BY DEF PendingIn, QueueShape
  <2>. QED BY <2>1, NotifySetsOne DEF QueueShape
<1>2. p \in Requests
  BY <1>1, RangeOfSeq DEF QueueShape, ToSet
<1>3. AwakeIn(Notify(w, f)) = AwakeIn(f) \cup {p} /\ p \notin AwakeIn(f)
  BY <1>1, <1>2 DEF AwakeIn, QueueShape
<1>4. IsFiniteSet(AwakeIn(f))
  BY FS_Subset, AdmissionAssumption DEF AwakeIn, AdmissionAssumption
<1>. QED BY <1>3, <1>4, FS_AddElement

\* notify(1) makes no call pending and puts none to sleep.
LEMMA NotifyNeverSleeps ==
  ASSUME NEW w, NEW f, NEW q, QueueShape(w, f, q)
  PROVE  /\ PendingIn(Notify(w, f)) \subseteq PendingIn(f)
         /\ AwakeIn(f) \subseteq AwakeIn(Notify(w, f))
<1>1. CASE Notify(w, f) = f
  BY <1>1
<1>2. ASSUME NEW p \in ToSet(w), f[p] = "pending",
             Notify(w, f) = [f EXCEPT ![p] = "notified"]
      PROVE  /\ PendingIn(Notify(w, f)) \subseteq PendingIn(f)
             /\ AwakeIn(f) \subseteq AwakeIn(Notify(w, f))
  BY <1>2 DEF QueueShape, PendingIn, AwakeIn
<1>. QED BY <1>1, <1>2, NotifySetsOne DEF QueueShape

\* The types without the bounds of the counters, which Accounting gives.
Types ==
  /\ active \in Int
  /\ waiting \in Int
  /\ waiters \in Seq(Requests)
  /\ fut \in [Requests -> {"none", "pending", "notified", "cancelled"}]
  /\ status \in [Requests -> Status]

\* The types and the shape of the deque, which need each other.
Shape == Types /\ DequeMatchesQueue

\* Shape, written with QueueShape.
LEMMA ShapeIsQueueShape ==
  Shape <=> /\ active \in Int /\ waiting \in Int
            /\ status \in [Requests -> Status]
            /\ QueueShape(waiters, fut, Queued)
BY DEF Shape, Types, DequeMatchesQueue, QueueShape

\* What a cancelled call leaves of the deque when it runs again.
LEMMA UnwindShape ==
  ASSUME Shape, NEW r \in Requests, Unwind(r)
  PROVE  \E f, g :
           /\ f = [fut EXCEPT ![r] = "none"]
           /\ g = PassOn(waiters', f)
           /\ fut' = IF SlotFree THEN Notify(waiters', g) ELSE g
           /\ QueueShape(waiters', f, Queued \ {r})
           /\ QueueShape(waiters', g, Queued \ {r})
           /\ QueueShape(waiters', fut', Queued \ {r})
<1>1. PICK f, g : /\ f = [fut EXCEPT ![r] = "none"]
                  /\ g = PassOn(waiters', f)
                  /\ fut' = IF SlotFree THEN Notify(waiters', g) ELSE g
  BY DEF Unwind
<1>2. QueueShape(waiters, fut, Queued)
  BY ShapeIsQueueShape
<1>3. QueueShape(waiters', f, Queued \ {r})
  <2>1. r \in ToSet(waiters) /\ waiters' = Without(waiters, r)
    BY <1>2 DEF Unwind, QueueShape
  <2>2. /\ waiters' \in Seq(Requests)
        /\ IsInjective(waiters')
        /\ ToSet(waiters') = Queued \ {r}
    BY <1>2, <2>1, WithoutRemoves DEF QueueShape
  <2>. QED BY <1>1, <1>2, <2>2 DEF QueueShape
<1>4. QueueShape(waiters', g, Queued \ {r})
  BY <1>1, <1>3, NotifyKeepsShape DEF PassOn
<1>5. QueueShape(waiters', fut', Queued \ {r})
  BY <1>1, <1>4, NotifyKeepsShape
<1>. QED BY <1>1, <1>3, <1>4, <1>5

\* Every step keeps the variables typed and the deque true to the queue.
LEMMA ShapeStep ==
  ASSUME Shape, [Next]_vars
  PROVE  Shape'
<1>. USE DEF Status
<1>0. /\ active \in Int /\ waiting \in Int
      /\ status \in [Requests -> Status]
      /\ QueueShape(waiters, fut, Queued)
  BY ShapeIsQueueShape
<1>. DEFINE Goal == /\ active' \in Int /\ waiting' \in Int
                    /\ status' \in [Requests -> Status]
                    /\ QueueShape(waiters', fut', Queued')
<1>1. SUFFICES Goal
  BY DEF Shape, Types, DequeMatchesQueue, QueueShape
<1>2. ASSUME NEW r \in Requests, Acquire(r) PROVE Goal
  <2>1. Queued' = Queued
    BY <1>0, <1>2 DEF Acquire, Queued
  <2>. QED BY <1>0, <1>2, <2>1 DEF Acquire
<1>3. ASSUME NEW r \in Requests, Reject(r) PROVE Goal
  <2>1. Queued' = Queued
    BY <1>0, <1>3 DEF Reject, Queued
  <2>. QED BY <1>0, <1>3, <2>1 DEF Reject
<1>4. ASSUME NEW r \in Requests, Enqueue(r) PROVE Goal
  <2>1. Queued' = Queued \cup {r} /\ r \notin Queued
    BY <1>0, <1>4 DEF Enqueue, Queued
  <2>2. QueueShape(waiters', fut', Queued \cup {r})
    BY <1>0, <1>4, <2>1, AppendAdds DEF Enqueue, QueueShape
  <2>. QED BY <1>0, <1>4, <2>1, <2>2 DEF Enqueue
<1>5. ASSUME NEW r \in Requests, WakeAndTake(r) PROVE Goal
  <2>1. r \in Queued /\ Queued' = Queued \ {r}
    BY <1>0, <1>5 DEF WakeAndTake, Queued, QueueShape
  <2>2. QueueShape(waiters', fut', Queued \ {r})
    BY <1>0, <1>5, <2>1, WithoutRemoves DEF WakeAndTake, QueueShape
  <2>. QED BY <1>0, <1>5, <2>1, <2>2 DEF WakeAndTake
<1>6. ASSUME NEW r \in Requests, WakeAndWait(r) PROVE Goal
  <2>1. r \in Queued /\ Queued' = Queued
    BY <1>0, <1>6 DEF WakeAndWait, Queued, QueueShape
  <2>2. /\ Without(waiters, r) \in Seq(Requests)
        /\ IsInjective(Without(waiters, r))
        /\ ToSet(Without(waiters, r)) = Queued \ {r}
    BY <1>0, <2>1, WithoutRemoves DEF QueueShape
  <2>3. /\ waiters' \in Seq(Requests)
        /\ IsInjective(waiters')
        /\ ToSet(waiters') = Queued
    <3>1. PICK w : w = Without(waiters, r)
      OBVIOUS
    <3>2. waiters' = Append(w, r) /\ r \notin ToSet(w)
      BY <1>6, <2>2, <3>1 DEF WakeAndWait
    <3>3. w \in Seq(Requests) /\ IsInjective(w) /\ ToSet(w) = Queued \ {r}
      BY <2>2, <3>1
    <3>4. /\ Append(w, r) \in Seq(Requests)
          /\ IsInjective(Append(w, r))
          /\ ToSet(Append(w, r)) = (Queued \ {r}) \cup {r}
      BY <3>2, <3>3, AppendAdds
    <3>. QED BY <2>1, <3>2, <3>4
  <2>4. QueueShape(waiters', fut', Queued)
    BY <1>0, <1>6, <2>1, <2>3 DEF WakeAndWait, QueueShape
  <2>. QED BY <1>0, <1>6, <2>1, <2>4 DEF WakeAndWait
<1>7. ASSUME NEW r \in Requests, Cancel(r) PROVE Goal
  <2>1. Queued' = Queued
    BY <1>0, <1>7 DEF Cancel, Queued
  <2>2. QueueShape(waiters', fut', Queued)
    BY <1>0, <1>7 DEF Cancel, QueueShape
  <2>. QED BY <1>0, <1>7, <2>1, <2>2 DEF Cancel
<1>8. ASSUME NEW r \in Requests, Unwind(r) PROVE Goal
  <2>1. Queued' = Queued \ {r}
    BY <1>0, <1>8 DEF Unwind, Queued
  <2>2. QueueShape(waiters', fut', Queued \ {r})
    BY <1>8, UnwindShape
  <2>. QED BY <1>0, <1>8, <2>1, <2>2 DEF Unwind
<1>9. ASSUME NEW r \in Requests, Release(r) PROVE Goal
  <2>1. Queued' = Queued
    BY <1>0, <1>9 DEF Release, Queued
  <2>2. QueueShape(waiters', fut', Queued)
    BY <1>0, <1>9, NotifyKeepsShape DEF Release
  <2>. QED BY <1>0, <1>9, <2>1, <2>2 DEF Release
<1>10. ASSUME NEW r \in Requests, Recycle(r) PROVE Goal
  <2>1. Queued' = Queued
    BY <1>0, <1>10 DEF Recycle, Queued, Over
  <2>. QED BY <1>0, <1>10, <2>1 DEF Recycle
<1>11. CASE UNCHANGED vars
  BY <1>0, <1>11 DEF vars, Queued
<1>. QED
  BY <1>2, <1>3, <1>4, <1>5, <1>6, <1>7, <1>8, <1>9, <1>10, <1>11
  DEF Next, Step, Arrive, ReleaseAgain

\* The controller starts in that shape.
LEMMA ShapeInit == Init => Shape
<1>. SUFFICES ASSUME Init PROVE Shape
  OBVIOUS
<1>1. Types
  BY EmptySeq DEF Init, Types, Status
<1>2. DequeMatchesQueue
  BY DEF Init, DequeMatchesQueue, IsInjective, ToSet, Queued
<1>. QED BY <1>1, <1>2 DEF Shape

\* The condition's deque holds one future for each waiting call, no more.
THEOREM DequeCorrect == Spec => []DequeMatchesQueue
<1>1. Init => Shape
  BY ShapeInit
<1>2. Shape /\ [Next]_vars => Shape'
  BY ShapeStep
<1>3. Shape => DequeMatchesQueue
  BY DEF Shape
<1>. QED BY <1>1, <1>2, <1>3, PTL DEF Spec

-----------------------------------------------------------------------------
(* The counters                                                            *)

\* What the counters count is finite.
LEMMA FiniteSets ==
  /\ IsFiniteSet(Holding) /\ Cardinality(Holding) \in Nat
  /\ IsFiniteSet(Queued) /\ Cardinality(Queued) \in Nat
  /\ IsFiniteSet(Awakened) /\ Cardinality(Awakened) \in Nat
BY AdmissionAssumption, FS_Subset, FS_CardinalityType
   DEF AdmissionAssumption, Holding, Queued, Awakened

\* A waiting call is one whose future is in the deque.
LEMMA AwakenedIsQueued ==
  ASSUME Shape, NEW r \in Requests, fut[r] # "none"
  PROVE  status[r] = "waiting" /\ r \in Queued /\ r \notin Holding
BY DEF Shape, DequeMatchesQueue, Queued, Holding

\* Every step keeps both counters equal to what they count, within bounds.
LEMMA AccountingStep ==
  ASSUME Shape, Accounting, [Next]_vars
  PROVE  Accounting'
<1>. USE FiniteSets, AdmissionAssumption DEF AdmissionAssumption, Accounting
<1>0. status \in [Requests -> Status]
  BY DEF Shape, Types
<1>1. ASSUME NEW r \in Requests, Acquire(r) PROVE Accounting'
  <2>1. Holding' = Holding \cup {r} /\ r \notin Holding /\ Queued' = Queued
    BY <1>0, <1>1 DEF Acquire, Holding, Queued, Status
  <2>2. Cardinality(Holding') = Cardinality(Holding) + 1
    BY <2>1, FS_AddElement
  <2>. QED BY <1>1, <2>1, <2>2 DEF Acquire, SlotFree
<1>2. ASSUME NEW r \in Requests, Reject(r) PROVE Accounting'
  <2>1. Holding' = Holding /\ Queued' = Queued
    BY <1>0, <1>2 DEF Reject, Holding, Queued, Status
  <2>. QED BY <1>2, <2>1 DEF Reject
<1>3. ASSUME NEW r \in Requests, Enqueue(r) PROVE Accounting'
  <2>1. Holding' = Holding /\ Queued' = Queued \cup {r} /\ r \notin Queued
    BY <1>0, <1>3 DEF Enqueue, Holding, Queued, Status
  <2>2. Cardinality(Queued') = Cardinality(Queued) + 1
    BY <2>1, FS_AddElement
  <2>. QED BY <1>3, <2>1, <2>2 DEF Enqueue
<1>4. ASSUME NEW r \in Requests, WakeAndTake(r) PROVE Accounting'
  <2>0. r \in Queued /\ r \notin Holding
    BY <1>4, AwakenedIsQueued DEF WakeAndTake
  <2>1. Holding' = Holding \cup {r} /\ Queued' = Queued \ {r}
    BY <1>0, <1>4 DEF WakeAndTake, Holding, Queued, Status
  <2>2. /\ Cardinality(Holding') = Cardinality(Holding) + 1
        /\ Cardinality(Queued') = Cardinality(Queued) - 1
    BY <2>0, <2>1, FS_AddElement, FS_RemoveElement
  <2>. QED BY <1>4, <2>1, <2>2 DEF WakeAndTake, SlotFree
<1>5. ASSUME NEW r \in Requests, WakeAndWait(r) PROVE Accounting'
  <2>1. Holding' = Holding /\ Queued' = Queued
    BY <1>5 DEF WakeAndWait, Holding, Queued
  <2>. QED BY <1>5, <2>1 DEF WakeAndWait
<1>6. ASSUME NEW r \in Requests, Cancel(r) PROVE Accounting'
  <2>1. Holding' = Holding /\ Queued' = Queued
    BY <1>6 DEF Cancel, Holding, Queued
  <2>. QED BY <1>6, <2>1 DEF Cancel
<1>7. ASSUME NEW r \in Requests, Unwind(r) PROVE Accounting'
  <2>0. r \in Queued /\ r \notin Holding
    BY <1>7, AwakenedIsQueued DEF Unwind
  <2>1. Holding' = Holding /\ Queued' = Queued \ {r}
    BY <1>0, <1>7, <2>0 DEF Unwind, Holding, Queued, Status
  <2>2. Cardinality(Queued') = Cardinality(Queued) - 1
    BY <2>0, <2>1, FS_RemoveElement
  <2>. QED BY <1>7, <2>1, <2>2 DEF Unwind
<1>8. ASSUME NEW r \in Requests, Release(r) PROVE Accounting'
  <2>1. Holding' = Holding \ {r} /\ r \in Holding /\ Queued' = Queued
    BY <1>0, <1>8 DEF Release, Holding, Queued, Status
  <2>2. Cardinality(Holding') = Cardinality(Holding) - 1
    BY <2>1, FS_RemoveElement
  <2>. QED BY <1>8, <2>1, <2>2 DEF Release
<1>9. ASSUME NEW r \in Requests, Recycle(r) PROVE Accounting'
  <2>1. Holding' = Holding /\ Queued' = Queued
    BY <1>0, <1>9 DEF Recycle, Over, Holding, Queued, Status
  <2>. QED BY <1>9, <2>1 DEF Recycle
<1>10. CASE UNCHANGED vars
  BY <1>10 DEF vars, Holding, Queued
<1>. QED
  BY <1>1, <1>2, <1>3, <1>4, <1>5, <1>6, <1>7, <1>8, <1>9, <1>10
  DEF Next, Step, Arrive, ReleaseAgain

\* The counters start exact.
LEMMA AccountingInit == Init => Accounting
<1>. SUFFICES ASSUME Init PROVE Accounting
  OBVIOUS
<1>1. Holding = {} /\ Queued = {}
  BY DEF Init, Holding, Queued
<1>. QED
  BY <1>1, FS_EmptySet, AdmissionAssumption
  DEF Init, Accounting, AdmissionAssumption

\* At most max_concurrent leases are out and at most max_queued calls wait,
\* and both counters are exact.
THEOREM AccountingCorrect == Spec => []Accounting
<1>. DEFINE I == Shape /\ Accounting
<1>1. Init => I
  BY ShapeInit, AccountingInit
<1>2. I /\ [Next]_vars => I'
  BY ShapeStep, AccountingStep
<1>. QED BY <1>1, <1>2, PTL DEF Spec

\* The variables of the controller have the types the code gives them, and the
\* counters stay between zero and their limits.
THEOREM TypeCorrect == Spec => []TypeOK
<1>. DEFINE I == Shape /\ Accounting
<1>1. Init => I
  BY ShapeInit, AccountingInit
<1>2. I /\ [Next]_vars => I'
  BY ShapeStep, AccountingStep
<1>3. I => TypeOK
  BY FiniteSets, AdmissionAssumption
  DEF Shape, Types, Accounting, TypeOK, AdmissionAssumption
<1>. QED BY <1>1, <1>2, <1>3, PTL DEF Spec

-----------------------------------------------------------------------------
(* No wake-up is lost                                                      *)

\* Slots in use and calls on their way cover every slot, or none is pending.
Covered(a, f) ==
  PendingIn(f) # {} => a + Cardinality(AwakeIn(f)) >= MaxConcurrent

\* One notification covers one slot more.
LEMMA NotifyCovers ==
  ASSUME NEW w, NEW f, NEW q, QueueShape(w, f, q), NEW a \in Int,
         PendingIn(f) # {} => a + Cardinality(AwakeIn(f)) >= MaxConcurrent - 1
  PROVE  Covered(a, Notify(w, f))
<1>. USE AdmissionAssumption DEF AdmissionAssumption
<1>1. CASE PendingIn(f) = {}
  BY <1>1, NotifyNeverSleeps DEF Covered
<1>2. CASE PendingIn(f) # {}
  <2>1. IsFiniteSet(AwakeIn(f)) /\ Cardinality(AwakeIn(f)) \in Nat
    BY FS_Subset, FS_CardinalityType DEF AwakeIn
  <2>2. Cardinality(AwakeIn(Notify(w, f))) = Cardinality(AwakeIn(f)) + 1
    BY <1>2, NotifyWakesOne
  <2>. QED BY <1>2, <2>1, <2>2 DEF Covered
<1>. QED BY <1>1, <1>2

\* A notification never uncovers a slot.
LEMMA NotifyKeepsCovered ==
  ASSUME NEW w, NEW f, NEW q, QueueShape(w, f, q), NEW a \in Int,
         Covered(a, f)
  PROVE  Covered(a, Notify(w, f))
<1>1. IsFiniteSet(AwakeIn(f)) /\ Cardinality(AwakeIn(f)) \in Nat
  BY AdmissionAssumption, FS_Subset, FS_CardinalityType
  DEF AwakeIn, AdmissionAssumption
<1>. QED
  BY <1>1, NotifyCovers, AdmissionAssumption DEF Covered, AdmissionAssumption

\* Covered depends on how many calls are awake, not on which.
LEMMA CoveredTransfer ==
  ASSUME NEW a \in Int, NEW b \in Int, NEW f, NEW g,
         NEW m \in Nat, m = Cardinality(AwakeIn(f)),
         NEW n \in Nat, n = Cardinality(AwakeIn(g)),
         PendingIn(g) \subseteq PendingIn(f),
         Covered(a, f), b + n >= a + m
  PROVE  Covered(b, g)
BY AdmissionAssumption DEF Covered, AdmissionAssumption

\* A full controller is covered whatever the futures are.
LEMMA FullIsCovered ==
  ASSUME NEW a \in Int, a >= MaxConcurrent, NEW f
  PROVE  Covered(a, f)
<1>1. PICK n \in Nat : n = Cardinality(AwakeIn(f))
  BY AdmissionAssumption, FS_Subset, FS_CardinalityType
  DEF AwakeIn, AdmissionAssumption
<1>. QED BY <1>1, AdmissionAssumption DEF Covered, AdmissionAssumption

\* Every step keeps every slot covered while a call is pending.
LEMMA WakeupStep ==
  ASSUME Shape, Accounting, NoLostWakeup, [Next]_vars
  PROVE  NoLostWakeup'
<1>. USE AdmissionAssumption DEF AdmissionAssumption
<1>1. /\ Pending = PendingIn(fut) /\ Awakened = AwakeIn(fut)
      /\ Pending' = PendingIn(fut') /\ Awakened' = AwakeIn(fut')
  BY DEF Pending, Awakened, PendingIn, AwakeIn
<1>2. /\ Covered(active, fut) /\ active \in Int
      /\ fut \in [Requests -> {"none", "pending", "notified", "cancelled"}]
      /\ QueueShape(waiters, fut, Queued)
      /\ IsFiniteSet(AwakeIn(fut)) /\ Cardinality(AwakeIn(fut)) \in Nat
  BY <1>1, FiniteSets, ShapeIsQueueShape DEF NoLostWakeup, Covered, QueueShape
<1>3. SUFFICES Covered(active', fut')
  BY <1>1 DEF NoLostWakeup, Covered
<1>4. ASSUME NEW r \in Requests, Acquire(r) PROVE Covered(active', fut')
  BY <1>2, <1>4 DEF Acquire, Covered
<1>5. ASSUME NEW r \in Requests, Reject(r) PROVE Covered(active', fut')
  BY <1>2, <1>5 DEF Reject
<1>6. ASSUME NEW r \in Requests, Enqueue(r) PROVE Covered(active', fut')
  BY <1>2, <1>6, FullIsCovered DEF Enqueue, SlotFree
<1>7. ASSUME NEW r \in Requests, WakeAndTake(r) PROVE Covered(active', fut')
  <2>1. AwakeIn(fut') = AwakeIn(fut) \ {r} /\ r \in AwakeIn(fut)
    BY <1>2, <1>7 DEF WakeAndTake, AwakeIn
  <2>2. PendingIn(fut') = PendingIn(fut)
    BY <1>2, <1>7 DEF WakeAndTake, PendingIn
  <2>3. Cardinality(AwakeIn(fut')) = Cardinality(AwakeIn(fut)) - 1
    BY <1>2, <2>1, FS_RemoveElement
  <2>4. PICK m \in Nat, n \in Nat :
          /\ m = Cardinality(AwakeIn(fut)) /\ n = Cardinality(AwakeIn(fut'))
          /\ n = m - 1
    BY <1>2, <2>1, <2>3, FS_RemoveElement, FS_CardinalityType
  <2>5. active' \in Int /\ active' + n >= active + m
    BY <1>2, <1>7, <2>4 DEF WakeAndTake
  <2>. QED BY <1>2, <2>2, <2>4, <2>5, CoveredTransfer
<1>8. ASSUME NEW r \in Requests, WakeAndWait(r) PROVE Covered(active', fut')
  BY <1>2, <1>8, FullIsCovered DEF WakeAndWait, SlotFree
<1>9. ASSUME NEW r \in Requests, Cancel(r) PROVE Covered(active', fut')
  <2>1. AwakeIn(fut') = AwakeIn(fut) \cup {r}
    BY <1>2, <1>9 DEF Cancel, AwakeIn
  <2>2. PendingIn(fut') \subseteq PendingIn(fut)
    BY <1>2, <1>9 DEF Cancel, PendingIn
  <2>3. PICK m \in Nat, n \in Nat :
          /\ m = Cardinality(AwakeIn(fut)) /\ n = Cardinality(AwakeIn(fut'))
          /\ n >= m
    <3>1. /\ IsFiniteSet(AwakeIn(fut'))
          /\ AwakeIn(fut) \in SUBSET AwakeIn(fut')
      BY <1>2, <2>1, FS_AddElement
    <3>. QED BY <1>2, <3>1, FS_Subset, FS_CardinalityType
  <2>4. active' \in Int /\ active' + n >= active + m
    BY <1>2, <1>9, <2>3 DEF Cancel
  <2>. QED BY <1>2, <2>2, <2>3, <2>4, CoveredTransfer
<1>10. ASSUME NEW r \in Requests, Unwind(r) PROVE Covered(active', fut')
  <2>1. PICK f, g :
          /\ f = [fut EXCEPT ![r] = "none"]
          /\ g = PassOn(waiters', f)
          /\ fut' = IF SlotFree THEN Notify(waiters', g) ELSE g
          /\ QueueShape(waiters', f, Queued \ {r})
          /\ QueueShape(waiters', g, Queued \ {r})
    BY <1>10, UnwindShape
  <2>2. active' = active
    BY <1>10 DEF Unwind
  <2>3. /\ PendingIn(f) = PendingIn(fut)
        /\ IsFiniteSet(AwakeIn(f)) /\ Cardinality(AwakeIn(f)) \in Nat
        /\ Cardinality(AwakeIn(f)) = Cardinality(AwakeIn(fut)) - 1
    <3>1. AwakeIn(f) = AwakeIn(fut) \ {r} /\ r \in AwakeIn(fut)
      BY <1>2, <1>10, <2>1 DEF Unwind, AwakeIn
    <3>2. PendingIn(f) = PendingIn(fut)
      BY <1>2, <1>10, <2>1 DEF Unwind, PendingIn
    <3>. QED BY <1>2, <3>1, <3>2, FS_RemoveElement, FS_CardinalityType
  <2>4. PendingIn(f) # {} => active + Cardinality(AwakeIn(f)) >= MaxConcurrent - 1
    BY <1>2, <2>3 DEF Covered
  <2>5. CASE g = f
    <3>1. CASE SlotFree
      BY <1>2, <2>1, <2>2, <2>4, <2>5, <3>1, NotifyCovers
    <3>2. CASE ~SlotFree
      BY <1>2, <2>2, <3>2, FullIsCovered DEF SlotFree
    <3>. QED BY <3>1, <3>2
  <2>6. CASE g = Notify(waiters', f)
    <3>1. Covered(active, Notify(waiters', f))
      BY <1>2, <2>1, <2>4, NotifyCovers
    <3>2. Covered(active, g)
      BY <2>6, <3>1
    <3>. QED BY <1>2, <2>1, <2>2, <3>2, NotifyKeepsCovered
  <2>. QED BY <2>1, <2>5, <2>6 DEF PassOn
<1>11. ASSUME NEW r \in Requests, Release(r) PROVE Covered(active', fut')
  <2>1. active' \in Int /\ active' = active - 1 /\ fut' = Notify(waiters, fut)
    BY <1>2, <1>11 DEF Release
  <2>2. PendingIn(fut) # {} =>
          active' + Cardinality(AwakeIn(fut)) >= MaxConcurrent - 1
    BY <1>2, <2>1 DEF Covered
  <2>. QED BY <1>2, <2>1, <2>2, NotifyCovers
<1>12. ASSUME NEW r \in Requests, Recycle(r) PROVE Covered(active', fut')
  BY <1>2, <1>12 DEF Recycle
<1>13. CASE UNCHANGED vars
  BY <1>2, <1>13 DEF vars
<1>. QED
  BY <1>4, <1>5, <1>6, <1>7, <1>8, <1>9, <1>10, <1>11, <1>12, <1>13
  DEF Next, Step, Arrive, ReleaseAgain

\* No call is pending at the start.
LEMMA WakeupInit == Init => NoLostWakeup
BY DEF Init, NoLostWakeup, Pending

\* While a call waits that is not on its way to run, the leases that are out
\* and the calls that are on their way account for every slot: whatever is
\* cancelled, and whether or not Condition.wait() passes notifications on, a
\* released slot is never left without a call coming for it.
THEOREM NoWakeupIsLost == Spec => []NoLostWakeup
<1>. DEFINE I == Shape /\ Accounting /\ NoLostWakeup
<1>1. Init => I
  BY ShapeInit, AccountingInit, WakeupInit
<1>2. I /\ [Next]_vars => I'
  BY ShapeStep, AccountingStep, WakeupStep
<1>. QED BY <1>1, <1>2, PTL DEF Spec

-----------------------------------------------------------------------------
(* The controller implements abstract admission                            *)

\* The instance counts sets the way this module does.
LEMMA SameCardinality ==
  /\ Abstract!Cardinality(Holding) = Cardinality(Holding)
  /\ Abstract!Cardinality(Queued) = Cardinality(Queued)
<1>1. Abstract!Cardinality(Holding) = Cardinality(Holding)
  BY DEF Abstract!Cardinality, Cardinality
<1>2. Abstract!Cardinality(Queued) = Cardinality(Queued)
  BY DEF Abstract!Cardinality, Cardinality
<1>. QED BY <1>1, <1>2

\* Every step is a step of abstract admission or changes nothing it sees.
LEMMA RefinementStep ==
  ASSUME Shape, Accounting, [Next]_vars
  PROVE  [Abstract!Next]_(Abstract!vars)
<1>. DEFINE Goal == [Abstract!Next]_(Abstract!vars)
<1>. USE DEF Abstract!vars
<1>0. /\ status \in [Requests -> Status]
      /\ SlotFree <=> Abstract!SlotFree
      /\ waiting = Abstract!Cardinality(Queued)
      /\ Queued = {} => waiting = 0
  BY SameCardinality, FS_EmptySet DEF Shape, Types, Accounting, SlotFree, Abstract!SlotFree
<1>1. ASSUME NEW r \in Requests, Acquire(r) PROVE Goal
  <2>1. Abstract!Admit(r)
    BY <1>0, <1>1 DEF Acquire, Abstract!Admit, Abstract!Known, Holding, Queued, Rejected, Status
  <2>. QED BY <2>1 DEF Abstract!Next
<1>2. ASSUME NEW r \in Requests, Reject(r) PROVE Goal
  <2>1. Abstract!Refuse(r)
    BY <1>0, <1>2, AdmissionAssumption
    DEF Reject, Abstract!Refuse, Abstract!Known, Holding, Queued, Rejected, Status,
        AdmissionAssumption
  <2>. QED BY <2>1 DEF Abstract!Next
<1>3. ASSUME NEW r \in Requests, Enqueue(r) PROVE Goal
  <2>1. Abstract!Enqueue(r)
    BY <1>0, <1>3 DEF Enqueue, Abstract!Enqueue, Abstract!Known, Holding, Queued, Rejected, Status
  <2>. QED BY <2>1 DEF Abstract!Next
<1>4. ASSUME NEW r \in Requests, WakeAndTake(r) PROVE Goal
  <2>1. r \in Queued
    BY <1>4, AwakenedIsQueued DEF WakeAndTake
  <2>2. Abstract!Promote(r)
    BY <1>0, <1>4, <2>1
    DEF WakeAndTake, Abstract!Promote, Holding, Queued, Rejected, Status
  <2>. QED BY <2>2 DEF Abstract!Next
<1>5. ASSUME NEW r \in Requests, WakeAndWait(r) PROVE Goal
  BY <1>5 DEF WakeAndWait, Holding, Queued, Rejected
<1>6. ASSUME NEW r \in Requests, Cancel(r) PROVE Goal
  BY <1>6 DEF Cancel, Holding, Queued, Rejected
<1>7. ASSUME NEW r \in Requests, Unwind(r) PROVE Goal
  <2>1. r \in Queued /\ r \notin Holding
    BY <1>7, AwakenedIsQueued DEF Unwind
  <2>2. Abstract!Leave(r)
    BY <1>0, <1>7, <2>1 DEF Unwind, Abstract!Leave, Holding, Queued, Rejected, Status
  <2>. QED BY <2>2 DEF Abstract!Next
<1>8. ASSUME NEW r \in Requests, Release(r) PROVE Goal
  <2>1. Abstract!Finish(r)
    BY <1>0, <1>8 DEF Release, Abstract!Finish, Holding, Queued, Rejected, Status
  <2>. QED BY <2>1 DEF Abstract!Next
<1>9. ASSUME NEW r \in Requests, Recycle(r) PROVE Goal
  <2>1. CASE status[r] = "rejected"
    <3>1. Abstract!Return(r)
      BY <1>0, <1>9, <2>1 DEF Recycle, Abstract!Return, Holding, Queued, Rejected, Status
    <3>. QED BY <3>1 DEF Abstract!Next
  <2>2. CASE status[r] # "rejected"
    BY <1>0, <1>9, <2>2 DEF Recycle, Over, Holding, Queued, Rejected, Status
  <2>. QED BY <2>1, <2>2
<1>10. CASE UNCHANGED vars
  BY <1>10 DEF vars, Holding, Queued, Rejected
<1>. QED
  BY <1>1, <1>2, <1>3, <1>4, <1>5, <1>6, <1>7, <1>8, <1>9, <1>10
  DEF Next, Step, Arrive, ReleaseAgain

\* Every behaviour of the controller is, step by step, one of abstract bounded
\* admission: nobody waits while a slot is free at his arrival, no call gets a
\* slot beyond max_concurrent or a place beyond max_queued, and none is refused
\* while the queue has room or a slot is free that nobody waits for.
THEOREM SafelyImplements == Spec => Abstract!Spec
<1>. DEFINE I == Shape /\ Accounting
<1>1. Init => I
  BY ShapeInit, AccountingInit
<1>2. I /\ [Next]_vars => I'
  BY ShapeStep, AccountingStep
<1>3. Init => Abstract!Init
  BY DEF Init, Abstract!Init, Holding, Queued, Rejected
<1>4. I /\ [Next]_vars => [Abstract!Next]_(Abstract!vars)
  BY RefinementStep
<1>. QED BY <1>1, <1>2, <1>3, <1>4, PTL DEF Spec, Abstract!Spec

=============================================================================
