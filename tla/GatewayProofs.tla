--------------------------- MODULE GatewayProofs ---------------------------
(***************************************************************************)
(* What holds of the access gateway for every number of users, requests,   *)
(* connections, tokens and restarts.                                       *)
(***************************************************************************)
EXTENDS Gateway, TLAPS, FiniteSetTheorems

\* What is known of a request from the place it has reached: its answer, and
\* whose key it has presented.
Progress == \A r \in Requests :
  /\ stage[r] \notin {"relaying", "over"} => answer[r] = "none"
  /\ stage[r] = "relaying" => answer[r] \in Forwarded
  /\ stage[r] \notin {"idle", "new", "over"} => user[r] \in Users
  /\ r \in barred /\ stage[r] = "new" => user[r] \in revoked

Safe == TypeOK /\ Progress /\ RevokedStayOut

USE GatewayAssumption

-----------------------------------------------------------------------------
(* Types and revocation                                                    *)

Counts == [Users -> [Labels -> Nat]]

LEMMA Fresh == Uncounted \in Counts /\ Bucket!FullBuckets \in [Users -> 0..Burst]
BY DEF Uncounted, Bucket!FullBuckets, Counts

\* What a call of the limiter does to the bucket of its user.
LEMMA LimitTakes ==
  ASSUME NEW r \in Requests, Limit(r)
  PROVE  \/ End(r, "limited") /\ Count(r, "limited") /\ level' = level
         \/ /\ Goto(r, "body") /\ UNCHANGED <<answer, counted>>
            /\ \E n \in 1..Burst : /\ n >= level[user[r]]
                                  /\ level' = [level EXCEPT ![user[r]] = n - 1]
BY DEF Limit, Bucket!Refuse, Bucket!Grant

LEMMA CountedMore ==
  ASSUME counted \in Counts, NEW u \in Users, NEW l \in Labels
  PROVE  [counted EXCEPT ![u][l] = @ + 1] \in Counts
<1>1. counted[u] \in [Labels -> Nat] /\ counted[u][l] \in Nat
  BY DEF Counts
<1>2. [counted[u] EXCEPT ![l] = @ + 1] \in [Labels -> Nat]
  BY <1>1
<1>. QED BY <1>2 DEF Counts

LEMMA CountType ==
  ASSUME TypeOK, NEW r \in Requests, user[r] \in Users, NEW l \in Labels, Count(r, l)
  PROVE  counted' \in Counts
<1>1. counted \in Counts
  BY DEF TypeOK, Counts
<1>. QED BY <1>1, CountedMore DEF Count

LEMMA SafeInit == Init => Safe
<1>. SUFFICES ASSUME Init PROVE Safe
  OBVIOUS
<1>1. counted \in Counts /\ level \in [Users -> 0..Burst]
  BY Fresh DEF Init
<1>2. TypeOK
  <2>1. stage \in [Requests -> Stages] /\ answer \in [Requests -> Answers]
    BY DEF Init, Stages, Answers
  <2>2. user \in [Requests -> Users \cup {NoUser}]
    BY DEF Init
  <2>3. restarts \in 0..MaxRestarts
    BY DEF Init
  <2>. QED BY <1>1, <2>1, <2>2, <2>3 DEF Init, TypeOK, Counts
<1>3. Progress /\ RevokedStayOut
  BY DEF Init, Progress, RevokedStayOut
<1>. QED BY <1>2, <1>3 DEF Safe

\* A request on its way: it changes its own place, and its answer with it.
LEMMA SafeHandle ==
  ASSUME NEW r \in Requests, Safe, Handle(r)
  PROVE  Safe'
<1>. USE DEF Safe, Goto, End, access, health
<1>1. CASE Authenticate(r)
  <2>. USE <1>1 DEF Authenticate, HasAccess
  <2>1. TypeOK'
    BY DEF TypeOK, Stages, Answers
  <2>2. Progress'
    BY DEF TypeOK, Progress
  <2>3. RevokedStayOut'
    BY DEF TypeOK, Progress, RevokedStayOut
  <2>. QED BY <2>1, <2>2, <2>3
<1>2. CASE Limit(r)
  <2>1. user[r] \in Users /\ level[user[r]] \in 0..Burst
    BY <1>2 DEF Limit, TypeOK, Progress
  <2>2. \/ End(r, "limited") /\ Count(r, "limited") /\ level' = level
        \/ /\ Goto(r, "body") /\ UNCHANGED <<answer, counted>>
           /\ \E n \in 1..Burst : level' = [level EXCEPT ![user[r]] = n - 1]
    BY <1>2, LimitTakes
  <2>3. stage[r] = "admitted" /\ UNCHANGED <<access, user, held, health, restarts>>
    BY <1>2 DEF Limit
  <2>4. TypeOK'
    <3>1. level' \in [Users -> 0..Burst]
      BY <2>1, <2>2 DEF TypeOK
    <3>2. counted' \in Counts
      <4>1. counted' = counted \/ Count(r, "limited")
        BY <2>2
      <4>. QED BY <2>1, <4>1, CountType DEF TypeOK, Counts, Labels
    <3>3. stage' \in [Requests -> Stages] /\ answer' \in [Requests -> Answers]
      BY <2>2 DEF TypeOK, Stages, Answers, Labels
    <3>. QED BY <2>3, <3>1, <3>2, <3>3 DEF TypeOK, Counts
  <2>5. Progress'
    BY <2>1, <2>2, <2>3 DEF TypeOK, Progress
  <2>6. RevokedStayOut'
    BY <2>2, <2>3 DEF TypeOK, RevokedStayOut
  <2>. QED BY <2>4, <2>5, <2>6
<1>3. CASE Body(r) \/ Send(r) \/ SendFails(r)
  <2>. USE <1>3 DEF Body, Send, SendFails
  <2>1. TypeOK'
    BY DEF TypeOK, Stages, Answers
  <2>2. Progress'
    BY DEF TypeOK, Progress
  <2>3. RevokedStayOut'
    BY DEF TypeOK, RevokedStayOut
  <2>. QED BY <2>1, <2>2, <2>3
<1>4. CASE Headers(r) \/ ReadBody(r)
  <2>. USE <1>4 DEF Headers, ReadBody
  <2>1. user[r] \in Users
    BY DEF Progress
  <2>2. TypeOK'
    <3>1. counted' \in Counts
      <4>1. counted' = counted \/ \E a \in Forwarded : Count(r, a)
        OBVIOUS
      <4>. QED BY <2>1, <4>1, CountType DEF TypeOK, Counts, Labels
    <3>2. stage' \in [Requests -> Stages] /\ answer' \in [Requests -> Answers]
      BY DEF TypeOK, Stages, Answers, Labels
    <3>3. held' \subseteq Requests
      BY DEF TypeOK
    <3>. QED BY <3>1, <3>2, <3>3 DEF TypeOK, Counts
  <2>3. Progress'
    BY <2>1 DEF TypeOK, Progress
  <2>4. RevokedStayOut'
    BY DEF TypeOK, RevokedStayOut
  <2>. QED BY <2>2, <2>3, <2>4
<1>5. CASE RelayEnds(r)
  <2>. USE <1>5 DEF RelayEnds
  <2>1. TypeOK'
    BY DEF TypeOK, Stages
  <2>2. Progress'
    BY DEF TypeOK, Progress
  <2>3. RevokedStayOut'
    BY DEF TypeOK, RevokedStayOut
  <2>. QED BY <2>1, <2>2, <2>3
<1>. QED BY <1>1, <1>2, <1>3, <1>4, <1>5 DEF Handle

\* Arrivals, administration and everything that is not about one request.
LEMMA SafeRest ==
  ASSUME Safe,
         \/ \E r \in Requests, u \in Users \cup {NoUser} : Arrive(r, u)
         \/ Administer \/ Readiness \/ UpstreamChanges \/ Restart
  PROVE  Safe'
<1>. USE DEF Safe, Goto, access, health
<1>1. CASE \E r \in Requests, u \in Users \cup {NoUser} : Arrive(r, u)
  <2>. PICK r \in Requests, u \in Users \cup {NoUser} : Arrive(r, u)
    BY <1>1
  <2>. USE DEF Arrive
  <2>1. TypeOK'
    <3>1. barred' \subseteq Requests
      BY DEF TypeOK
    <3>2. stage' \in [Requests -> Stages] /\ user' \in [Requests -> Users \cup {NoUser}]
      BY DEF TypeOK, Stages
    <3>. QED BY <3>1, <3>2 DEF TypeOK
  <2>2. Progress'
    BY DEF TypeOK, Progress, RevokedStayOut
  <2>3. RevokedStayOut'
    BY DEF TypeOK, Progress, RevokedStayOut
  <2>. QED BY <2>1, <2>2, <2>3
<1>2. CASE Administer
  <2>. USE <1>2 DEF Administer, Revoke, Restore
  <2>1. TypeOK'
    BY DEF TypeOK
  <2>2. Progress'
    BY DEF TypeOK, Progress
  <2>3. RevokedStayOut'
    BY DEF TypeOK, RevokedStayOut
  <2>. QED BY <2>1, <2>2, <2>3
<1>3. CASE Readiness \/ UpstreamChanges
  BY <1>3 DEF Readiness, Probe, Ask, Told, UpstreamChanges, TypeOK, Progress, RevokedStayOut
<1>4. CASE Restart
  <2>. USE <1>4 DEF Restart
  <2>1. TypeOK'
    <3>1. counted' \in Counts /\ level' \in [Users -> 0..Burst]
      BY Fresh
    <3>2. stage' \in [Requests -> Stages] /\ answer' \in [Requests -> Answers]
      BY DEF TypeOK, Stages, Answers
    <3>3. restarts' \in 0..MaxRestarts
      BY DEF TypeOK
    <3>. QED BY <3>1, <3>2, <3>3 DEF TypeOK, Counts
  <2>2. Progress'
    BY DEF TypeOK, Progress
  <2>3. RevokedStayOut'
    BY DEF RevokedStayOut
  <2>. QED BY <2>1, <2>2, <2>3
<1>. QED BY <1>1, <1>2, <1>3, <1>4

LEMMA SafeStep == Safe /\ [Next]_vars => Safe'
<1>. SUFFICES ASSUME Safe, [Next]_vars PROVE Safe'
  OBVIOUS
<1>1. CASE UNCHANGED vars
  BY <1>1 DEF vars, access, health, Safe, TypeOK, Progress, RevokedStayOut
<1>2. CASE Next
  BY <1>2, SafeHandle, SafeRest DEF Next
<1>. QED BY <1>1, <1>2

LEMMA SafeInductive == Spec => []Safe
BY SafeInit, SafeStep, PTL DEF Spec

\* Every variable of the gateway keeps the type the code gives it.
THEOREM TypeCorrect == Spec => []TypeOK
BY SafeInductive, PTL DEF Safe

\* A request that comes after its user's revocation is never let through, in any
\* interleaving with other requests, with revocations and restorations of others
\* and with readiness probes, until the restoration or a restart.
THEOREM RevokedUsersStayOut == Spec => []RevokedStayOut
BY SafeInductive, PTL DEF Safe

-----------------------------------------------------------------------------
(* Connections                                                             *)

LEMMA Holders ==
  ASSUME TypeOK
  PROVE  IsFiniteSet(held) /\ Cardinality(held) \in Nat
BY FS_Subset, FS_CardinalityType DEF TypeOK

\* Giving a connection back leaves no more of them in use.
LEMMA GivenBack ==
  ASSUME TypeOK, NEW r, held' = held \ {r}, probe' = probe
  PROVE  Connections' <= Connections
<1>1. /\ Cardinality(held') \in Nat /\ Cardinality(held) \in Nat
      /\ Cardinality(held') <= Cardinality(held)
  BY Holders, FS_Subset, FS_CardinalityType
<1>. QED BY <1>1 DEF Connections

LEMMA ConnectionsStep ==
  ASSUME Safe, ConnectionsReturned, [Next]_vars
  PROVE  ConnectionsReturned'
<1>. USE DEF Goto, End, access, health
<1>0. TypeOK /\ Cardinality(held) \in Nat /\ MaxConnections \in Nat
  BY Holders DEF Safe
<1>1. ASSUME NEW r \in Requests,
             Authenticate(r) \/ Limit(r) \/ Body(r) \/ Headers(r)
      PROVE  ConnectionsReturned'
  <2>1. stage[r] \in {"new", "admitted", "body", "sent"} /\ UNCHANGED <<held, probe>>
    BY <1>1 DEF Authenticate, Limit, Body, Headers
  <2>2. PICK s \in Stages : /\ stage' = [stage EXCEPT ![r] = s]
                            /\ stage[r] = "sent" => s \in {"relaying", "reading"}
    BY <1>1 DEF Authenticate, Limit, Body, Headers, Stages
  <2>. QED BY <1>0, <2>1, <2>2 DEF ConnectionsReturned, Connections, TypeOK
<1>2. ASSUME NEW r \in Requests, Send(r)
      PROVE  ConnectionsReturned'
  <2>1. Cardinality(held \cup {r}) \in Nat /\ Cardinality(held \cup {r}) <= Cardinality(held) + 1
    <3>1. IsFiniteSet(held)
      BY <1>0, Holders
    <3>2. Cardinality(held \cup {r})
            = IF r \in held THEN Cardinality(held) ELSE Cardinality(held) + 1
      BY <3>1, FS_AddElement, Zenon
    <3>. QED BY <1>0, <3>2
  <2>2. held' = held \cup {r} /\ probe' = probe
    BY <1>2 DEF Send
  <2>3. Connections' <= MaxConnections
    BY <1>0, <1>2, <2>1, <2>2 DEF Send, HasConnection, Connections
  <2>. QED BY <1>0, <1>2, <2>3 DEF ConnectionsReturned, Send, TypeOK
<1>3. ASSUME NEW r \in Requests, SendFails(r) \/ ReadBody(r) \/ RelayEnds(r)
      PROVE  ConnectionsReturned'
  <2>1. held' = held \ {r} /\ probe' = probe /\ stage' = [stage EXCEPT ![r] = "over"]
    BY <1>3 DEF SendFails, ReadBody, RelayEnds
  <2>2. Connections' \in Int /\ Connections \in Int
    <3>1. IsFiniteSet(held)
      BY <1>0, Holders
    <3>2. Cardinality(held \ {r}) \in Int
      <4>1. Cardinality(held \ {r})
              = IF r \in held THEN Cardinality(held) - 1 ELSE Cardinality(held)
        BY <3>1, FS_RemoveElement, Zenon
      <4>. QED BY <1>0, <4>1
    <3>. QED BY <1>0, <2>1, <3>2 DEF Connections
  <2>3. Connections' <= MaxConnections
    BY <1>0, <2>1, <2>2, GivenBack DEF ConnectionsReturned
  <2>. QED BY <1>0, <2>1, <2>3 DEF ConnectionsReturned, TypeOK
<1>4. ASSUME NEW r \in Requests, NEW u \in Users \cup {NoUser}, Arrive(r, u)
      PROVE  ConnectionsReturned'
  BY <1>0, <1>4 DEF Arrive, ConnectionsReturned, Connections, TypeOK
<1>5. CASE Administer \/ UpstreamChanges \/ UNCHANGED vars
  BY <1>5 DEF Administer, Revoke, Restore, UpstreamChanges, vars, ConnectionsReturned,
              Connections
<1>6. CASE Readiness
  BY <1>0, <1>6 DEF Readiness, Probe, Ask, Told, HasConnection, Connections,
                    ConnectionsReturned, TypeOK
<1>7. CASE Restart
  BY <1>0, <1>7, FS_EmptySet DEF Restart, ConnectionsReturned, Connections
<1>. QED BY <1>1, <1>2, <1>3, <1>4, <1>5, <1>6, <1>7 DEF Next, Handle

\* However chat requests end (answered, refused, failed, abandoned or cut off),
\* the connection they held is back in the pool, which is never exceeded.
THEOREM ConnectionsAreReturned == Spec => []ConnectionsReturned
<1>1. Init => ConnectionsReturned
  BY FS_EmptySet DEF Init, ConnectionsReturned, Connections
<1>2. Safe /\ ConnectionsReturned /\ [Next]_vars => ConnectionsReturned'
  BY ConnectionsStep
<1>. QED BY <1>1, <1>2, SafeInductive, PTL DEF Spec

-----------------------------------------------------------------------------
(* The counter                                                             *)

\* The requests of u answered with l: those the counter should have counted.
Answered(u, l) == {r \in Requests : user[r] = u /\ answer[r] = l}

LEMMA AnsweredFinite ==
  ASSUME NEW u, NEW l
  PROVE  /\ IsFiniteSet(Answered(u, l)) /\ Cardinality(Answered(u, l)) \in Nat
         /\ IsFiniteSet(Answered(u, l)') /\ Cardinality(Answered(u, l)') \in Nat
<1>1. Answered(u, l) \in SUBSET Requests /\ Answered(u, l)' \in SUBSET Requests
  BY DEF Answered
<1>. QED BY <1>1, FS_Subset, FS_CardinalityType

\* A request is counted as it gets its one answer.
LEMMA CountedOnce ==
  ASSUME Safe, CountersMatchAnswers, NEW r \in Requests, user[r] \in Users,
         NEW a \in Labels, answer[r] = "none", answer' = [answer EXCEPT ![r] = a],
         Count(r, a), user' = user
  PROVE  CountersMatchAnswers'
<1>1. SUFFICES ASSUME NEW u \in Users, NEW l \in Labels
               PROVE  counted'[u][l] = Cardinality(Answered(u, l)')
  BY DEF CountersMatchAnswers, Answered
<1>2. counted[u][l] = Cardinality(Answered(u, l))
  BY DEF CountersMatchAnswers, Answered
<1>3. answer \in [Requests -> Answers] /\ counted \in [Users -> [Labels -> Nat]]
  BY DEF Safe, TypeOK
<1>4. CASE u = user[r] /\ l = a
  <2>1. Answered(u, l)' = Answered(u, l) \cup {r}
    BY <1>3, <1>4 DEF Answered
  <2>2. r \notin Answered(u, l)
    BY <1>4 DEF Answered, Labels, Forwarded
  <2>3. Cardinality(Answered(u, l) \cup {r}) = Cardinality(Answered(u, l)) + 1
    BY <2>2, AnsweredFinite, FS_AddElement
  <2>4. counted'[u][l] = counted[u][l] + 1
    BY <1>3, <1>4 DEF Count
  <2>. QED BY <1>2, <2>1, <2>3, <2>4
<1>5. CASE ~(u = user[r] /\ l = a)
  <2>1. Answered(u, l)' = Answered(u, l)
    BY <1>3, <1>5 DEF Answered, Labels, Forwarded
  <2>2. counted'[u][l] = counted[u][l]
    BY <1>3, <1>5 DEF Count
  <2>. QED BY <1>2, <2>1, <2>2
<1>. QED BY <1>4, <1>5

\* An answer that has no label, and the name of a request that has no answer
\* yet, are not counted.
LEMMA NotCounted ==
  ASSUME CountersMatchAnswers, counted' = counted,
         \A r \in Requests : \/ answer'[r] = answer[r] /\ user'[r] = user[r]
                             \/ answer[r] \notin Labels /\ answer'[r] \notin Labels
  PROVE  CountersMatchAnswers'
<1>1. \A u \in Users, l \in Labels : Answered(u, l)' = Answered(u, l)
  BY DEF Answered
<1>. QED BY <1>1 DEF CountersMatchAnswers, Answered

LEMMA CountersStep ==
  ASSUME Safe, CountersMatchAnswers, [Next]_vars
  PROVE  CountersMatchAnswers'
<1>. USE DEF Goto, End, access, health
<1>0. /\ answer \in [Requests -> Answers] /\ user \in [Requests -> Users \cup {NoUser}]
      /\ \A r \in Requests :
           /\ stage[r] \notin {"relaying", "over"} => answer[r] = "none"
           /\ stage[r] \notin {"idle", "new", "over"} => user[r] \in Users
  BY DEF Safe, TypeOK, Progress
<1>1. ASSUME NEW r \in Requests, Limit(r) \/ Headers(r) \/ ReadBody(r)
      PROVE  CountersMatchAnswers'
  <2>1. answer[r] = "none" /\ user[r] \in Users /\ user' = user
    BY <1>0, <1>1 DEF Limit, Headers, ReadBody
  <2>2. \/ \E a \in Labels : Count(r, a) /\ answer' = [answer EXCEPT ![r] = a]
        \/ /\ counted' = counted
           /\ answer' = answer \/ answer' = [answer EXCEPT ![r] = "error"]
    BY <1>1 DEF Limit, Headers, ReadBody, Labels, Forwarded
  <2>3. CASE \E a \in Labels : Count(r, a) /\ answer' = [answer EXCEPT ![r] = a]
    BY <2>1, <2>3, CountedOnce
  <2>4. CASE /\ counted' = counted
             /\ answer' = answer \/ answer' = [answer EXCEPT ![r] = "error"]
    BY <1>0, <2>1, <2>4, NotCounted DEF Labels, Forwarded
  <2>. QED BY <2>2, <2>3, <2>4
<1>2. ASSUME NEW r \in Requests,
             Authenticate(r) \/ Body(r) \/ Send(r) \/ SendFails(r) \/ RelayEnds(r)
      PROVE  CountersMatchAnswers'
  <2>1. user' = user /\ counted' = counted
    BY <1>2 DEF Authenticate, Body, Send, SendFails, RelayEnds
  <2>2. \/ answer' = answer
        \/ /\ answer[r] = "none"
           /\ \E a \in {"denied", "gone", "unavailable"} : answer' = [answer EXCEPT ![r] = a]
    BY <1>0, <1>2 DEF Authenticate, Body, Send, SendFails, RelayEnds
  <2>. QED BY <1>0, <2>1, <2>2, NotCounted DEF Labels, Forwarded
<1>3. ASSUME NEW r \in Requests, NEW u \in Users \cup {NoUser}, Arrive(r, u)
      PROVE  CountersMatchAnswers'
  BY <1>0, <1>3, NotCounted DEF Arrive, Labels, Forwarded
<1>4. CASE Administer \/ Readiness \/ UpstreamChanges \/ UNCHANGED vars
  <2>1. UNCHANGED <<answer, user, counted>>
    BY <1>4 DEF Administer, Revoke, Restore, Readiness, Probe, Ask, Told, UpstreamChanges,
                vars
  <2>. QED BY <2>1, NotCounted
<1>5. CASE Restart
  <2>1. \A u \in Users, l \in Labels : Answered(u, l)' = {} /\ counted'[u][l] = 0
    BY <1>5 DEF Restart, Uncounted, Answered, Labels, Forwarded
  <2>. QED BY <2>1, FS_EmptySet DEF CountersMatchAnswers, Answered
<1>. QED BY <1>1, <1>2, <1>3, <1>4, <1>5 DEF Next, Handle

\* For every user and status the counter says how many requests this process
\* answered so: none is counted twice, under another status or for somebody else.
THEOREM CountersAreTrue == Spec => []CountersMatchAnswers
<1>1. Init => CountersMatchAnswers
  <2>. SUFFICES ASSUME Init PROVE CountersMatchAnswers
    OBVIOUS
  <2>1. \A u \in Users, l \in Labels : Answered(u, l) = {} /\ counted[u][l] = 0
    BY DEF Init, Uncounted, Answered, Labels, Forwarded
  <2>. QED BY <2>1, FS_EmptySet DEF CountersMatchAnswers, Answered
<1>2. Safe /\ CountersMatchAnswers /\ [Next]_vars => CountersMatchAnswers'
  BY CountersStep
<1>. QED BY <1>1, <1>2, SafeInductive, PTL DEF Spec

-----------------------------------------------------------------------------
(* The buckets                                                             *)

LEMMA PassedFinite ==
  ASSUME NEW u
  PROVE  /\ IsFiniteSet(Passed(u)) /\ Cardinality(Passed(u)) \in Nat
         /\ IsFiniteSet(Passed(u)') /\ Cardinality(Passed(u)') \in Nat
<1>1. Passed(u) \in SUBSET Requests /\ Passed(u)' \in SUBSET Requests
  BY DEF Passed
<1>. QED BY <1>1, FS_Subset, FS_CardinalityType

\* As long as no bucket loses a token and nobody is forgotten.
LEMMA StillPassed ==
  ASSUME Safe, OnlyOwnRequestsCount, level' \in [Users -> 0..Burst],
         \A u \in Users : level'[u] >= level[u] /\ Passed(u) \subseteq Passed(u)'
  PROVE  OnlyOwnRequestsCount'
<1>1. SUFFICES ASSUME NEW u \in Users
               PROVE  level'[u] + Cardinality(Passed(u)') >= Burst
  BY DEF OnlyOwnRequestsCount
<1>2. Cardinality(Passed(u)) <= Cardinality(Passed(u)')
  BY PassedFinite, FS_Subset
<1>3. level[u] \in Int /\ level'[u] \in Int /\ level'[u] >= level[u]
  BY DEF Safe, TypeOK
<1>4. level[u] + Cardinality(Passed(u)) >= Burst
  BY DEF OnlyOwnRequestsCount
<1>. QED BY <1>2, <1>3, <1>4, PassedFinite

LEMMA BucketsStep ==
  ASSUME Safe, OnlyOwnRequestsCount, [Next]_vars
  PROVE  OnlyOwnRequestsCount'
<1>. USE DEF Goto, End, access, health
<1>0. /\ stage \in [Requests -> Stages] /\ answer \in [Requests -> Answers]
      /\ user \in [Requests -> Users \cup {NoUser}] /\ level \in [Users -> 0..Burst]
      /\ \A r \in Requests :
           /\ stage[r] = "relaying" => answer[r] \in Forwarded
           /\ stage[r] \notin {"idle", "new", "over"} => user[r] \in Users
  BY DEF Safe, TypeOK, Progress
<1>1. ASSUME NEW r \in Requests, Limit(r)
      PROVE  OnlyOwnRequestsCount'
  <2>1. user[r] \in Users /\ level[user[r]] \in 0..Burst /\ stage[r] = "admitted"
    BY <1>0, <1>1 DEF Limit
  <2>3. user' = user
    BY <1>1 DEF Limit
  <2>4. CASE End(r, "limited") /\ level' = level
    <3>1. \A u \in Users : Passed(u) \subseteq Passed(u)'
      BY <1>0, <2>1, <2>3, <2>4 DEF Passed
    <3>2. level' \in [Users -> 0..Burst] /\ \A u \in Users : level'[u] >= level[u]
      BY <1>0, <2>4
    <3>. QED BY <3>1, <3>2, StillPassed
  <2>5. CASE /\ Goto(r, "body") /\ answer' = answer
             /\ \E n \in 1..Burst : /\ n >= level[user[r]]
                                   /\ level' = [level EXCEPT ![user[r]] = n - 1]
    <3>0. PICK n \in 1..Burst : n >= level[user[r]] /\ level' = [level EXCEPT ![user[r]] = n - 1]
      BY <2>5
    <3>1. SUFFICES ASSUME NEW u \in Users
                   PROVE  level'[u] + Cardinality(Passed(u)') >= Burst
      BY DEF OnlyOwnRequestsCount
    <3>2. level[u] + Cardinality(Passed(u)) >= Burst /\ level[u] \in Int
      BY <1>0 DEF OnlyOwnRequestsCount
    <3>3. CASE u = user[r]
      <4>1. Passed(u)' = Passed(u) \cup {r} /\ r \notin Passed(u)
        BY <1>0, <2>1, <2>3, <2>5, <3>3 DEF Passed
      <4>2. Cardinality(Passed(u)') = Cardinality(Passed(u)) + 1
        BY <4>1, PassedFinite, FS_AddElement
      <4>3. level'[u] = n - 1 /\ n >= level[u] /\ n \in Int
        BY <1>0, <2>1, <3>0, <3>3
      <4>. QED BY <3>2, <4>2, <4>3, PassedFinite
    <3>4. CASE u # user[r]
      <4>1. Passed(u)' = Passed(u)
        BY <1>0, <2>1, <2>3, <2>5, <3>4 DEF Passed
      <4>2. level'[u] = level[u]
        BY <1>0, <2>1, <3>0, <3>4
      <4>. QED BY <3>2, <4>1, <4>2
    <3>. QED BY <3>3, <3>4
  <2>. QED BY <1>1, <2>4, <2>5, LimitTakes
<1>2. ASSUME NEW r \in Requests,
             \/ Authenticate(r) \/ Body(r) \/ Send(r) \/ SendFails(r)
             \/ Headers(r) \/ ReadBody(r) \/ RelayEnds(r)
      PROVE  OnlyOwnRequestsCount'
  <2>1. user' = user /\ level' = level
    BY <1>2 DEF Authenticate, Body, Send, SendFails, Headers, ReadBody, RelayEnds
  <2>2. CASE Authenticate(r)
    BY <1>0, <2>1, <2>2, StillPassed DEF Authenticate, Passed
  <2>3. CASE Body(r) \/ Send(r) \/ SendFails(r)
    BY <1>0, <2>1, <2>3, StillPassed DEF Body, Send, SendFails, Passed
  <2>4. CASE Headers(r) \/ ReadBody(r) \/ RelayEnds(r)
    BY <1>0, <2>1, <2>4, StillPassed DEF Headers, ReadBody, RelayEnds, Passed
  <2>. QED BY <1>2, <2>2, <2>3, <2>4
<1>3. ASSUME NEW r \in Requests, NEW u \in Users \cup {NoUser}, Arrive(r, u)
      PROVE  OnlyOwnRequestsCount'
  <2>1. \A w \in Users : Passed(w) \subseteq Passed(w)'
    BY <1>0, <1>3 DEF Arrive, Passed
  <2>2. level' = level
    BY <1>3 DEF Arrive
  <2>. QED BY <1>0, <2>1, <2>2, StillPassed
<1>4. CASE Administer \/ Readiness \/ UpstreamChanges \/ UNCHANGED vars
  <2>1. UNCHANGED <<answer, user, stage, level>>
    BY <1>4 DEF Administer, Revoke, Restore, Readiness, Probe, Ask, Told, UpstreamChanges,
                vars
  <2>2. \A w \in Users : Passed(w) \subseteq Passed(w)'
    BY <2>1 DEF Passed
  <2>. QED BY <1>0, <2>1, <2>2, StillPassed
<1>5. CASE Restart
  BY <1>5, PassedFinite DEF Restart, Bucket!FullBuckets, OnlyOwnRequestsCount
<1>. QED BY <1>1, <1>2, <1>3, <1>4, <1>5 DEF Next, Handle

\* The tokens missing from a user's bucket are paid for by that user's own
\* requests that passed the limiter: nobody can use up the share of another.
THEOREM BucketsAreSeparate == Spec => []OnlyOwnRequestsCount
<1>1. Init => OnlyOwnRequestsCount
  BY PassedFinite DEF Init, Bucket!FullBuckets, OnlyOwnRequestsCount
<1>2. Safe /\ OnlyOwnRequestsCount /\ [Next]_vars => OnlyOwnRequestsCount'
  BY BucketsStep
<1>. QED BY <1>1, <1>2, SafeInductive, PTL DEF Spec

=============================================================================
