------------------------------ MODULE Gateway ------------------------------
(***************************************************************************)
(* The access gateway of 06-internal-inference-access: authentication and  *)
(* revocation (auth.py), the bucket of each user (rate_limit.py), the      *)
(* proxy to the vLLM upstream (proxy.py), the request counter (metrics.py) *)
(* and the handlers of app.py that join them, in one process that may be   *)
(* restarted.  The buckets are those of module WholeTokens.                *)
(*                                                                         *)
(* The synchronous parts (require_user, revoke, restore) run in worker     *)
(* threads, the handler in the event loop; an action is the code between   *)
(* two suspensions or one call in a thread.  Chat requests and the         *)
(* readiness probe share the connection pool of one HTTP client.  A key    *)
(* stands for its user, whose keys are unique (parse_user_keys).           *)
(***************************************************************************)
EXTENDS Integers, FiniteSets

CONSTANTS Users, Requests,
          NoUser,           \* what a missing or unknown key stands for
          Burst,            \* rate_limit_burst
          MaxConnections,   \* of the pool of httpx.AsyncClient
          MaxRestarts       \* bounds the restarts of the model only

ASSUME GatewayAssumption ==
  /\ IsFiniteSet(Users) /\ IsFiniteSet(Requests) /\ NoUser \notin Users
  /\ {Burst, MaxConnections} \subseteq Nat \ {0}
  /\ MaxRestarts \in Nat

VARIABLES revoked,   \* APIKeyAuthenticator._revoked_users
          level,     \* whole tokens in the bucket of each user
          counted,   \* gateway_chat_requests_total by user and status
          stage,     \* where a request is
          user,      \* whose key it presents
          answer,    \* what it was answered with
          held,      \* requests with an open upstream response
          barred,    \* history: requests that came with a revoked key
          up,        \* environment: the upstream answers its health endpoint
          probe,     \* where the readiness probe is
          ready,     \* what the last probe was told
          restarts
access   == <<revoked, barred>>
health   == <<up, probe, ready>>
vars     == <<access, level, counted, stage, user, answer, held, health, restarts>>

Stages   == {"idle", "new", "admitted", "body", "pooled", "sent", "reading",
             "relaying", "over"}
\* What the upstream answers, with any body: passed on as it is.
Forwarded == {"ok", "bad"}
\* The labels of the counter.
Labels   == Forwarded \cup {"limited"}
\* 401, 503 and 500 of the gateway's own; "gone": the client left first.
Answers  == Labels \cup {"none", "denied", "unavailable", "error", "gone"}

-----------------------------------------------------------------------------
\* What a process starts with: no series in the counter, full buckets.
Uncounted == [u \in Users |-> [l \in Labels |-> 0]]
Bucket    == INSTANCE WholeTokens

Init ==
  /\ revoked = {} /\ barred = {} /\ held = {}
  /\ level = Bucket!FullBuckets
  /\ counted = Uncounted
  /\ stage = [r \in Requests |-> "idle"]
  /\ user = [r \in Requests |-> NoUser]
  /\ answer = [r \in Requests |-> "none"]
  /\ up \in BOOLEAN /\ probe = "idle" /\ ready = FALSE
  /\ restarts = 0

Goto(r, s)  == stage' = [stage EXCEPT ![r] = s]
End(r, a)   == Goto(r, "over") /\ answer' = [answer EXCEPT ![r] = a]
Count(r, l) == counted' = [counted EXCEPT ![user[r]][l] = @ + 1]

\* The pool has a connection to give.  The probe uses one while it asks.
Connections   == Cardinality(held) + (IF probe = "asking" THEN 1 ELSE 0)
HasConnection == Connections < MaxConnections

-----------------------------------------------------------------------------
(* Administration                                                          *)

Revoke(u) ==
  /\ revoked' = revoked \cup {u}
  /\ UNCHANGED <<barred, level, counted, stage, user, answer, held, health, restarts>>

\* Mutant of Restore: everybody's access comes back.
RestoreEverybody(u) ==
  /\ revoked' = {}
  /\ barred' = {r \in barred : user[r] # u}
  /\ UNCHANGED <<level, counted, stage, user, answer, held, health, restarts>>

Restore(u) ==
  /\ revoked' = revoked \ {u}
  /\ barred' = {r \in barred : user[r] # u}
  /\ UNCHANGED <<level, counted, stage, user, answer, held, health, restarts>>

\* The process is started anew.  Requests of the old one are over without an
\* answer; revocations, buckets and counters begin again.
Restart ==
  /\ restarts < MaxRestarts
  /\ restarts' = restarts + 1
  /\ revoked' = {} /\ barred' = {} /\ held' = {}
  /\ level' = Bucket!FullBuckets
  /\ counted' = Uncounted
  /\ stage' = [r \in Requests |-> IF stage[r] = "idle" THEN "idle" ELSE "over"]
  /\ answer' = [r \in Requests |-> "none"]
  /\ probe' = "idle" /\ ready' = FALSE
  /\ UNCHANGED <<user, up>>

-----------------------------------------------------------------------------
(* A chat request                                                          *)

Arrive(r, u) ==
  /\ stage[r] = "idle"
  /\ Goto(r, "new")
  /\ user' = [user EXCEPT ![r] = u]
  /\ barred' = IF u \in revoked THEN barred \cup {r} ELSE barred
  /\ UNCHANGED <<revoked, level, counted, answer, held, health, restarts>>

\* authenticate(): the key is compared with those of the users not revoked.
HasAccess(u) == u \in Users \ revoked

\* require_user, in a worker thread.
Authenticate(r) ==
  /\ stage[r] = "new"
  /\ IF HasAccess(user[r])
       THEN Goto(r, "admitted") /\ UNCHANGED answer
       ELSE End(r, "denied")
  /\ UNCHANGED <<access, level, counted, user, held, health, restarts>>

\* Mutant of Limit: one bucket for all users.
LimitTogether(r) ==
  /\ stage[r] = "admitted"
  /\ \E n \in level[user[r]]..Burst :
       IF n < 1
         THEN /\ End(r, "limited") /\ Count(r, "limited")
              /\ level' = [u \in Users |-> n]
         ELSE /\ Goto(r, "body") /\ level' = [u \in Users |-> n - 1]
              /\ UNCHANGED <<answer, counted>>
  /\ UNCHANGED <<access, user, held, health, restarts>>

\* Mutant of Limit: the empty bucket is not tested.
LimitUntested(r) ==
  /\ stage[r] = "admitted"
  /\ \E n \in level[user[r]]..Burst : level' = [level EXCEPT ![user[r]] = n - 1]
  /\ Goto(r, "body")
  /\ UNCHANGED <<access, counted, user, answer, held, health, restarts>>

\* rate_limiter.allow and its two ends.
Limit(r) ==
  /\ stage[r] = "admitted"
  /\ \/ Bucket!Refuse(user[r]) /\ End(r, "limited") /\ Count(r, "limited")
     \/ Bucket!Grant(user[r]) /\ Goto(r, "body") /\ UNCHANGED <<answer, counted>>
  /\ UNCHANGED <<access, user, held, health, restarts>>

\* await request.body(): the body is there, or the client left while sending.
Body(r) ==
  /\ stage[r] = "body"
  /\ \/ Goto(r, "pooled") /\ UNCHANGED answer
     \/ End(r, "gone")
  /\ UNCHANGED <<access, level, counted, user, held, health, restarts>>

\* client.send takes a connection of the pool and sends the request.
Send(r) ==
  /\ stage[r] = "pooled"
  /\ HasConnection
  /\ Goto(r, "sent")
  /\ held' = held \cup {r}
  /\ UNCHANGED <<access, level, counted, user, answer, health, restarts>>

\* client.send raises a RequestError: no connection came free in time, or
\* the upstream was not reached, broke off or was silent.
SendFails(r) ==
  /\ \/ stage[r] = "pooled" /\ (HasConnection => ~up)
     \/ stage[r] = "sent"
  /\ End(r, "unavailable")
  /\ held' = held \ {r}
  /\ UNCHANGED <<access, level, counted, user, health, restarts>>

\* Mutant of Headers: a streamed answer is counted when its relay ends.
HeadersUncounted(r) ==
  /\ stage[r] = "sent"
  /\ \/ \E a \in Forwarded :
          /\ answer' = [answer EXCEPT ![r] = a]
          /\ Goto(r, "relaying")
     \/ Goto(r, "reading") /\ UNCHANGED answer
  /\ UNCHANGED <<access, level, counted, user, held, health, restarts>>

\* The upstream's status and headers are there.  For an event stream the
\* request is counted and answered with that status; any other body is read.
Headers(r) ==
  /\ stage[r] = "sent"
  /\ \/ \E a \in Forwarded :
          /\ answer' = [answer EXCEPT ![r] = a]
          /\ Count(r, a)
          /\ Goto(r, "relaying")
     \/ Goto(r, "reading") /\ UNCHANGED <<answer, counted>>
  /\ UNCHANGED <<access, level, user, held, health, restarts>>

\* Mutant of ReadBody: aclose() is not in a finally clause.
ReadBodyLeaks(r) ==
  /\ stage[r] = "reading"
  /\ \/ \E a \in Forwarded : End(r, a) /\ Count(r, a) /\ held' = held \ {r}
     \/ End(r, "error") /\ UNCHANGED <<counted, held>>
  /\ UNCHANGED <<access, level, user, health, restarts>>

\* Mutant of ReadBody: the client is made without a timeout.
ReadBodyUntimed(r) ==
  /\ stage[r] = "reading"
  /\ up
  /\ \E a \in Forwarded : End(r, a) /\ Count(r, a)
  /\ held' = held \ {r}
  /\ UNCHANGED <<access, level, user, health, restarts>>

\* aread() returns the body, which is counted and answered, or raises an
\* error nobody catches; the upstream response is closed either way.
ReadBody(r) ==
  /\ stage[r] = "reading"
  /\ \/ \E a \in Forwarded : End(r, a) /\ Count(r, a)
     \/ End(r, "error") /\ UNCHANGED counted
  /\ held' = held \ {r}
  /\ UNCHANGED <<access, level, user, health, restarts>>

\* Mutant of RelayEnds: the generator has no finally clause.
RelayLeaks(r) ==
  /\ stage[r] = "relaying"
  /\ Goto(r, "over")
  /\ held' \in {held, held \ {r}}
  /\ UNCHANGED <<access, level, counted, user, answer, health, restarts>>

\* stream_response ends: the stream is whole, the upstream broke off, or the
\* client left, in which case the generator is cancelled or dropped; its finally
\* clause closes the upstream response.
RelayEnds(r) ==
  /\ stage[r] = "relaying"
  /\ Goto(r, "over")
  /\ held' = held \ {r}
  /\ UNCHANGED <<access, level, counted, user, answer, health, restarts>>

-----------------------------------------------------------------------------
(* Readiness                                                               *)

\* A probe arrives and waits for a connection.
Probe ==
  /\ probe = "idle"
  /\ probe' = "pooled"
  /\ UNCHANGED <<access, level, counted, stage, user, answer, held, up, ready, restarts>>

\* is_ready gets a connection and asks, or gives up waiting for one.
Ask ==
  /\ probe = "pooled"
  /\ IF HasConnection THEN probe' = "asking" /\ UNCHANGED ready
                      ELSE probe' = "idle" /\ ready' = FALSE
  /\ UNCHANGED <<access, level, counted, stage, user, answer, held, up, restarts>>

\* The upstream answers 200, or something else, or nothing in time.
Told ==
  /\ probe = "asking"
  /\ probe' = "idle" /\ ready' = up
  /\ UNCHANGED <<access, level, counted, stage, user, answer, held, up, restarts>>

UpstreamChanges ==
  /\ up' = ~up
  /\ UNCHANGED <<access, level, counted, stage, user, answer, held, probe, ready, restarts>>

-----------------------------------------------------------------------------
\* POST /v1/chat/completions.
Handle(r) ==
  \/ Authenticate(r) \/ Limit(r) \/ Body(r) \/ Send(r) \/ SendFails(r)
  \/ Headers(r) \/ ReadBody(r) \/ RelayEnds(r)

\* DELETE and PUT /admin/users/{user}/access.  Calls without the admin key, and
\* for users that are not configured, are refused and change nothing.
Administer == \E u \in Users : Revoke(u) \/ Restore(u)

\* GET /health/ready.
Readiness == Probe \/ Ask \/ Told

Next ==
  \/ \E r \in Requests : Handle(r) \/ \E u \in Users \cup {NoUser} : Arrive(r, u)
  \/ Administer \/ Readiness
  \/ UpstreamChanges \/ Restart

Spec == Init /\ [][Next]_vars

\* The process runs what is ready; calls to the upstream end by its answer or
\* by the client's timeout, relays because generations end and clients read
\* or leave; the orchestrator keeps probing.
FairSpec ==
  /\ Spec
  /\ \A r \in Requests : WF_vars(Handle(r))
  /\ WF_vars(Probe) /\ WF_vars(Ask) /\ WF_vars(Told)

-----------------------------------------------------------------------------
\* Each variable has the type the code gives it.
TypeOK ==
  /\ revoked \subseteq Users
  /\ level \in [Users -> 0..Burst]
  /\ counted \in [Users -> [Labels -> Nat]]
  /\ stage \in [Requests -> Stages]
  /\ user \in [Requests -> Users \cup {NoUser}]
  /\ answer \in [Requests -> Answers]
  /\ held \subseteq Requests /\ barred \subseteq Requests
  /\ up \in BOOLEAN /\ ready \in BOOLEAN
  /\ probe \in {"idle", "pooled", "asking"}
  /\ restarts \in 0..MaxRestarts

\* An upstream response stays open only while its request is being answered,
\* so chat requests, however they end, never use up the pool the readiness
\* probe shares with them; and the pool is never exceeded.
ConnectionsReturned ==
  /\ \A r \in held : stage[r] \in {"sent", "reading", "relaying"}
  /\ Connections <= MaxConnections

\* A request that comes after a user's revocation gets no further than the
\* authentication, whatever happens to other users and to requests of the
\* same user admitted before, until that user is restored or the process,
\* which keeps revocations in memory, is started anew.
RevokedStayOut == \A r \in barred :
  stage[r] = "new" \/ (stage[r] = "over" /\ answer[r] = "denied")

\* The counter agrees, user by user and status by status, with the answers
\* that this process gave.
CountersMatchAnswers == \A u \in Users, l \in Labels :
  counted[u][l] = Cardinality({r \in Requests : user[r] = u /\ answer[r] = l})

\* The requests of a user that passed the limiter in this process.
Passed(u) == {r \in Requests : user[r] = u /\
  \/ stage[r] \in {"body", "pooled", "sent", "reading", "relaying"}
  \/ stage[r] = "over" /\ answer[r] \in Forwarded \cup {"unavailable", "error", "gone"}}

\* Only a user's own accepted requests take tokens from the user's bucket:
\* other users, refusals, revocation and restoration do not.
OnlyOwnRequestsCount == \A u \in Users :
  level[u] + Cardinality(Passed(u)) >= Burst

\* Every request that arrives ends.
EveryRequestEnds == \A r \in Requests : stage[r] # "idle" ~> stage[r] = "over"

\* When the upstream stays healthy the gateway becomes ready and stays so:
\* no sequence of failed, broken or abandoned requests keeps it out of service.
ReadinessRecovers == <>[]up => <>[]ready

=============================================================================
