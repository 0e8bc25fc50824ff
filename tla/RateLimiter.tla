---------------------------- MODULE RateLimiter ----------------------------
(***************************************************************************)
(* TokenBucketRateLimiter of                                               *)
(* 03-production-serving/src/production_serving/rate_limit.py.             *)
(*                                                                         *)
(* allow() holds an asyncio.Lock but suspends nowhere inside it, so a call *)
(* is one action.  Time is counted in seconds and tokens in sixtieths, so  *)
(* that requests_per_minute / 60 tokens a second are RequestsPerMinute     *)
(* units a second and every quantity is an integer; the rounding of the    *)
(* code's floats is not modelled.                                          *)
(***************************************************************************)
EXTENDS Integers, FiniteSets, Functions

CONSTANTS Clients,             \* the callers' ids
          RequestsPerMinute,   \* requests_per_minute
          Burst,               \* burst
          MaxClients,          \* max_clients
          MaxTime              \* bound: the model's clock stops here

ASSUME RateLimiterAssumption ==
  /\ IsFiniteSet(Clients)
  /\ RequestsPerMinute \in Nat \ {0}
  /\ Burst \in Nat \ {0}
  /\ MaxClients \in Nat \ {0}
  /\ MaxTime \in Nat

VARIABLES now,        \* the monotonic clock
          tokens,     \* Bucket.tokens of each tracked client
          updatedAt,  \* Bucket.updated_at of each tracked client
          answer,     \* what allow() last told each client
          lastGrant,  \* history: when the client was last granted a request
          since,      \* history: when the observer's window opened
          granted     \* history: the grants in that window
code    == <<tokens, updatedAt, answer>>
history == <<lastGrant, since, granted>>
vars    == <<now, code, history>>

Token   == 60
Full    == Token * Burst
Tracked == DOMAIN tokens

AtMost(a, b)  == IF a <= b THEN a ELSE b
AtLeast(a, b) == IF a >= b THEN a ELSE b

\* What the bucket of a tracked client holds at time t.
Level(c, t) ==
  AtMost(Full, tokens[c] + AtLeast(0, t - updatedAt[c]) * RequestsPerMinute)

\* The clients allow() may choose to forget: those not seen for longest.
Oldest == {c \in Tracked : \A d \in Tracked : updatedAt[c] <= updatedAt[d]}

Init ==
  /\ now = 0
  /\ tokens = <<>>
  /\ updatedAt = <<>>
  /\ answer = [c \in Clients |-> "none"]
  /\ lastGrant = [c \in Clients |-> 0]
  /\ since = [c \in Clients |-> 0]
  /\ granted = [c \in Clients |-> 0]

\* Mutant of Kept: room is made one client too late.
KeptOneMore ==
  IF Cardinality(Tracked) > MaxClients
  THEN {Tracked \ {c} : c \in Oldest}
  ELSE {Tracked}

\* The buckets that stay when a client that is not tracked calls.
Kept ==
  IF Cardinality(Tracked) >= MaxClients
  THEN {Tracked \ {c} : c \in Oldest}
  ELSE {Tracked}

\* A call by a client without a bucket: one bucket makes room when the table
\* is full, and a full bucket less this request is stored.
AllowNew(c) ==
  /\ c \notin Tracked
  /\ \E kept \in Kept :
       /\ tokens' = [d \in kept \cup {c} |->
                       IF d = c THEN Full - Token ELSE tokens[d]]
       /\ updatedAt' = [d \in kept \cup {c} |->
                          IF d = c THEN now ELSE updatedAt[d]]
  /\ answer' = [answer EXCEPT ![c] = "granted"]
  /\ lastGrant' = [lastGrant EXCEPT ![c] = now]
  /\ since' = [since EXCEPT ![c] = now]
  /\ granted' = [granted EXCEPT ![c] = 1]
  /\ UNCHANGED now

\* Mutant of AllowTracked: updated_at stays, so time is paid out again.
AllowUndated(c) ==
  /\ c \in Tracked
  /\ \/ /\ Level(c, now) >= Token
        /\ tokens' = [tokens EXCEPT ![c] = Level(c, now) - Token]
        /\ answer' = [answer EXCEPT ![c] = "granted"]
        /\ lastGrant' = [lastGrant EXCEPT ![c] = now]
        /\ granted' = [granted EXCEPT ![c] = @ + 1]
     \/ /\ Level(c, now) < Token
        /\ tokens' = [tokens EXCEPT ![c] = Level(c, now)]
        /\ answer' = [answer EXCEPT ![c] = "refused"]
        /\ UNCHANGED <<lastGrant, granted>>
  /\ UNCHANGED <<now, since, updatedAt>>

\* Mutant of AllowTracked: a refusal forgets the refill of a part of a token.
AllowForgetful(c) ==
  /\ c \in Tracked
  /\ updatedAt' = [updatedAt EXCEPT ![c] = now]
  /\ \/ /\ Level(c, now) >= Token
        /\ tokens' = [tokens EXCEPT ![c] = Level(c, now) - Token]
        /\ answer' = [answer EXCEPT ![c] = "granted"]
        /\ lastGrant' = [lastGrant EXCEPT ![c] = now]
        /\ granted' = [granted EXCEPT ![c] = @ + 1]
     \/ /\ Level(c, now) < Token
        /\ answer' = [answer EXCEPT ![c] = "refused"]
        /\ UNCHANGED <<tokens, lastGrant, granted>>
  /\ UNCHANGED <<now, since>>

\* A call by a client with a bucket: it is refilled, and one token is taken
\* out when there is one.
AllowTracked(c) ==
  /\ c \in Tracked
  /\ updatedAt' = [updatedAt EXCEPT ![c] = now]
  /\ \/ /\ Level(c, now) >= Token
        /\ tokens' = [tokens EXCEPT ![c] = Level(c, now) - Token]
        /\ answer' = [answer EXCEPT ![c] = "granted"]
        /\ lastGrant' = [lastGrant EXCEPT ![c] = now]
        /\ granted' = [granted EXCEPT ![c] = @ + 1]
     \/ /\ Level(c, now) < Token
        /\ tokens' = [tokens EXCEPT ![c] = Level(c, now)]
        /\ answer' = [answer EXCEPT ![c] = "refused"]
        /\ UNCHANGED <<lastGrant, granted>>
  /\ UNCHANGED <<now, since>>

\* Time passes.
Tick(t) ==
  /\ t > now
  /\ now' = t
  /\ UNCHANGED <<code, history>>

\* An observer starts to count a client's grants afresh, at any moment.
OpenWindow(c) ==
  /\ c \in Tracked
  /\ since' = [since EXCEPT ![c] = now]
  /\ granted' = [granted EXCEPT ![c] = 0]
  /\ UNCHANGED <<now, code, lastGrant>>

Next ==
  \/ \E c \in Clients : AllowNew(c) \/ AllowTracked(c) \/ OpenWindow(c)
  \/ \E t \in 1 .. MaxTime : Tick(t)

Spec == Init /\ [][Next]_vars

-----------------------------------------------------------------------------
\* The table holds one well-formed bucket per tracked client and at most
\* max_clients of them.
TypeOK ==
  /\ now \in 0 .. MaxTime
  /\ Tracked \subseteq Clients
  /\ Cardinality(Tracked) <= MaxClients
  /\ tokens \in [Tracked -> 0 .. Full]
  /\ updatedAt \in [Tracked -> 0 .. now]
  /\ answer \in [Clients -> {"none", "granted", "refused"}]
  /\ lastGrant \in [Clients -> 0 .. now]
  /\ since \in [Clients -> 0 .. now]
  /\ granted \in [Clients -> Nat]

\* In every window of time in which its bucket is not dropped, a client is
\* granted at most burst requests plus requests_per_minute for each minute.
RateBound == \A c \in Tracked :
  Token * granted[c] <= Full + RequestsPerMinute * (now - since[c])

\* A tracked client is refused only when its last grant is less than one
\* token's time ago: whoever keeps below the rate is never refused.
RefusalsAreEarned == \A c \in Tracked :
  answer[c] = "refused"
    => RequestsPerMinute * (updatedAt[c] - lastGrant[c]) < Token

-----------------------------------------------------------------------------
(* The buckets in whole tokens                                             *)

\* A client that is not in the table has a full bucket.
WholeLevel == [c \in Clients |-> IF c \in Tracked THEN tokens[c] \div Token ELSE Burst]
Whole == INSTANCE WholeTokens WITH Users <- Clients, level <- WholeLevel

\* A call as a bucket of whole tokens answers it.
Wholly(c) ==
  \/ Whole!Grant(c) /\ answer' = [answer EXCEPT ![c] = "granted"]
  \/ Whole!Refuse(c) /\ answer' = [answer EXCEPT ![c] = "refused"]

\* While the table has room for every client, as that of the gateway always has,
\* allow() answers as buckets of whole tokens may, which know no time: what the
\* gateway's module assumes of its limiter.
AnswersLikeWholeTokens ==
  /\ WholeLevel = Whole!FullBuckets
  /\ [][\E c \in Clients : Wholly(c)]_<<WholeLevel, answer>>

-----------------------------------------------------------------------------
(* The strengthening that makes the two inductive                          *)

\* What was granted in the window plus what could be granted at once is
\* within the bound.
WindowBudget == \A c \in Tracked :
  Token * granted[c] + Level(c, now)
    <= Full + RequestsPerMinute * (now - since[c])

\* A bucket has refilled since its last grant, or is full; and the refused
\* client's bucket held less than a token.
RefilledSinceGrant == \A c \in Tracked :
  /\ lastGrant[c] <= updatedAt[c]
  /\ tokens[c] >= AtMost(Full, RequestsPerMinute * (updatedAt[c] - lastGrant[c]))
  /\ answer[c] = "refused" => tokens[c] < Token

IInv == WindowBudget /\ RefilledSinceGrant

=============================================================================
