------------------------- MODULE RateLimiterProofs -------------------------
(***************************************************************************)
(* The bounds of the token bucket, for every rate, burst, table size and   *)
(* set of clients.                                                         *)
(***************************************************************************)
EXTENDS RateLimiter, TLAPS, FiniteSetTheorems

\* The numbers the formulas are made of.
LEMMA Numbers ==
  /\ Full \in Nat /\ Token \in Nat /\ Full >= Token
  /\ RequestsPerMinute \in Nat
  /\ MaxTime \in Nat /\ MaxClients \in Nat \ {0}
BY RateLimiterAssumption DEF RateLimiterAssumption, Full, Token

\* A longer time refills more.
LEMMA RefillMonotone ==
  ASSUME NEW m \in Nat, NEW n \in Nat, m <= n
  PROVE  RequestsPerMinute * m \in Nat /\ RequestsPerMinute * m <= RequestsPerMinute * n
BY RateLimiterAssumption DEF RateLimiterAssumption

\* The refills of two times add up.
LEMMA RefillAdds ==
  ASSUME NEW m \in Int, NEW n \in Int
  PROVE  RequestsPerMinute * (m + n) = RequestsPerMinute * m + RequestsPerMinute * n
BY RateLimiterAssumption DEF RateLimiterAssumption

\* A bucket never holds more than a full one, nor less than it held, and it
\* gains at most the refill of the time that passes.
LEMMA LevelBounds ==
  ASSUME TypeOK, NEW c \in Tracked, NEW t \in Nat, now <= t
  PROVE  /\ Level(c, t) \in 0 .. Full
         /\ Level(c, t) >= tokens[c]
         /\ Level(c, t) = AtMost(Full, tokens[c] + RequestsPerMinute * (t - updatedAt[c]))
         /\ Level(c, t) <= Level(c, now) + RequestsPerMinute * (t - now)
<1>1. /\ tokens[c] \in 0 .. Full /\ updatedAt[c] \in Nat /\ now \in Nat
      /\ updatedAt[c] <= now
  BY Numbers DEF TypeOK
<1>2. PICK a \in Nat, b \in Nat :
        /\ a = RequestsPerMinute * (now - updatedAt[c])
        /\ b = RequestsPerMinute * (t - now)
        /\ a + b = RequestsPerMinute * (t - updatedAt[c])
  <2>1. PICK m \in Nat : m = now - updatedAt[c]
    BY <1>1
  <2>2. PICK n \in Nat : n = t - now
    BY <1>1
  <2>3. t - updatedAt[c] = m + n
    BY <1>1, <2>1, <2>2
  <2>4. RequestsPerMinute * m \in Nat /\ RequestsPerMinute * n \in Nat
    BY Numbers
  <2>5. RequestsPerMinute * (m + n) = RequestsPerMinute * m + RequestsPerMinute * n
    BY RefillAdds
  <2>. QED BY <2>1, <2>2, <2>3, <2>4, <2>5
<1>3. /\ AtLeast(0, t - updatedAt[c]) = t - updatedAt[c]
      /\ AtLeast(0, now - updatedAt[c]) = now - updatedAt[c]
  BY <1>1 DEF AtLeast
<1>4. /\ Level(c, t) = AtMost(Full, tokens[c] + (a + b))
      /\ Level(c, now) = AtMost(Full, tokens[c] + a)
  BY <1>1, <1>2, <1>3, Numbers DEF Level
<1>. QED BY <1>1, <1>2, <1>4, Numbers DEF AtMost

-----------------------------------------------------------------------------
(* Type correctness                                                        *)

\* Making room leaves a part of the table in which one bucket more fits.
LEMMA KeptHasRoom ==
  ASSUME TypeOK, NEW kept \in Kept, NEW c \in Clients, c \notin Tracked
  PROVE  /\ kept \subseteq Tracked
         /\ kept \cup {c} \subseteq Clients
         /\ Cardinality(kept \cup {c}) <= MaxClients
<1>. USE Numbers
<1>1. IsFiniteSet(Tracked) /\ Cardinality(Tracked) \in Nat
      /\ Cardinality(Tracked) <= MaxClients /\ Tracked \subseteq Clients
  BY RateLimiterAssumption, FS_Subset, FS_CardinalityType
  DEF TypeOK, RateLimiterAssumption
<1>2. CASE Cardinality(Tracked) >= MaxClients
  <2>1. PICK d \in Tracked : kept = Tracked \ {d}
    BY <1>2 DEF Kept, Oldest
  <2>2. IsFiniteSet(kept) /\ Cardinality(kept) = Cardinality(Tracked) - 1
    BY <1>1, <2>1, FS_RemoveElement
  <2>3. c \notin kept
    BY <2>1
  <2>4. Cardinality(kept \cup {c}) = Cardinality(kept) + 1
    BY <2>2, <2>3, FS_AddElement
  <2>. QED BY <1>1, <2>1, <2>2, <2>4
<1>3. CASE ~(Cardinality(Tracked) >= MaxClients)
  <2>1. kept = Tracked
    BY <1>3 DEF Kept
  <2>2. Cardinality(kept \cup {c}) = Cardinality(Tracked) + 1
    BY <1>1, <2>1, FS_AddElement
  <2>. QED BY <1>1, <1>3, <2>1, <2>2
<1>. QED BY <1>2, <1>3

\* The table starts empty.
LEMMA TypeInit == Init => TypeOK
<1>. SUFFICES ASSUME Init PROVE TypeOK
  OBVIOUS
<1>1. Tracked = {} /\ DOMAIN updatedAt = {}
  BY DEF Init, Tracked
<1>. QED BY <1>1, Numbers, FS_EmptySet DEF Init, TypeOK

\* Every step keeps the table well formed and within its size.
LEMMA TypeStep ==
  ASSUME TypeOK, [Next]_vars
  PROVE  TypeOK'
<1>. USE Numbers
<1>0. now \in Nat /\ now <= MaxTime
  BY DEF TypeOK
<1>1. ASSUME NEW c \in Clients, AllowNew(c) PROVE TypeOK'
  <2>1. PICK kept \in Kept :
          /\ tokens' = [d \in kept \cup {c} |->
                          IF d = c THEN Full - Token ELSE tokens[d]]
          /\ updatedAt' = [d \in kept \cup {c} |->
                             IF d = c THEN now ELSE updatedAt[d]]
    BY <1>1 DEF AllowNew
  <2>2. /\ kept \subseteq Tracked
        /\ kept \cup {c} \subseteq Clients
        /\ Cardinality(kept \cup {c}) <= MaxClients
    BY <1>1, KeptHasRoom DEF AllowNew
  <2>3. Tracked' = kept \cup {c}
    BY <2>1 DEF Tracked
  <2>4. Full - Token \in 0 .. Full
    BY DEF Full, Token
  <2>5. /\ tokens' \in [Tracked' -> 0 .. Full]
        /\ updatedAt' \in [Tracked' -> 0 .. now]
    BY <1>0, <2>1, <2>2, <2>3, <2>4 DEF TypeOK
  <2>. QED BY <1>0, <1>1, <2>2, <2>3, <2>5 DEF AllowNew, TypeOK
<1>2. ASSUME NEW c \in Clients, AllowTracked(c) PROVE TypeOK'
  <2>0. c \in Tracked
    BY <1>2 DEF AllowTracked
  <2>1. Level(c, now) \in 0 .. Full
    BY <1>0, <2>0, LevelBounds
  <2>2. Tracked' = Tracked
    BY <1>2, <2>0 DEF AllowTracked, Tracked, TypeOK
  <2>3. tokens' \in [Tracked -> 0 .. Full]
    BY <1>2, <2>1 DEF AllowTracked, TypeOK, Token
  <2>4. updatedAt' \in [Tracked -> 0 .. now]
    BY <1>0, <1>2 DEF AllowTracked, TypeOK
  <2>. QED BY <1>0, <1>2, <2>2, <2>3, <2>4 DEF AllowTracked, TypeOK
<1>3. ASSUME NEW c \in Clients, OpenWindow(c) PROVE TypeOK'
  BY <1>0, <1>3 DEF OpenWindow, code, TypeOK, Tracked
<1>4. ASSUME NEW t \in 1 .. MaxTime, Tick(t) PROVE TypeOK'
  BY <1>0, <1>4 DEF Tick, code, history, TypeOK, Tracked
<1>5. CASE UNCHANGED vars
  BY <1>5 DEF vars, code, history, TypeOK, Tracked
<1>. QED BY <1>1, <1>2, <1>3, <1>4, <1>5 DEF Next

\* The table never outgrows max_clients and its buckets are well formed.
THEOREM TypeCorrect == Spec => []TypeOK
<1>1. Init => TypeOK
  BY TypeInit
<1>2. TypeOK /\ [Next]_vars => TypeOK'
  BY TypeStep
<1>. QED BY <1>1, <1>2, PTL DEF Spec

-----------------------------------------------------------------------------
(* The bounds                                                              *)

\* No step makes a bucket worth more than its window allows: a grant moves a
\* token from the bucket to the count, and time gives to both sides alike.
LEMMA BudgetStep ==
  ASSUME TypeOK, TypeOK', WindowBudget, [Next]_vars
  PROVE  WindowBudget'
<1>. USE Numbers
<1>0. now \in Nat
  BY DEF TypeOK
<1>1. ASSUME NEW c \in Clients, AllowNew(c) PROVE WindowBudget'
  <2>1. PICK kept \in Kept :
          /\ tokens' = [d \in kept \cup {c} |->
                          IF d = c THEN Full - Token ELSE tokens[d]]
          /\ updatedAt' = [d \in kept \cup {c} |->
                             IF d = c THEN now ELSE updatedAt[d]]
    BY <1>1 DEF AllowNew
  <2>2. /\ kept \subseteq Tracked /\ c \notin Tracked /\ now' = now
        /\ Tracked' = kept \cup {c}
    BY <1>1, <2>1, KeptHasRoom DEF AllowNew, Tracked
  <2>3. SUFFICES ASSUME NEW d \in Tracked'
                 PROVE  Token * granted'[d] + Level(d, now)'
                          <= Full + RequestsPerMinute * (now' - since'[d])
    BY DEF WindowBudget
  <2>4. CASE d = c
    <3>1. granted'[c] = 1 /\ since'[c] = now
      BY <1>1 DEF AllowNew, TypeOK
    <3>2. tokens'[c] = Full - Token /\ updatedAt'[c] = now
      BY <2>1
    <3>3. Level(c, now)' = AtMost(Full, (Full - Token) + 0 * RequestsPerMinute)
      BY <1>0, <2>2, <3>2 DEF Level, AtLeast
    <3>4. Level(c, now)' = Full - Token
      BY <3>3 DEF AtMost
    <3>. QED BY <1>0, <2>2, <2>4, <3>1, <3>4
  <2>5. CASE d # c
    <3>1. d \in Tracked /\ tokens'[d] = tokens[d] /\ updatedAt'[d] = updatedAt[d]
      BY <2>1, <2>2, <2>5
    <3>2. granted'[d] = granted[d] /\ since'[d] = since[d]
      BY <1>1, <2>5 DEF AllowNew, TypeOK
    <3>3. Level(d, now)' = Level(d, now)
      BY <2>2, <3>1 DEF Level
    <3>. QED BY <2>2, <3>1, <3>2, <3>3 DEF WindowBudget
  <2>. QED BY <2>4, <2>5
<1>2. ASSUME NEW c \in Clients, AllowTracked(c) PROVE WindowBudget'
  <2>1. /\ c \in Tracked /\ now' = now /\ since' = since
        /\ updatedAt' = [updatedAt EXCEPT ![c] = now]
    BY <1>2 DEF AllowTracked
  <2>2. PICK lev \in 0 .. Full : lev = Level(c, now)
    BY <1>0, <2>1, LevelBounds
  <2>3. PICK g \in Nat : g = granted[c]
    BY <2>1 DEF TypeOK
  <2>4. \E n \in 0 .. 1 :
          /\ tokens' = [tokens EXCEPT ![c] = lev - Token * n]
          /\ granted'[c] = g + n /\ lev - Token * n \in 0 .. Full
          /\ \A d \in Clients \ {c} : granted'[d] = granted[d]
    <3>1. CASE lev >= Token
      <4>1. /\ tokens' = [tokens EXCEPT ![c] = lev - Token * 1]
            /\ granted' = [granted EXCEPT ![c] = @ + 1]
        BY <1>2, <2>2, <3>1 DEF AllowTracked
      <4>. QED BY <2>3, <3>1, <4>1 DEF TypeOK
    <3>2. CASE lev < Token
      <4>1. /\ tokens' = [tokens EXCEPT ![c] = lev - Token * 0]
            /\ granted' = granted
        BY <1>2, <2>2, <3>2 DEF AllowTracked
      <4>. QED BY <2>3, <4>1
    <3>. QED BY <3>1, <3>2
  <2>5. PICK n \in 0 .. 1 :
          /\ tokens' = [tokens EXCEPT ![c] = lev - Token * n]
          /\ granted'[c] = g + n /\ lev - Token * n \in 0 .. Full
          /\ \A d \in Clients \ {c} : granted'[d] = granted[d]
    BY <2>4
  <2>6. Tracked' = Tracked
    BY <2>1, <2>5 DEF Tracked, TypeOK
  <2>7. SUFFICES ASSUME NEW d \in Tracked
                 PROVE  Token * granted'[d] + Level(d, now)'
                          <= Full + RequestsPerMinute * (now' - since'[d])
    BY <2>6 DEF WindowBudget
  <2>8. CASE d = c
    <3>1. tokens'[c] = lev - Token * n /\ updatedAt'[c] = now
      BY <2>1, <2>5 DEF TypeOK
    <3>2. Level(c, now)' = AtMost(Full, (lev - Token * n) + 0 * RequestsPerMinute)
      BY <1>0, <2>1, <3>1 DEF Level, AtLeast
    <3>3. Level(c, now)' = lev - Token * n
      BY <2>5, <3>2 DEF AtMost
    <3>4. Token * g + lev <= Full + RequestsPerMinute * (now - since[c])
      BY <2>1, <2>2, <2>3 DEF WindowBudget
    <3>5. Token * (g + n) + (lev - Token * n) = Token * g + lev
      BY DEF Token
    <3>. QED BY <2>1, <2>5, <2>8, <3>3, <3>4, <3>5
  <2>9. CASE d # c
    <3>1. tokens'[d] = tokens[d] /\ updatedAt'[d] = updatedAt[d]
      BY <2>1, <2>5, <2>9 DEF TypeOK
    <3>2. Level(d, now)' = Level(d, now)
      BY <2>1, <3>1 DEF Level
    <3>3. granted'[d] = granted[d]
      BY <2>5, <2>9 DEF TypeOK
    <3>. QED BY <2>1, <3>2, <3>3 DEF WindowBudget
  <2>. QED BY <2>8, <2>9
<1>3. ASSUME NEW c \in Clients, OpenWindow(c) PROVE WindowBudget'
  <2>1. /\ now' = now /\ tokens' = tokens /\ updatedAt' = updatedAt
        /\ Tracked' = Tracked
    BY <1>3 DEF OpenWindow, code, Tracked
  <2>2. SUFFICES ASSUME NEW d \in Tracked
                 PROVE  Token * granted'[d] + Level(d, now)
                          <= Full + RequestsPerMinute * (now - since'[d])
    BY <2>1 DEF WindowBudget, Level
  <2>3. CASE d = c
    <3>1. granted'[d] = 0 /\ since'[d] = now
      BY <1>3, <2>3 DEF OpenWindow, TypeOK
    <3>2. Level(d, now) \in 0 .. Full
      BY <1>0, LevelBounds
    <3>. QED BY <1>0, <3>1, <3>2
  <2>4. CASE d # c
    <3>1. granted'[d] = granted[d] /\ since'[d] = since[d]
      BY <1>3, <2>4 DEF OpenWindow, TypeOK
    <3>. QED BY <3>1 DEF WindowBudget
  <2>. QED BY <2>3, <2>4
<1>4. ASSUME NEW t \in 1 .. MaxTime, Tick(t) PROVE WindowBudget'
  <2>1. /\ now' = t /\ t \in Nat /\ now <= t
        /\ tokens' = tokens /\ updatedAt' = updatedAt
        /\ granted' = granted /\ since' = since /\ Tracked' = Tracked
    BY <1>0, <1>4 DEF Tick, code, history, Tracked
  <2>2. SUFFICES ASSUME NEW d \in Tracked
                 PROVE  Token * granted[d] + Level(d, t)
                          <= Full + RequestsPerMinute * (t - since[d])
    BY <2>1 DEF WindowBudget, Level
  <2>3. /\ Level(d, t) \in Int /\ Level(d, now) \in Int
        /\ Level(d, t) <= Level(d, now) + RequestsPerMinute * (t - now)
    BY <1>0, <2>1, LevelBounds
  <2>4. /\ granted[d] \in Nat /\ since[d] \in Nat
        /\ Token * granted[d] + Level(d, now)
             <= Full + RequestsPerMinute * (now - since[d])
    BY <1>0 DEF WindowBudget, TypeOK
  <2>5. RequestsPerMinute * (now - since[d]) + RequestsPerMinute * (t - now)
          = RequestsPerMinute * (t - since[d])
    <3>1. (now - since[d]) + (t - now) = t - since[d]
      BY <1>0, <2>1, <2>4
    <3>. QED BY <1>0, <2>1, <2>4, <3>1, RefillAdds
  <2>. QED BY <1>0, <2>1, <2>3, <2>4, <2>5 DEF Token
<1>5. CASE UNCHANGED vars
  BY <1>5 DEF vars, code, history, WindowBudget, Level, Tracked
<1>. QED BY <1>1, <1>2, <1>3, <1>4, <1>5 DEF Next

\* There is no bucket at the start.
LEMMA BudgetInit == Init => WindowBudget
BY DEF Init, WindowBudget, Tracked

\* Every step leaves a bucket with the refill since its last grant, and with
\* less than a token after a refusal.
LEMMA RefilledStep ==
  ASSUME TypeOK, TypeOK', RefilledSinceGrant, [Next]_vars
  PROVE  RefilledSinceGrant'
<1>. USE Numbers
<1>0. now \in Nat
  BY DEF TypeOK
<1>. DEFINE Good(d) ==
       /\ lastGrant[d] <= updatedAt[d]
       /\ tokens[d] >= AtMost(Full, RequestsPerMinute * (updatedAt[d] - lastGrant[d]))
       /\ answer[d] = "refused" => tokens[d] < Token
<1>1. ASSUME NEW c \in Clients, AllowNew(c) PROVE RefilledSinceGrant'
  <2>1. PICK kept \in Kept :
          /\ tokens' = [d \in kept \cup {c} |->
                          IF d = c THEN Full - Token ELSE tokens[d]]
          /\ updatedAt' = [d \in kept \cup {c} |->
                             IF d = c THEN now ELSE updatedAt[d]]
    BY <1>1 DEF AllowNew
  <2>2. /\ kept \subseteq Tracked /\ c \notin Tracked
        /\ Tracked' = kept \cup {c}
    BY <1>1, <2>1, KeptHasRoom DEF AllowNew, Tracked
  <2>3. SUFFICES ASSUME NEW d \in Tracked' PROVE Good(d)'
    BY DEF RefilledSinceGrant
  <2>4. CASE d = c
    <3>1. /\ lastGrant'[c] = now /\ answer'[c] = "granted"
          /\ tokens'[c] = Full - Token /\ updatedAt'[c] = now
      BY <1>1, <2>1 DEF AllowNew, TypeOK
    <3>. QED BY <1>0, <2>4, <3>1 DEF AtMost
  <2>5. CASE d # c
    <3>1. /\ d \in Tracked /\ tokens'[d] = tokens[d]
          /\ updatedAt'[d] = updatedAt[d]
      BY <2>1, <2>2, <2>5
    <3>2. lastGrant'[d] = lastGrant[d] /\ answer'[d] = answer[d]
      BY <1>1, <2>5 DEF AllowNew, TypeOK
    <3>. QED BY <3>1, <3>2 DEF RefilledSinceGrant
  <2>. QED BY <2>4, <2>5
<1>2. ASSUME NEW c \in Clients, AllowTracked(c) PROVE RefilledSinceGrant'
  <2>1. /\ c \in Tracked
        /\ updatedAt' = [updatedAt EXCEPT ![c] = now]
    BY <1>2 DEF AllowTracked
  <2>2. PICK lev \in 0 .. Full : lev = Level(c, now)
    BY <1>0, <2>1, LevelBounds
  <2>3. Tracked' = Tracked /\ updatedAt'[c] = now
    BY <1>2, <2>1 DEF AllowTracked, Tracked, TypeOK
  <2>4. SUFFICES ASSUME NEW d \in Tracked PROVE Good(d)'
    BY <2>3 DEF RefilledSinceGrant
  <2>5. CASE d # c
    <3>1. /\ tokens'[d] = tokens[d] /\ updatedAt'[d] = updatedAt[d]
          /\ lastGrant'[d] = lastGrant[d] /\ answer'[d] = answer[d]
      BY <1>2, <2>5 DEF AllowTracked, TypeOK
    <3>. QED BY <3>1 DEF RefilledSinceGrant
  <2>6. CASE d = c /\ lev >= Token
    <3>1. /\ tokens'[c] = lev - Token /\ lastGrant'[c] = now
          /\ answer'[c] = "granted"
      BY <1>2, <2>1, <2>2, <2>6 DEF AllowTracked, TypeOK
    <3>. QED BY <1>0, <2>3, <2>6, <3>1 DEF AtMost, Token
  <2>7. CASE d = c /\ lev < Token
    <3>1. tokens'[c] = lev /\ lastGrant' = lastGrant
      BY <1>2, <2>1, <2>2, <2>7 DEF AllowTracked, TypeOK
    <3>2. /\ lastGrant[c] \in Nat /\ updatedAt[c] \in Nat /\ tokens[c] \in Nat
          /\ lastGrant[c] <= updatedAt[c] /\ updatedAt[c] <= now
      BY <1>0, <2>1 DEF TypeOK, RefilledSinceGrant
    <3>3. PICK a \in Nat, b \in Nat :
            /\ a = RequestsPerMinute * (updatedAt[c] - lastGrant[c])
            /\ b = RequestsPerMinute * (now - updatedAt[c])
            /\ a + b = RequestsPerMinute * (now - lastGrant[c])
      <4>1. PICK m \in Nat : m = updatedAt[c] - lastGrant[c]
        BY <3>2
      <4>2. PICK n \in Nat : n = now - updatedAt[c]
        BY <1>0, <3>2
      <4>3. m + n = now - lastGrant[c]
        BY <1>0, <3>2, <4>1, <4>2
      <4>4. RequestsPerMinute * m \in Nat /\ RequestsPerMinute * n \in Nat
        OBVIOUS
      <4>5. RequestsPerMinute * (m + n) = RequestsPerMinute * m + RequestsPerMinute * n
        BY RefillAdds
      <4>. QED BY <4>1, <4>2, <4>3, <4>4, <4>5
    <3>4. tokens[c] >= AtMost(Full, a)
      BY <2>1, <3>3 DEF RefilledSinceGrant
    <3>5. lev = AtMost(Full, tokens[c] + b)
      BY <1>0, <2>1, <2>2, <3>3, LevelBounds
    <3>6. lev >= AtMost(Full, a + b)
      BY <3>2, <3>4, <3>5 DEF AtMost
    <3>. QED BY <1>0, <2>3, <2>7, <3>1, <3>2, <3>3, <3>6
  <2>. QED BY <2>2, <2>5, <2>6, <2>7 DEF Token
<1>3. ASSUME NEW c \in Clients, OpenWindow(c) PROVE RefilledSinceGrant'
  BY <1>3 DEF OpenWindow, code, RefilledSinceGrant, Tracked
<1>4. ASSUME NEW t \in 1 .. MaxTime, Tick(t) PROVE RefilledSinceGrant'
  BY <1>4 DEF Tick, code, history, RefilledSinceGrant, Tracked
<1>5. CASE UNCHANGED vars
  BY <1>5 DEF vars, code, history, RefilledSinceGrant, Tracked
<1>. QED BY <1>1, <1>2, <1>3, <1>4, <1>5 DEF Next

\* There is no bucket at the start.
LEMMA RefilledInit == Init => RefilledSinceGrant
BY DEF Init, RefilledSinceGrant, Tracked

\* In every window in which its bucket stays in the table, a client gets no
\* more than burst requests plus requests_per_minute for each minute.
THEOREM RateIsBounded == Spec => []RateBound
<1>. DEFINE I == TypeOK /\ WindowBudget
<1>1. Init => I
  BY TypeInit, BudgetInit
<1>2. I /\ [Next]_vars => I'
  BY TypeStep, BudgetStep
<1>3. I => RateBound
  <2>1. SUFFICES ASSUME I, NEW c \in Tracked
                 PROVE  Token * granted[c]
                          <= Full + RequestsPerMinute * (now - since[c])
    BY DEF RateBound
  <2>2. /\ now \in Nat /\ granted[c] \in Nat /\ since[c] \in Nat
        /\ since[c] <= now
    BY <2>1, Numbers DEF TypeOK
  <2>3. Level(c, now) \in Nat
    BY <2>1, <2>2, LevelBounds
  <2>4. Token * granted[c] + Level(c, now)
          <= Full + RequestsPerMinute * (now - since[c])
    BY <2>1 DEF WindowBudget
  <2>. QED BY <2>2, <2>3, <2>4, Numbers
<1>. QED BY <1>1, <1>2, <1>3, PTL DEF Spec

\* A tracked client that keeps below the rate is never refused.
THEOREM NoUnearnedRefusal == Spec => []RefusalsAreEarned
<1>. DEFINE I == TypeOK /\ RefilledSinceGrant
<1>1. Init => I
  BY TypeInit, RefilledInit
<1>2. I /\ [Next]_vars => I'
  BY TypeStep, RefilledStep
<1>3. I => RefusalsAreEarned
  <2>1. SUFFICES ASSUME I, NEW c \in Tracked, answer[c] = "refused"
                 PROVE  RequestsPerMinute * (updatedAt[c] - lastGrant[c]) < Token
    BY DEF RefusalsAreEarned
  <2>2. /\ tokens[c] \in Int /\ tokens[c] < Token
        /\ tokens[c] >= AtMost(Full, RequestsPerMinute * (updatedAt[c] - lastGrant[c]))
        /\ lastGrant[c] \in Int /\ updatedAt[c] \in Int
    BY <2>1 DEF RefilledSinceGrant, TypeOK
  <2>. QED BY <2>2, Numbers DEF AtMost
<1>. QED BY <1>1, <1>2, <1>3, PTL DEF Spec

-----------------------------------------------------------------------------
(* Buckets in whole tokens                                                 *)

\* Parts of a token do not count, and a token is one whole.
LEMMA WholeTokensOf ==
  ASSUME NEW m \in 0..Full
  PROVE  /\ m \div Token \in 0..Burst
         /\ m >= Token <=> m \div Token >= 1
         /\ (m - Token) \div Token = m \div Token - 1
BY RateLimiterAssumption DEF RateLimiterAssumption, Full, Token

LEMMA FullInTokens == Full \div Token = Burst /\ Full \in Nat /\ Burst \in Nat \ {0}
BY RateLimiterAssumption DEF RateLimiterAssumption, Full, Token

LEMMA WholeMonotone ==
  ASSUME NEW m \in Nat, NEW n \in Nat, m <= n
  PROVE  m \div Token <= n \div Token
BY DEF Token

\* While there is room for all, nobody is forgotten: a client without a bucket
\* is one that the table has room for.
LEMMA NobodyForgotten ==
  ASSUME Cardinality(Clients) <= MaxClients, TypeOK, NEW c \in Clients, c \notin Tracked
  PROVE  Kept = {Tracked}
<1>1. Tracked \subseteq Clients \ {c}
  BY DEF TypeOK
<1>2. /\ IsFiniteSet(Clients) /\ IsFiniteSet(Clients \ {c})
      /\ Cardinality(Clients \ {c}) = Cardinality(Clients) - 1
  BY RateLimiterAssumption, FS_RemoveElement DEF RateLimiterAssumption
<1>3. /\ Cardinality(Tracked) <= Cardinality(Clients) - 1
      /\ Cardinality(Tracked) \in Nat /\ Cardinality(Clients) \in Nat
  BY <1>1, <1>2, FS_Subset, FS_CardinalityType
<1>4. ~(Cardinality(Tracked) >= MaxClients)
  BY <1>3, Numbers
<1>. QED BY <1>4 DEF Kept

\* What a call finds, in whole tokens.
LEMMA LevelInTokens ==
  ASSUME TypeOK, NEW c \in Tracked
  PROVE  /\ Level(c, now) \in 0..Full
         /\ Level(c, now) \div Token >= tokens[c] \div Token
<1>1. /\ Level(c, now) \in 0..Full /\ Level(c, now) >= tokens[c]
      /\ tokens[c] \in Nat
  BY LevelBounds, Numbers DEF TypeOK
<1>2. Level(c, now) \in Nat
  BY <1>1
<1>. QED BY <1>1, <1>2, WholeMonotone

LEMMA NewIsWhole ==
  ASSUME Cardinality(Clients) <= MaxClients, TypeOK, NEW c \in Clients, AllowNew(c)
  PROVE  Wholly(c)
<1>1. Kept = {Tracked} /\ c \notin Tracked
  BY NobodyForgotten DEF AllowNew
<1>2. tokens' = [d \in Tracked \cup {c} |-> IF d = c THEN Full - Token ELSE tokens[d]]
  BY <1>1 DEF AllowNew
<1>3. Tracked' = Tracked \cup {c}
  BY <1>2 DEF Tracked
<1>4. (Full - Token) \div Token = Burst - 1
  BY FullInTokens, WholeTokensOf
<1>5. WholeLevel' = [WholeLevel EXCEPT ![c] = Burst - 1]
  BY <1>1, <1>2, <1>3, <1>4 DEF WholeLevel
<1>6. Burst \in 1..Burst /\ Burst >= WholeLevel[c]
  <2>1. WholeLevel[c] = Burst /\ Burst \in Nat \ {0}
    BY <1>1, FullInTokens DEF WholeLevel
  <2>. QED BY <2>1
<1>7. Whole!Grant(c)
  BY <1>5, <1>6 DEF Whole!Grant
<1>. QED BY <1>7 DEF Wholly, AllowNew

LEMMA TrackedIsWhole ==
  ASSUME TypeOK, NEW c \in Clients, AllowTracked(c)
  PROVE  Wholly(c)
<1>0. c \in Tracked /\ DOMAIN tokens = Tracked
  BY DEF AllowTracked, Tracked
<1>1. PICK lev \in 0..Full : lev = Level(c, now)
  BY <1>0, LevelInTokens
<1>2. PICK n \in 0..Burst : n = lev \div Token
  BY WholeTokensOf
<1>3. n >= tokens[c] \div Token /\ WholeLevel[c] = tokens[c] \div Token
  BY <1>0, <1>1, <1>2, LevelInTokens DEF WholeLevel
<1>4. CASE lev >= Token
  <2>1. tokens' = [tokens EXCEPT ![c] = lev - Token] /\ answer' = [answer EXCEPT ![c] = "granted"]
    BY <1>1, <1>4 DEF AllowTracked, Token
  <2>2. (lev - Token) \div Token = n - 1 /\ n \in 1..Burst
    BY <1>2, <1>4, WholeTokensOf
  <2>3. Tracked' = Tracked
    BY <1>0, <2>1 DEF Tracked, TypeOK
  <2>4. WholeLevel' = [WholeLevel EXCEPT ![c] = n - 1]
    BY <1>0, <2>1, <2>2, <2>3 DEF WholeLevel, TypeOK
  <2>. QED BY <1>3, <2>1, <2>2, <2>4 DEF Whole!Grant, Wholly
<1>5. CASE lev < Token
  <2>1. tokens' = [tokens EXCEPT ![c] = lev] /\ answer' = [answer EXCEPT ![c] = "refused"]
    BY <1>1, <1>5 DEF AllowTracked, Token
  <2>2. n = 0 /\ tokens[c] \div Token = 0
    <3>1. n = 0
      BY <1>2, <1>5, WholeTokensOf DEF Token
    <3>2. tokens[c] \div Token \in 0..Burst
      BY <1>0, WholeTokensOf DEF TypeOK
    <3>. QED BY <1>3, <3>1, <3>2
  <2>3. Tracked' = Tracked
    BY <1>0, <2>1 DEF Tracked, TypeOK
  <2>4. WholeLevel' = WholeLevel
    BY <1>0, <1>2, <2>1, <2>2, <2>3 DEF WholeLevel, TypeOK
  <2>. QED BY <1>3, <2>1, <2>2, <2>4 DEF Whole!Refuse, Wholly
<1>. QED BY <1>4, <1>5 DEF Token

\* A limiter with room for all its clients, as the gateway's is for every set of
\* users, grants and refuses as WholeTokens says: a call finds what the last one
\* left, or anything more up to a full bucket, and is refused only without a
\* whole token.
THEOREM WholeTokensAreEnough ==
  ASSUME Cardinality(Clients) <= MaxClients
  PROVE  Spec => AnswersLikeWholeTokens
<1>1. Init => WholeLevel = Whole!FullBuckets
  BY DEF Init, WholeLevel, Tracked, Whole!FullBuckets
<1>2. TypeOK /\ [Next]_vars => [\E c \in Clients : Wholly(c)]_<<WholeLevel, answer>>
  <2>. SUFFICES ASSUME TypeOK, [Next]_vars
                PROVE  (\E c \in Clients : Wholly(c)) \/ UNCHANGED <<WholeLevel, answer>>
    OBVIOUS
  <2>1. ASSUME NEW c \in Clients, AllowNew(c) \/ AllowTracked(c)
        PROVE  Wholly(c)
    BY <2>1, NewIsWhole, TrackedIsWhole
  <2>2. ASSUME NEW c \in Clients, OpenWindow(c)
        PROVE  UNCHANGED <<WholeLevel, answer>>
    BY <2>2 DEF OpenWindow, code, WholeLevel, Tracked
  <2>3. ASSUME NEW t \in 1..MaxTime, Tick(t)
        PROVE  UNCHANGED <<WholeLevel, answer>>
    BY <2>3 DEF Tick, code, WholeLevel, Tracked
  <2>4. CASE UNCHANGED vars
    BY <2>4 DEF vars, code, WholeLevel, Tracked
  <2>. QED BY <2>1, <2>2, <2>3, <2>4 DEF Next
<1>. QED BY <1>1, <1>2, TypeCorrect, PTL DEF Spec, AnswersLikeWholeTokens

=============================================================================
