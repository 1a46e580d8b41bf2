---------------------------- MODULE LimiterProofs ----------------------------
(***************************************************************************)
(* Proofs about Limiter, for any clients, shops, routes, burst, refill     *)
(* rate, ceilings and size of the map.                                     *)
(***************************************************************************)
EXTENDS Limiter, FiniteSetTheorems, TLAPS

(* What a route costs is a number, and a full bucket can pay it.           *)
LEMMA Costs ==
  /\ Full \in Nat
  /\ \A r \in Used : /\ Cost(r) \in 0..Full
                     /\ costFor[r].units \in Nat
<1>1. \A r \in Route : costFor[r].tokens \in Nat /\ costFor[r].units \in Nat
  BY DEF costFor, Route
<1> QED
  BY <1>1, LimiterAssumption DEF Full, Cost

LEMMA Refill ==
  ASSUME NEW t \in Nat
  PROVE  t * RefillPerMin \in Nat
  BY LimiterAssumption

(* A bucket never shows less than nothing or more than the burst.          *)
LEMMA PeekRange ==
  ASSUME TypeOK, NEW c \in Client
  PROVE  peek(c) \in 0..Full
<1>1. CASE buckets[c] = None
  BY <1>1, Costs DEF peek
<1>2. CASE buckets[c] # None
  <2>1. /\ buckets[c].tokens \in 0..Full
        /\ now - buckets[c].updatedAt \in Nat
    BY <1>2 DEF TypeOK, Bucket, Held
  <2>2. (now - buckets[c].updatedAt) * RefillPerMin \in Nat
    BY <2>1, Refill
  <2> QED
    BY <1>2, <2>1, <2>2, Costs DEF peek, Least
<1> QED
  BY <1>1, <1>2

(* consume stamps the client's bucket and leaves every other one as it is  *)
(* or gives it up.                                                         *)
LEMMA ConsumeEffect ==
  ASSUME TypeOK, NEW c \in Client, NEW left \in 0..Full, consume(c, left)
  PROVE  /\ buckets' \in [Client -> Bucket \cup {None}]
         /\ buckets'[c] = [tokens |-> left, updatedAt |-> now]
         /\ buckets'[c] # None
         /\ \A d \in Client \ {c} : buckets'[d] \in {None, buckets[d]}
<1>1. PICK out \in Displaced(c) :
        buckets' = [d \in Client |-> IF d = c THEN [tokens |-> left, updatedAt |-> now]
                                     ELSE IF d \in out THEN None ELSE buckets[d]]
  BY DEF consume
<1>2. [tokens |-> left, updatedAt |-> now] \in Bucket
  BY DEF TypeOK, Bucket
<1>3. [tokens |-> left, updatedAt |-> now] # None
  BY <1>2, LimiterAssumption DEF TypeOK
<1>4. \A d \in Client : buckets[d] \in Bucket \cup {None}
  BY DEF TypeOK
<1> QED
  BY <1>1, <1>2, <1>3, <1>4

(* The counters after a request was let through, for the deployment and    *)
(* for any shop.                                                           *)
LEMMA AddEffect ==
  ASSUME NEW table \in [Scope -> Nat], NEW scopes, NEW units \in Nat
  PROVE  /\ Add(table, scopes, units) \in [Scope -> Nat]
         /\ \A t \in Scope : Add(table, scopes, units)[t]
                               = IF t \in scopes THEN table[t] + units ELSE table[t]
  BY DEF Add

-----------------------------------------------------------------------------
(* A decision: what Throttle, AdmitFree, RefuseSpend and AdmitPaid have in *)
(* common.                                                                 *)
LEMMA DecisionTypes ==
  ASSUME TypeOK, NEW c \in Client, NEW left \in 0..Full, consume(c, left),
         NEW cost \in Int, Allowance(c, cost), now' = now
  PROVE  /\ buckets' \in [Client -> Bucket \cup {None}]
         /\ \A d \in Held' : buckets'[d].updatedAt <= now'
         /\ fair' \in [Client -> Int]
<1>1. /\ buckets' \in [Client -> Bucket \cup {None}]
      /\ buckets'[c] = [tokens |-> left, updatedAt |-> now]
      /\ \A d \in Client \ {c} : buckets'[d] \in {None, buckets[d]}
  BY ConsumeEffect
<1>2. \A d \in Client : buckets'[d] # None => buckets'[d].updatedAt <= now'
  BY <1>1 DEF TypeOK, Held
<1>3. fair' \in [Client -> Int]
  BY Costs DEF TypeOK, Allowance
<1> QED
  BY <1>1, <1>2, <1>3 DEF Held

(* What a bucket that pays has left, and what it lacks if it cannot.       *)
LEMMA Paying ==
  ASSUME TypeOK, NEW c \in Client, NEW r \in Used
  PROVE  /\ peek(c) \in 0..Full
         /\ Cost(r) \in 0..Full
         /\ peek(c) >= Cost(r) => peek(c) - Cost(r) \in 0..Full
         /\ peek(c) < Cost(r) => RetryAfter(c, r) \in Nat
<1>1. peek(c) \in 0..Full /\ Cost(r) \in 0..Full /\ Full \in Nat
  BY PeekRange, Costs
<1>2. ASSUME peek(c) < Cost(r) PROVE RetryAfter(c, r) \in Nat
  <2>1. (Cost(r) - peek(c) + RefillPerMin - 1) \in Nat /\ RefillPerMin \in Nat \ {0}
    BY <1>1, <1>2, LimiterAssumption
  <2>2. (Cost(r) - peek(c) + RefillPerMin - 1) \div RefillPerMin \in Int
    BY <2>1
  <2> QED
    BY <2>2 DEF RetryAfter
<1> QED
  BY <1>1, <1>2

(* The buckets, the counters and the histories keep their types in every   *)
(* behaviour.                                                              *)
THEOREM TypeCorrect == Spec => []TypeOK
<1>1. Init => TypeOK
  BY LimiterAssumption, Costs DEF Init, TypeOK, Held
<1>2. TypeOK /\ [Next]_vars => TypeOK'
  <2> SUFFICES ASSUME TypeOK, [Next]_vars PROVE TypeOK'
    OBVIOUS
  <2>1. ASSUME NEW c \in Client, NEW r \in Used, Throttle(c, r) PROVE TypeOK'
    <3>1. RetryAfter(c, r) \in Nat /\ peek(c) \in 0..Full /\ Cost(r) \in Nat
      BY <2>1, Paying DEF Throttle
    <3>2. /\ buckets' \in [Client -> Bucket \cup {None}]
          /\ \A d \in Held' : buckets'[d].updatedAt <= now'
          /\ fair' \in [Client -> Int]
      BY <2>1, <3>1, DecisionTypes DEF Throttle
    <3>3. [cost |-> Cost(r), at |-> now + RetryAfter(c, r)] \in [cost : Nat, at : Nat]
      BY <3>1 DEF TypeOK
    <3>4. promise' \in [Client -> [cost : Nat, at : Nat] \cup {None}]
      BY <2>1, <3>3 DEF Throttle, TypeOK
    <3> QED
      BY <2>1, <3>2, <3>4 DEF Throttle, TypeOK
  <2>2. ASSUME NEW c \in Client, NEW r \in Used, Pay(c, r), now' = now,
               Allowance(c, 0) \/ Allowance(c, Cost(r)),
               spend' \in [Scope -> Nat], served' \in [Scope -> Nat]
        PROVE  TypeOK'
    <3>1. peek(c) - Cost(r) \in 0..Full /\ Cost(r) \in Int
      BY <2>2, Paying DEF Pay
    <3>2. /\ buckets' \in [Client -> Bucket \cup {None}]
          /\ \A d \in Held' : buckets'[d].updatedAt <= now'
          /\ fair' \in [Client -> Int]
      BY <2>2, <3>1, DecisionTypes DEF Pay
    <3> QED
      BY <2>2, <3>2 DEF Pay, TypeOK
  <2>3. ASSUME NEW c \in Client, NEW r \in Used, AdmitFree(c, r) PROVE TypeOK'
    BY <2>2, <2>3 DEF AdmitFree, TypeOK
  <2>4. ASSUME NEW c \in Client, NEW r \in Used, NEW s, RefuseSpend(c, r, s) PROVE TypeOK'
    BY <2>2, <2>4 DEF RefuseSpend, TypeOK
  <2>5. ASSUME NEW c \in Client, NEW r \in Used, NEW s, AdmitPaid(c, r, s) PROVE TypeOK'
    <3>1. spend' \in [Scope -> Nat] /\ served' \in [Scope -> Nat]
      BY <2>5, AddEffect, Costs DEF AdmitPaid, TypeOK
    <3> QED
      BY <2>2, <2>5, <3>1 DEF AdmitPaid
  <2>6. ASSUME Forget, now' = now, spend' \in [Scope -> Nat], served' \in [Scope -> Nat]
        PROVE  TypeOK'
    BY <2>6, Costs DEF Forget, TypeOK, Held
  <2>7. CASE Restart
    BY <2>6, <2>7 DEF Restart, TypeOK
  <2>8. ASSUME NEW c \in Client, NEW r \in Used, NEW s, DieHalfCharged(c, r, s) PROVE TypeOK'
    <3>1. spend' \in [Scope -> Nat]
      BY <2>8, AddEffect, Costs DEF DieHalfCharged, TypeOK
    <3> QED
      BY <2>6, <2>8, <3>1 DEF DieHalfCharged, TypeOK
  <2>9. CASE sweep
    BY <2>9 DEF sweep, TypeOK, Held
  <2>10. CASE Tick
    <3>1. fair' \in [Client -> Int]
      BY <2>10, Costs, LimiterAssumption DEF Tick, TypeOK, Least
    <3>2. spend' \in [Scope -> Nat] /\ served' \in [Scope -> Nat]
      BY <2>10 DEF Tick, TypeOK
    <3>3. now' \in 0..MaxTime /\ now' >= now
      BY <2>10, LimiterAssumption DEF Tick, TypeOK
    <3>4. \A d \in Held' : buckets'[d].updatedAt <= now'
      BY <2>10, <3>3, LimiterAssumption DEF Tick, TypeOK, Held, Bucket
    <3> QED
      BY <2>10, <3>1, <3>2, <3>3, <3>4 DEF Tick, TypeOK
  <2>11. CASE UNCHANGED vars
    BY <2>11 DEF vars, TypeOK, Held
  <2> QED
    BY <2>1, <2>3, <2>4, <2>5, <2>7, <2>8, <2>9, <2>10, <2>11 DEF Next
<1> QED
  BY <1>1, <1>2, PTL DEF Spec

-----------------------------------------------------------------------------
(* After a decision the client's bucket shows what was left in it, and any *)
(* other shows what it showed, unless it was given up and shows a full one. *)
LEMMA PeekAfterDecision ==
  ASSUME TypeOK, NEW c \in Client, NEW left \in 0..Full, consume(c, left), now' = now
  PROVE  /\ peek(c)' = left
         /\ \A d \in Client \ {c} :
              \/ buckets'[d] = None /\ peek(d)' = Full
              \/ buckets'[d] # None /\ peek(d)' = peek(d)
<1>1. /\ buckets'[c] = [tokens |-> left, updatedAt |-> now]
      /\ buckets'[c] # None
      /\ \A d \in Client \ {c} : buckets'[d] \in {None, buckets[d]}
  BY ConsumeEffect
<1>2. peek(c)' = Least(Full, left + 0 * RefillPerMin)
  BY <1>1 DEF peek, TypeOK
<1>3. peek(c)' = left
  BY <1>2, Costs, LimiterAssumption DEF Least
<1>4. ASSUME NEW d \in Client \ {c}
      PROVE  \/ buckets'[d] = None /\ peek(d)' = Full
             \/ buckets'[d] # None /\ peek(d)' = peek(d)
  BY <1>1 DEF peek
<1> QED
  BY <1>3, <1>4

(* What a bucket has gained by time t, the burst left aside.               *)
Grown(b, t) == b.tokens + (t - b.updatedAt) * RefillPerMin

LEMMA GrownSince ==
  ASSUME NEW b, b.tokens \in Int, b.updatedAt \in Int, NEW t \in Int
  PROVE  /\ Grown(b, t) \in Int
         /\ Grown(b, t + 1) = Grown(b, t) + RefillPerMin
         /\ \A s \in Int : Grown(b, t) = Grown(b, s) + (t - s) * RefillPerMin
<1> DEFINE u == b.tokens
           v == b.updatedAt
<1>1. u \in Int /\ v \in Int /\ RefillPerMin \in Int
  BY LimiterAssumption
<1>2. \A s \in Int : Grown(b, s) = u + (s - v) * RefillPerMin
  BY DEF Grown
<1> HIDE DEF u, v
<1>3. u + (t - v) * RefillPerMin \in Int
  BY <1>1
<1>4. u + (t + 1 - v) * RefillPerMin = u + (t - v) * RefillPerMin + RefillPerMin
  BY <1>1
<1>5. \A s \in Int :
        u + (t - v) * RefillPerMin = u + (s - v) * RefillPerMin + (t - s) * RefillPerMin
  BY <1>1
<1>6. Grown(b, t) \in Int
  BY <1>2, <1>3
<1>7. Grown(b, t + 1) = Grown(b, t) + RefillPerMin
  <2>1. Grown(b, t + 1) = u + (t + 1 - v) * RefillPerMin
    BY DEF Grown, u, v
  <2>2. Grown(b, t) = u + (t - v) * RefillPerMin
    BY <1>2
  <2> QED
    BY ONLY <1>4, <2>1, <2>2, Zenon
<1>8. ASSUME NEW s \in Int PROVE Grown(b, t) = Grown(b, s) + (t - s) * RefillPerMin
  BY <1>2, <1>5
<1> QED
  BY <1>6, <1>7, <1>8

(* The argument for RateIsBounded: a bucket, refilled lazily, never shows  *)
(* more than the allowance counted eagerly.  It may show less, since a     *)
(* request refused by a ceiling pays the bucket and gets nothing.          *)
Tracks == \A c \in Client : peek(c) <= fair[c]

LEMMA TracksInv == Spec => []Tracks
<1>1. Init => Tracks
  BY Costs DEF Init, Tracks, peek
<1>2. TypeOK /\ Tracks /\ [Next]_vars => Tracks'
  <2> SUFFICES ASSUME TypeOK, Tracks, [Next]_vars PROVE Tracks'
    OBVIOUS
  <2>1. ASSUME NEW c \in Client, NEW left \in 0..Full, consume(c, left), now' = now,
               NEW cost \in Int, Allowance(c, cost), left <= peek(c) - cost
        PROVE  Tracks'
    <3>1. /\ peek(c)' = left
          /\ \A d \in Client \ {c} : \/ buckets'[d] = None /\ peek(d)' = Full
                                     \/ buckets'[d] # None /\ peek(d)' = peek(d)
      BY <2>1, PeekAfterDecision
    <3>2. /\ fair'[c] = fair[c] - cost
          /\ \A d \in Client \ {c} : fair'[d] = IF buckets'[d] = None THEN Full ELSE fair[d]
      BY <2>1 DEF Allowance
    <3>3. peek(c) \in 0..Full /\ fair[c] \in Int /\ peek(c) <= fair[c]
      BY PeekRange DEF Tracks, TypeOK
    <3>4. peek(c)' <= fair'[c]
      BY <2>1, <3>1, <3>2, <3>3, Costs
    <3>5. \A d \in Client \ {c} : peek(d)' <= fair'[d]
      BY <3>1, <3>2, Costs DEF Tracks
    <3> QED
      BY <3>4, <3>5 DEF Tracks
  <2>2. ASSUME NEW c \in Client, NEW r \in Used, Throttle(c, r) PROVE Tracks'
    BY <2>1, <2>2, Paying, Costs DEF Throttle
  <2>3. ASSUME NEW c \in Client, NEW r \in Used, Pay(c, r), now' = now,
               Allowance(c, 0) \/ Allowance(c, Cost(r))
        PROVE  Tracks'
    <3>1. /\ peek(c) \in 0..Full /\ Cost(r) \in 0..Full
          /\ peek(c) - Cost(r) \in 0..Full
      BY <2>3, Paying DEF Pay
    <3> QED
      BY <2>1, <2>3, <3>1, Costs DEF Pay
  <2>4. ASSUME NEW c \in Client, NEW r \in Used, AdmitFree(c, r) PROVE Tracks'
    BY <2>3, <2>4 DEF AdmitFree
  <2>5. ASSUME NEW c \in Client, NEW r \in Used, NEW s, RefuseSpend(c, r, s) PROVE Tracks'
    BY <2>3, <2>5 DEF RefuseSpend
  <2>6. ASSUME NEW c \in Client, NEW r \in Used, NEW s, AdmitPaid(c, r, s) PROVE Tracks'
    BY <2>3, <2>6 DEF AdmitPaid
  <2>7. CASE Forget
    BY <2>7, Costs DEF Forget, Tracks, peek
  <2>8. CASE sweep
    <3>1. ASSUME NEW c \in Client PROVE peek(c)' <= fair'[c]
      <4>1. CASE c \in Idle
        <5>1. peek(c) >= Full /\ peek(c) <= fair[c] /\ peek(c) \in Int /\ fair[c] \in Int
          BY <4>1, PeekRange, Costs DEF Idle, Tracks, TypeOK
        <5>2. peek(c)' = Full /\ fair'[c] = fair[c]
          BY <2>8, <4>1 DEF sweep, peek
        <5> QED
          BY <5>1, <5>2, Costs
      <4>2. CASE c \notin Idle
        BY <2>8, <4>2 DEF sweep, Tracks, peek
      <4> QED
        BY <4>1, <4>2
    <3> QED
      BY <3>1 DEF Tracks
  <2>9. CASE Tick
    <3>1. ASSUME NEW c \in Client PROVE peek(c)' <= fair'[c]
      <4>1. /\ fair'[c] = Least(Full, fair[c] + RefillPerMin)
            /\ fair[c] \in Int /\ peek(c) <= fair[c] /\ Full \in Nat
            /\ RefillPerMin \in Nat /\ buckets' = buckets /\ now' = now + 1
        BY <2>9, Costs, LimiterAssumption DEF Tick, Tracks, TypeOK
      <4>2. CASE buckets[c] = None
        BY <4>1, <4>2 DEF peek, Least
      <4>3. CASE buckets[c] # None
        <5>1. /\ buckets[c].tokens \in Int /\ buckets[c].updatedAt \in Int
              /\ now \in Int /\ now' = now + 1 /\ buckets'[c] = buckets[c]
          BY <4>1, <4>3, Costs, LimiterAssumption DEF TypeOK, Bucket
        <5>2. /\ Grown(buckets[c], now) \in Int
              /\ Grown(buckets[c], now + 1) = Grown(buckets[c], now) + RefillPerMin
          BY <5>1, GrownSince
        <5>3. /\ peek(c) = Least(Full, Grown(buckets[c], now))
              /\ peek(c)' = Least(Full, Grown(buckets'[c], now'))
          BY <4>3, <5>1 DEF peek, Grown
        <5>4. peek(c)' = Least(Full, Grown(buckets[c], now + 1))
          BY <5>1, <5>3
        <5> QED
          BY <4>1, <5>2, <5>3, <5>4 DEF Least
      <4> QED
        BY <4>2, <4>3
    <3> QED
      BY <3>1 DEF Tracks
  <2>10. CASE UNCHANGED vars
    BY <2>10 DEF vars, Tracks, peek
  <2> QED
    BY <2>2, <2>4, <2>5, <2>6, <2>7, <2>8, <2>9, <2>10 DEF Next, Restart, DieHalfCharged
<1> QED
  BY <1>1, <1>2, TypeCorrect, PTL DEF Spec

(* A client is let through for no more than the burst and what the time    *)
(* has refilled, whatever the routes, the number of clients and the room   *)
(* for their buckets.                                                      *)
THEOREM RateBounded == Spec => []RateIsBounded
<1>1. TypeOK /\ Tracks => RateIsBounded
  BY PeekRange, Costs DEF Tracks, RateIsBounded, TypeOK
<1> QED
  BY <1>1, TypeCorrect, TracksInv, PTL

-----------------------------------------------------------------------------
(* What bucket b shows at time t if nobody touches it.                     *)
Shown(b, t) == IF b = None THEN Full ELSE Least(Full, Grown(b, t))

LEMMA PeekShows ==
  ASSUME NEW c \in Client
  PROVE  peek(c) = Shown(buckets[c], now)
  BY DEF peek, Shown, Grown

(* The argument for RetryAfterSuffices: at the promised time the bucket    *)
(* will hold what the refused request cost.                                *)
Kept(p, b) == p # None => p.cost <= Full /\ Shown(b, p.at) >= p.cost
Promised == \A c \in Client : Kept(promise[c], buckets[c])

LEMMA RoundedUp ==
  ASSUME NEW x \in Nat, NEW d \in Nat \ {0}
  PROVE  /\ (x + d - 1) \div d \in Nat
         /\ ((x + d - 1) \div d) * d >= x
<1> DEFINE q == (x + d - 1) \div d
           rest == (x + d - 1) % d
<1>1. q \in Int /\ rest \in 0..(d - 1)
  OBVIOUS
<1>2. x + d - 1 = d * q + rest
  OBVIOUS
<1>3. q * d >= x
  BY <1>1, <1>2
<1>4. q >= 0
  BY <1>1, <1>2
<1> QED
  BY <1>1, <1>3, <1>4

(* If the bucket cannot pay now, it can when the client is told to return. *)
LEMMA RetryInTime ==
  ASSUME TypeOK, NEW c \in Client, NEW r \in Used, peek(c) < Cost(r)
  PROVE  peek(c) + RetryAfter(c, r) * RefillPerMin >= Cost(r)
<1> DEFINE x == Cost(r) - peek(c)
           wait == (x + RefillPerMin - 1) \div RefillPerMin
<1>1. x \in Nat /\ Cost(r) \in Int /\ peek(c) \in Int /\ RefillPerMin \in Nat \ {0}
  BY Paying, Costs, LimiterAssumption
<1>2. wait \in Nat /\ wait * RefillPerMin >= x
  BY <1>1, RoundedUp
<1>3. RetryAfter(c, r) = IF wait < 1 THEN 1 ELSE wait
  BY DEF RetryAfter
<1>4. x = Cost(r) - peek(c)
  OBVIOUS
<1> HIDE DEF x, wait
<1> QED
  BY <1>1, <1>2, <1>3, <1>4

(* A bucket left alone only ever shows more.                               *)
LEMMA ShownGrows ==
  ASSUME NEW b \in Bucket \cup {None}, NEW s \in Int, NEW t \in Int, s <= t
  PROVE  /\ Shown(b, s) \in Int /\ Shown(b, t) \in Int
         /\ Shown(b, s) <= Shown(b, t)
<1>1. CASE b = None
  BY <1>1, Costs DEF Shown
<1>2. CASE b # None
  <2>1. b.tokens \in Int /\ b.updatedAt \in Int
    BY <1>2, Costs, LimiterAssumption DEF Bucket
  <2>2. /\ Grown(b, s) \in Int /\ Grown(b, t) \in Int
        /\ Grown(b, t) = Grown(b, s) + (t - s) * RefillPerMin
    BY <2>1, GrownSince
  <2>3. (t - s) * RefillPerMin \in Nat
    BY Refill
  <2>4. Grown(b, s) <= Grown(b, t)
    BY <2>2, <2>3
  <2> QED
    BY <1>2, <2>2, <2>4, Costs DEF Shown, Least
<1> QED
  BY <1>1, <1>2

LEMMA PromisedInv == Spec => []Promised
<1>1. Init => Promised
  BY DEF Init, Promised, Kept
<1>2. TypeOK /\ Promised /\ [Next]_vars => Promised'
  <2> SUFFICES ASSUME TypeOK, Promised, [Next]_vars PROVE Promised'
    OBVIOUS
  <2>1. ASSUME NEW d \in Client, promise'[d] = promise[d], buckets'[d] \in {None, buckets[d]}
        PROVE  Kept(promise'[d], buckets'[d])
    <3>1. Kept(promise[d], buckets[d]) /\ Kept(promise[d], None)
      BY Costs DEF Promised, Kept, Shown, TypeOK
    <3> QED
      BY <2>1, <3>1
  <2>2. ASSUME NEW c \in Client, NEW r \in Used, Throttle(c, r) PROVE Promised'
    <3> DEFINE wait == RetryAfter(c, r)
               p == [cost |-> Cost(r), at |-> now + wait]
               b == [tokens |-> peek(c), updatedAt |-> now]
    <3>1. /\ peek(c) \in 0..Full /\ Cost(r) \in 0..Full /\ wait \in Nat /\ now \in Int
          /\ peek(c) + wait * RefillPerMin >= Cost(r)
      BY <2>2, Paying, RetryInTime, LimiterAssumption DEF Throttle, TypeOK
    <3>2. /\ buckets'[c] = b /\ b # None
          /\ \A d \in Client \ {c} : buckets'[d] \in {None, buckets[d]}
      BY <2>2, <3>1, ConsumeEffect DEF Throttle
    <3>3. /\ promise'[c] = p
          /\ \A d \in Client \ {c} : promise'[d] = promise[d]
      BY <2>2 DEF Throttle, TypeOK
    <3>4. Kept(p, b)
      <4>1. (now + wait) - now = wait
        BY <3>1
      <4>2. Grown(b, p.at) = peek(c) + wait * RefillPerMin
        BY <4>1 DEF Grown
      <4>3. wait * RefillPerMin \in Nat
        BY <3>1, Refill
      <4>4. p.cost = Cost(r) /\ Shown(b, p.at) = Least(Full, peek(c) + wait * RefillPerMin)
        BY <3>2, <4>2 DEF Shown
      <4> HIDE DEF p, b, wait
      <4> QED
        BY <3>1, <4>3, <4>4, Costs DEF Kept, Least
    <3> HIDE DEF p, b
    <3> QED
      BY <2>1, <3>2, <3>3, <3>4 DEF Promised
  <2>3. ASSUME NEW c \in Client, NEW r \in Used, Pay(c, r) PROVE Promised'
    <3>1. peek(c) - Cost(r) \in 0..Full
      BY <2>3, Paying DEF Pay
    <3>2. \A d \in Client \ {c} : buckets'[d] \in {None, buckets[d]}
      BY <2>3, <3>1, ConsumeEffect DEF Pay
    <3>3. promise'[c] = None /\ \A d \in Client \ {c} : promise'[d] = promise[d]
      BY <2>3 DEF Pay, TypeOK
    <3>4. Kept(promise'[c], buckets'[c])
      BY <3>3 DEF Kept
    <3> QED
      BY <2>1, <3>2, <3>3, <3>4 DEF Promised
  <2>4. CASE Forget
    BY <2>4 DEF Forget, Promised, Kept
  <2>5. CASE UNCHANGED promise /\ \A d \in Client : buckets'[d] \in {None, buckets[d]}
    BY <2>1, <2>5 DEF Promised
  <2>6. CASE sweep
    BY <2>5, <2>6 DEF sweep
  <2>7. CASE Tick
    BY <2>5, <2>7 DEF Tick
  <2>8. CASE UNCHANGED vars
    BY <2>5, <2>8 DEF vars
  <2> QED
    BY <2>2, <2>3, <2>4, <2>6, <2>7, <2>8
    DEF Next, AdmitFree, RefuseSpend, AdmitPaid, Restart, DieHalfCharged
<1> QED
  BY <1>1, <1>2, TypeCorrect, PTL DEF Spec

(* The wait a refused client is told is long enough, for any refill rate,  *)
(* cost and burst, whoever else comes in the meantime.                     *)
THEOREM RetryAfterEnough == Spec => []RetryAfterSuffices
<1>1. TypeOK /\ Promised => RetryAfterSuffices
  <2> SUFFICES ASSUME TypeOK, Promised, NEW c \in Client,
                      promise[c] # None, now >= promise[c].at
               PROVE  peek(c) >= promise[c].cost
    BY DEF RetryAfterSuffices
  <2>1. /\ promise[c].at \in Int /\ now \in Int /\ promise[c].cost \in Int
        /\ buckets[c] \in Bucket \cup {None}
    BY LimiterAssumption DEF TypeOK
  <2>2. Shown(buckets[c], promise[c].at) >= promise[c].cost
    BY DEF Promised, Kept
  <2>3. /\ Shown(buckets[c], promise[c].at) <= Shown(buckets[c], now)
        /\ Shown(buckets[c], promise[c].at) \in Int /\ Shown(buckets[c], now) \in Int
    BY <2>1, ShownGrows
  <2> QED
    BY <2>1, <2>2, <2>3, PeekShows
<1> QED
  BY <1>1, TypeCorrect, PromisedInv, PTL

-----------------------------------------------------------------------------
(* Making room for a client leaves no more buckets than the map may hold.  *)
LEMMA RoomIsMade ==
  ASSUME MapIsBounded, NEW c \in Client, NEW left, consume(c, left)
  PROVE  MapIsBounded'
<1>1. /\ IsFiniteSet(Held) /\ Cardinality(Held) \in Nat
      /\ Cardinality(Held) <= MaxKeys /\ MaxKeys \in Nat \ {0}
  <2>1. Held \subseteq Client
    BY DEF Held
  <2> QED
    BY <2>1, LimiterAssumption, FS_Subset, FS_CardinalityType DEF MapIsBounded
<1>2. PICK out \in Displaced(c) :
        /\ Held' \subseteq (Held \ out) \cup {c}
  <2>1. PICK out \in Displaced(c) :
          buckets' = [d \in Client |-> IF d = c THEN [tokens |-> left, updatedAt |-> now]
                                       ELSE IF d \in out THEN None ELSE buckets[d]]
    BY DEF consume
  <2>2. Held' \subseteq (Held \ out) \cup {c}
    BY <2>1 DEF Held
  <2> QED
    BY <2>2
<1>3. CASE c \in Held
  <2>1. Held' \subseteq Held
    BY <1>2, <1>3
  <2> QED
    BY <1>1, <2>1, FS_Subset, FS_CardinalityType DEF MapIsBounded
<1>4. CASE c \notin Held /\ Cardinality(Held) < MaxKeys
  <2>1. Held' \subseteq Held \cup {c}
    BY <1>2
  <2>2. IsFiniteSet(Held \cup {c}) /\ Cardinality(Held \cup {c}) = Cardinality(Held) + 1
    BY <1>1, <1>4, FS_AddElement
  <2>3. Cardinality(Held') <= Cardinality(Held \cup {c}) /\ Cardinality(Held') \in Nat
    BY <2>1, <2>2, FS_Subset, FS_CardinalityType
  <2> QED
    BY <1>1, <1>4, <2>2, <2>3 DEF MapIsBounded
<1>5. CASE c \notin Held /\ ~(Cardinality(Held) < MaxKeys)
  <2>1. PICK d \in Held : d \in out
    BY <1>2, <1>5 DEF Displaced, Idle
  <2>2. Held' \subseteq (Held \ {d}) \cup {c}
    BY <1>2, <2>1
  <2>3. IsFiniteSet(Held \ {d}) /\ Cardinality(Held \ {d}) = Cardinality(Held) - 1
    BY <1>1, <2>1, FS_RemoveElement
  <2>4. /\ IsFiniteSet((Held \ {d}) \cup {c})
        /\ Cardinality((Held \ {d}) \cup {c}) = Cardinality(Held \ {d}) + 1
    BY <1>5, <2>3, FS_AddElement
  <2>5. Cardinality(Held') <= Cardinality((Held \ {d}) \cup {c}) /\ Cardinality(Held') \in Nat
    BY <2>2, <2>4, FS_Subset, FS_CardinalityType
  <2> QED
    BY <1>1, <2>3, <2>4, <2>5 DEF MapIsBounded
<1> QED
  BY <1>3, <1>4, <1>5

(* The memory the buckets take is bounded, however many addresses come.    *)
THEOREM MapBounded == Spec => []MapIsBounded
<1>1. Init => MapIsBounded
  <2> SUFFICES ASSUME Init PROVE MapIsBounded
    OBVIOUS
  <2>1. Held = {}
    BY DEF Init, Held
  <2> QED
    BY <2>1, LimiterAssumption, FS_EmptySet DEF MapIsBounded
<1>2. MapIsBounded /\ [Next]_vars => MapIsBounded'
  <2> SUFFICES ASSUME MapIsBounded, [Next]_vars PROVE MapIsBounded'
    OBVIOUS
  <2>1. ASSUME Held' \subseteq Held PROVE MapIsBounded'
    <3>1. Held \subseteq Client
      BY DEF Held
    <3>2. /\ IsFiniteSet(Held) /\ Cardinality(Held) \in Nat
          /\ Cardinality(Held') <= Cardinality(Held) /\ Cardinality(Held') \in Nat
      BY <2>1, <3>1, LimiterAssumption, FS_Subset, FS_CardinalityType
    <3> QED
      BY <3>2, LimiterAssumption DEF MapIsBounded
  <2>2. ASSUME NEW c \in Client, NEW r \in Used, Throttle(c, r) \/ Pay(c, r)
        PROVE  MapIsBounded'
    BY <2>2, RoomIsMade DEF Throttle, Pay
  <2>3. CASE Forget
    BY <2>1, <2>3 DEF Forget, Held
  <2>4. CASE sweep
    BY <2>1, <2>4 DEF sweep, Held
  <2>5. CASE Tick \/ UNCHANGED vars
    BY <2>1, <2>5 DEF Tick, vars, Held
  <2> QED
    BY <2>2, <2>3, <2>4, <2>5
    DEF Next, AdmitFree, RefuseSpend, AdmitPaid, Restart, DieHalfCharged
<1> QED
  BY <1>1, <1>2, PTL DEF Spec

-----------------------------------------------------------------------------
(* The argument for the bill: what is on record stays below each ceiling   *)
(* and covers what was let through, and the deployment is charged before   *)
(* the shop, so that dying in between only ever overstates.                *)
Recorded ==
  /\ spend["global"] <= GlobalCap
  /\ \A s \in Shop : spend[s] <= ShopCap /\ spend[s] <= spend["global"]
  /\ \A t \in Scope : served[t] <= spend[t]

LEMMA RecordedInv == Spec => []Recorded
<1>1. Init => Recorded
  BY LimiterAssumption DEF Init, Recorded, Scope
<1>2. TypeOK /\ Recorded /\ [Next]_vars => Recorded'
  <2> SUFFICES ASSUME TypeOK, Recorded, [Next]_vars PROVE Recorded'
    OBVIOUS
  <2>1. /\ spend \in [Scope -> Nat] /\ served \in [Scope -> Nat]
        /\ "global" \in Scope /\ Shop \subseteq Scope /\ "global" \notin Shop
        /\ None \notin Shop /\ GlobalCap \in Nat /\ ShopCap \in Nat
    BY LimiterAssumption DEF TypeOK, Scope
  <2>2. CASE UNCHANGED <<spend, served>>
    BY <2>2 DEF Recorded
  <2>3. ASSUME NEW c \in Client, NEW r \in Used, NEW s \in Shop \cup {None}, AdmitPaid(c, r, s)
        PROVE  Recorded'
    <3> DEFINE u == costFor[r].units
    <3>1. /\ u \in Nat /\ spend["global"] + u <= GlobalCap
          /\ s \in Shop => spend[s] + u <= ShopCap
      BY <2>1, <2>3, Costs DEF AdmitPaid, Fits
    <3>2. /\ \A t \in Scope : spend'[t] = IF t \in {"global", s} THEN spend[t] + u ELSE spend[t]
          /\ \A t \in Scope : served'[t] = IF t \in {"global", s} THEN served[t] + u ELSE served[t]
      BY <2>1, <2>3, <3>1, AddEffect DEF AdmitPaid
    <3> HIDE DEF u
    <3> QED
      BY <2>1, <3>1, <3>2 DEF Recorded
  <2>4. ASSUME NEW c \in Client, NEW r \in Used, NEW s \in Shop \cup {None},
               DieHalfCharged(c, r, s)
        PROVE  Recorded'
    <3> DEFINE u == costFor[r].units
    <3>1. u \in Nat /\ spend["global"] + u <= GlobalCap
      BY <2>4, Costs DEF DieHalfCharged, Fits
    <3>2. /\ \A t \in Scope : spend'[t] = IF t \in {"global"} THEN spend[t] + u ELSE spend[t]
          /\ served' = served
      BY <2>1, <2>4, <3>1, AddEffect DEF DieHalfCharged
    <3> HIDE DEF u
    <3> QED
      BY <2>1, <3>1, <3>2 DEF Recorded
  <2>5. CASE Tick
    <3>1. CASE spend' = [t \in Scope |-> 0] /\ served' = [t \in Scope |-> 0]
      BY <2>1, <3>1 DEF Recorded
    <3> QED
      BY <2>2, <2>5, <3>1 DEF Tick
  <2> QED
    BY <2>2, <2>3, <2>4, <2>5
    DEF Next, vars, Throttle, AdmitFree, RefuseSpend, Restart, sweep
<1> QED
  BY <1>1, <1>2, TypeCorrect, PTL DEF Spec

(* No day costs more than its ceilings, for the deployment or for a shop,  *)
(* through any number of restarts and half-charged requests.               *)
THEOREM BillBounded == Spec => []BillIsBounded
<1>1. TypeOK /\ Recorded => BillIsBounded
  BY LimiterAssumption DEF Recorded, BillIsBounded, TypeOK, Scope
<1> QED
  BY <1>1, TypeCorrect, RecordedInv, PTL

(* The shops' records stay within the deployment's.                        *)
THEOREM ShopsAreWithinGlobal == Spec => []ShopsWithinGlobal
<1>1. Recorded => ShopsWithinGlobal
  BY DEF Recorded, ShopsWithinGlobal
<1> QED
  BY <1>1, RecordedInv, PTL

(* While the process lives, a client is let off only to make room, and     *)
(* only when nobody with a bucket was throttled less.                      *)
THEOREM ThrottlingIsKept == Spec => ThrottledAreKept
<1>1. TypeOK /\ [Next]_vars
        => \A c \in Client :
             /\ buckets[c] # None /\ buckets'[c] = None /\ peek(c) < Full
             /\ \E d \in Client : buckets'[d] # None
             => \A d \in Held : peek(d) <= peek(c)
  <2> SUFFICES ASSUME TypeOK, [Next]_vars,
                      NEW c \in Client, buckets[c] # None, buckets'[c] = None, peek(c) < Full,
                      \E d \in Client : buckets'[d] # None
               PROVE  \A d \in Held : peek(d) <= peek(c)
    OBVIOUS
  <2>1. ASSUME NEW b \in Client, NEW left \in 0..Full, consume(b, left)
        PROVE  \A d \in Held : peek(d) <= peek(c)
    <3>1. PICK out \in Displaced(b) :
            buckets' = [d \in Client |-> IF d = b THEN [tokens |-> left, updatedAt |-> now]
                                         ELSE IF d \in out THEN None ELSE buckets[d]]
      BY <2>1 DEF consume
    <3>2. buckets'[b] # None
      BY <2>1, ConsumeEffect
    <3>3. c \in out
      BY <3>1, <3>2
    <3>4. c \notin Idle
      BY PeekRange, Costs DEF Idle
    <3> QED
      BY <3>3, <3>4 DEF Displaced
  <2>2. ASSUME NEW b \in Client, NEW r \in Used, Throttle(b, r) \/ Pay(b, r)
        PROVE  \A d \in Held : peek(d) <= peek(c)
    BY <2>1, <2>2, Paying DEF Throttle, Pay
  <2>3. ~Forget
    BY DEF Forget
  <2>4. ~sweep
    <3>1. c \notin Idle
      BY PeekRange, Costs DEF Idle
    <3> QED
      BY <3>1 DEF sweep
  <2>5. ~(UNCHANGED buckets)
    OBVIOUS
  <2> QED
    BY <2>2, <2>3, <2>4, <2>5
    DEF Next, vars, AdmitFree, RefuseSpend, AdmitPaid, Restart, DieHalfCharged, Tick
<1> QED
  BY <1>1, TypeCorrect, PTL DEF Spec, ThrottledAreKept
=============================================================================
