------------------------------- MODULE Limiter -------------------------------
(***************************************************************************)
(* Admission control (packages/gateway/src/limits): a token bucket for     *)
(* each client address, held in memory and bounded in number, and a daily  *)
(* ceiling on what is spent upstream, for each shop and for the whole      *)
(* deployment, held in the database.                                       *)
(*                                                                         *)
(* A decision is one synchronous step, but its two spend counters are two  *)
(* writes: the process may die between them.  A token is 60 units of a     *)
(* bucket and the clock ticks once a second, so that a bucket gains        *)
(* RefillPerMin units a tick; spend is counted in half units.              *)
(***************************************************************************)
EXTENDS Integers, FiniteSets

CONSTANTS
  Client,       \* client addresses
  Shop,         \* shops a request may name
  Used,         \* bound: the routes requested
  Burst,        \* tokens of a full bucket
  RefillPerMin, \* tokens gained in a minute
  MaxKeys,      \* buckets held at once
  ShopCap,      \* half units a day, for each shop
  GlobalCap,    \* half units a day, for all
  DayLength,    \* bound: ticks in a day
  MaxTime,      \* bound on the clock
  None

(* What a limited route costs: tokens of the bucket, half units of spend.  *)
(* The health, metrics and webhook routes are exempt and never get here.   *)
Route == {"chat", "transcribe", "speak", "exposure", "pixel", "config", "auth", "admin", "other"}
costFor ==
  [r \in Route |->
     CASE r \in {"chat", "transcribe"} -> [tokens |-> 5, units |-> 2]
       [] r = "speak" -> [tokens |-> 3, units |-> 1]
       [] r \in {"exposure", "pixel", "admin"} -> [tokens |-> 2, units |-> 0]
       [] r = "auth" -> [tokens |-> 3, units |-> 0]
       [] OTHER -> [tokens |-> 1, units |-> 0]]

(* The defaults hold a burst of 60; config.ts accepts less, and a route    *)
(* dearer than the burst could then never be served.                       *)
ASSUME LimiterAssumption ==
  /\ Burst \in Nat /\ \A r \in Used : costFor[r].tokens <= Burst
  /\ RefillPerMin \in Nat \ {0} /\ MaxKeys \in Nat \ {0}
  /\ ShopCap \in Nat /\ GlobalCap \in Nat
  /\ DayLength \in Nat \ {0} /\ MaxTime \in Nat
  /\ Used \subseteq Route /\ IsFiniteSet(Client)
  /\ "global" \notin Shop /\ None \notin Client \cup Shop
  /\ None \notin [tokens : Int, updatedAt : Int]

VARIABLES
  now,     \* the clock
  buckets, \* the map: a bucket, or None for a client that has none
  spend,   \* the spend table: scope -> half units, today
  fair,    \* history: what is left of each client's allowance, counted eagerly
  served,  \* history: half units of the requests let through today
  promise  \* history: the last refusal of each client: what it cost, when to come back

vars == <<now, buckets, spend, fair, served, promise>>

Full == Burst * 60
Cost(r) == costFor[r].tokens * 60
Scope == Shop \cup {"global"}
Least(a, b) == IF a < b THEN a ELSE b

Init ==
  /\ now = 0
  /\ buckets = [c \in Client |-> None]
  /\ spend = [s \in Scope |-> 0]
  /\ fair = [c \in Client |-> Full]
  /\ served = [s \in Scope |-> 0]
  /\ promise = [c \in Client |-> None]

-----------------------------------------------------------------------------
(* Tokens available now; a client without a bucket would get a full one.   *)
peek(c) ==
  IF buckets[c] = None THEN Full
  ELSE Least(Full, buckets[c].tokens + (now - buckets[c].updatedAt) * RefillPerMin)

Held == {c \in Client : buckets[c] # None}
Idle == {c \in Held : peek(c) >= Full}

(* The buckets that make room for the one c needs: the idle ones or, if    *)
(* all are in use, one of the fullest (the map's order decides a tie).     *)
Displaced(c) ==
  IF c \in Held \/ Cardinality(Held) < MaxKeys THEN {{}}
  ELSE IF Idle # {} THEN {Idle}
  ELSE {{d} : d \in {d \in Held : \A e \in Held : peek(e) <= peek(d)}}

(* Fault: the time of the last use is left as it was.                      *)
consumeWithoutStamp(c, left) ==
  \E out \in Displaced(c) :
    buckets' = [d \in Client |->
                  IF d = c THEN [tokens |-> left,
                                 updatedAt |-> IF c \in Held THEN buckets[c].updatedAt ELSE now]
                  ELSE IF d \in out THEN None ELSE buckets[d]]

(* The client's bucket, made if need be, now holds left.                   *)
consume(c, left) ==
  \E out \in Displaced(c) :
    buckets' = [d \in Client |-> IF d = c THEN [tokens |-> left, updatedAt |-> now]
                                 ELSE IF d \in out THEN None ELSE buckets[d]]

(* The history: a client whose bucket was given up starts afresh, and one  *)
(* whose request was let through has spent what it cost.                   *)
Allowance(c, cost) ==
  fair' = [d \in Client |-> IF d = c THEN fair[d] - cost
                            ELSE IF buckets'[d] = None THEN Full ELSE fair[d]]

(* Whole seconds until the deficit is made up, at least one.               *)
RetryAfterRoundedDown(c, r) ==
  LET wait == (Cost(r) - peek(c)) \div RefillPerMin
  IN  IF wait < 1 THEN 1 ELSE wait

RetryAfter(c, r) ==
  LET wait == (Cost(r) - peek(c) + RefillPerMin - 1) \div RefillPerMin
  IN  IF wait < 1 THEN 1 ELSE wait

(* Too many requests from the client: nothing is deducted.                 *)
Throttle(c, r) ==
  /\ peek(c) < Cost(r)
  /\ consume(c, peek(c))
  /\ Allowance(c, 0)
  /\ promise' = [promise EXCEPT ![c] = [cost |-> Cost(r), at |-> now + RetryAfter(c, r)]]
  /\ UNCHANGED <<now, spend, served>>

(* The bucket pays; a request that owed it nothing more has no claim left. *)
Pay(c, r) ==
  /\ peek(c) >= Cost(r)
  /\ consume(c, peek(c) - Cost(r))
  /\ promise' = [promise EXCEPT ![c] = None]

(* Neither ceiling is exceeded.  A request may name no shop.               *)
Fits(s, r) ==
  /\ spend["global"] + costFor[r].units <= GlobalCap
  /\ s # None => spend[s] + costFor[r].units <= ShopCap

(* A route that spends nothing upstream is let through.                    *)
AdmitFree(c, r) ==
  /\ costFor[r].units = 0
  /\ Pay(c, r)
  /\ Allowance(c, Cost(r))
  /\ UNCHANGED <<now, spend, served>>

(* A ceiling would be exceeded: the request is refused, but its tokens are *)
(* gone.                                                                   *)
RefuseSpend(c, r, s) ==
  /\ costFor[r].units > 0
  /\ ~Fits(s, r)
  /\ Pay(c, r)
  /\ Allowance(c, 0)
  /\ UNCHANGED <<now, spend, served>>

Add(table, scopes, units) ==
  [t \in Scope |-> IF t \in scopes THEN table[t] + units ELSE table[t]]

AdmitPaid(c, r, s) ==
  /\ costFor[r].units > 0
  /\ Fits(s, r)
  /\ Pay(c, r)
  /\ Allowance(c, Cost(r))
  /\ spend' = Add(spend, {"global", s}, costFor[r].units)
  /\ served' = Add(served, {"global", s}, costFor[r].units)
  /\ UNCHANGED now

(* A restart forgives the throttling and not the spending.                 *)
Forget ==
  /\ buckets' = [c \in Client |-> None]
  /\ fair' = [c \in Client |-> Full]
  /\ promise' = [c \in Client |-> None]

(* Fault: the counters live in memory, as without a database.              *)
RestartAfresh ==
  /\ Forget
  /\ spend' = [s \in Scope |-> 0]
  /\ UNCHANGED <<now, served>>

Restart ==
  /\ Forget
  /\ UNCHANGED <<now, spend, served>>

(* The process dies after charging the deployment and before the shop.     *)
DieHalfCharged(c, r, s) ==
  /\ costFor[r].units > 0 /\ s # None
  /\ peek(c) >= Cost(r) /\ Fits(s, r)
  /\ spend' = Add(spend, {"global"}, costFor[r].units)
  /\ Forget
  /\ UNCHANGED <<now, served>>

(* The sweeper drops the buckets that are full again.                      *)
sweep ==
  /\ Idle # {}
  /\ buckets' = [c \in Client |-> IF c \in Idle THEN None ELSE buckets[c]]
  /\ UNCHANGED <<now, spend, fair, served, promise>>

(* A second passes; at midnight the counters of the day are left behind.   *)
Tick ==
  /\ now < MaxTime
  /\ now' = now + 1
  /\ fair' = [c \in Client |-> Least(Full, fair[c] + RefillPerMin)]
  /\ IF now' % DayLength = 0
     THEN /\ spend' = [s \in Scope |-> 0]
          /\ served' = [s \in Scope |-> 0]
     ELSE UNCHANGED <<spend, served>>
  /\ UNCHANGED <<buckets, promise>>

Next ==
  \/ \E c \in Client, r \in Used : Throttle(c, r)
  \/ \E c \in Client, r \in Used : AdmitFree(c, r)
  \/ \E c \in Client, r \in Used, s \in Shop \cup {None} : RefuseSpend(c, r, s)
  \/ \E c \in Client, r \in Used, s \in Shop \cup {None} : AdmitPaid(c, r, s)
  \/ \E c \in Client, r \in Used, s \in Shop \cup {None} : DieHalfCharged(c, r, s)
  \/ Restart
  \/ sweep
  \/ Tick

Spec == Init /\ [][Next]_vars

-----------------------------------------------------------------------------
Bucket == [tokens : 0..Full, updatedAt : 0..MaxTime]

TypeOK ==
  /\ now \in 0..MaxTime
  /\ buckets \in [Client -> Bucket \cup {None}]
  /\ \A c \in Held : buckets[c].updatedAt <= now
  /\ spend \in [Scope -> Nat] /\ served \in [Scope -> Nat]
  /\ fair \in [Client -> Int]
  /\ promise \in [Client -> [cost : Nat, at : Nat] \cup {None}]

(* The map never holds more than its bound of buckets, however many        *)
(* addresses come, and a request is never turned away for want of room.    *)
MapIsBounded == Cardinality(Held) <= MaxKeys

(* Over any stretch of time a client is let through for at most the burst  *)
(* and what the stretch refills, however its bucket is refilled lazily,    *)
(* swept and made again; only a restart or a displacement forgives.        *)
RateIsBounded == \A c \in Client : fair[c] >= 0

(* Short of a restart, a client's throttling is forgotten only when the    *)
(* map is full of clients throttled at least as much.                      *)
ThrottledAreKept ==
  [][\A c \in Client :
       /\ buckets[c] # None /\ buckets'[c] = None /\ peek(c) < Full
       /\ \E d \in Client : buckets'[d] # None
       => \A d \in Held : peek(d) <= peek(c)]_vars

(* What is let through in a day stays below each ceiling, crashes and      *)
(* restarts included, even when the process keeps dying half way.          *)
BillIsBounded ==
  /\ served["global"] <= GlobalCap
  /\ \A s \in Shop : served[s] <= ShopCap

(* No shop is ever on record for more than the deployment as a whole.      *)
ShopsWithinGlobal == \A s \in Shop : spend[s] <= spend["global"]

(* A client that is told when to come back, and does, is let in: its next  *)
(* request of the same kind is not throttled again.                        *)
RetryAfterSuffices ==
  \A c \in Client : promise[c] # None /\ now >= promise[c].at => peek(c) >= promise[c].cost
=============================================================================
