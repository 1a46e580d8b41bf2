------------------------------- MODULE Breaker -------------------------------
(***************************************************************************)
(* The circuit breaker of packages/resilience/src/breaker.ts: one entry    *)
(* for each merchant whose calls ever ended, shared by every turn that     *)
(* runs at the time.                                                       *)
(*                                                                         *)
(* run() asks for permission, waits for the call, and reports how it       *)
(* ended; between the two the entry may have been opened, half opened,     *)
(* closed or evicted by others.  Time is the age of an open entry, in      *)
(* ticks of which ResetAfter make the reset window.                        *)
(***************************************************************************)
EXTENDS Integers, FiniteSets

CONSTANTS
  Key,              \* merchants
  Call,             \* bound: calls in flight at once
  Threshold,        \* consecutive failures before opening
  ResetAfter,       \* ticks open before probing
  SuccessesToClose, \* probe successes before closing
  MaxKeys,          \* entries before closed ones are evicted
  MaxOutages,       \* bound on how often an upstream breaks or recovers
  Missing              \* undefined

Entry == [state : {"closed", "open", "half_open"}, failures : 0..Threshold,
          successes : 0..SuccessesToClose - 1, age : 0..ResetAfter, probing : BOOLEAN]

ASSUME BreakerAssumption ==
  /\ Threshold \in Nat \ {0} /\ SuccessesToClose \in Nat \ {0}
  /\ ResetAfter \in Nat /\ MaxKeys \in Nat \ {0} /\ MaxOutages \in Nat
  /\ IsFiniteSet(Key)
  /\ Missing \notin Key \cup Entry

VARIABLES
  entries, \* the map: an entry, or Missing for a key that has none
  calls,   \* calls admitted and not yet ended
  up,      \* the upstreams that answer
  outages,
  row      \* history: failures in a row of a key that has an entry, up to Threshold

breakerVars == <<entries, calls, up, outages, row>>

Fresh == [state |-> "closed", failures |-> 0, successes |-> 0, age |-> 0, probing |-> FALSE]
Idle == [key |-> Missing, ok |-> FALSE, probe |-> FALSE]

Present == {k \in Key : entries[k] # Missing}

BreakerInit ==
  /\ entries = [k \in Key |-> Missing]
  /\ calls = [c \in Call |-> Idle]
  /\ up = Key
  /\ outages = 0
  /\ row = [k \in Key |-> 0]

-----------------------------------------------------------------------------
(* state(): an open entry whose window is over becomes half open when it   *)
(* is looked at.                                                           *)
Looked(k) ==
  IF entries[k] # Missing /\ entries[k].state = "open" /\ entries[k].age >= ResetAfter
  THEN [entries[k] EXCEPT !.state = "half_open", !.probing = FALSE, !.successes = 0]
  ELSE entries[k]

State(k) == IF entries[k] = Missing THEN "closed" ELSE Looked(k).state

(* The service level or a metric asks for the state.                       *)
Look(k) ==
  /\ Looked(k) # entries[k]
  /\ entries' = [entries EXCEPT ![k] = Looked(k)]
  /\ UNCHANGED <<calls, up, outages, row>>

Start(c, k, probe) ==
  /\ calls[c] = Idle
  /\ calls' = [calls EXCEPT ![c] = [key |-> k, ok |-> k \in up, probe |-> probe]]
  /\ UNCHANGED <<up, outages, row>>

(* run(): a call is let through, as a probe when half open.  A call that   *)
(* is refused changes nothing.                                             *)
Admit(c, k) ==
  /\ State(k) = "closed"
  /\ Start(c, k, FALSE)
  /\ UNCHANGED entries

AdmitProbe(c, k) ==
  /\ State(k) = "half_open" /\ ~Looked(k).probing
  /\ Start(c, k, TRUE)
  /\ entries' = [entries EXCEPT ![k] = [Looked(k) EXCEPT !.probing = TRUE]]

(* Fault: any entry makes room.                                            *)
WithEntryEvictingAny(k, entry) ==
  IF k \in Present \/ Cardinality(Present) < MaxKeys
  THEN entries' = [entries EXCEPT ![k] = entry]
  ELSE \E out \in Present :
         entries' = [j \in Key |-> IF j = k THEN entry
                                   ELSE IF j = out THEN Missing ELSE entries[j]]

(* entry(): the entry of k, made if there is none; at the bound a closed   *)
(* one makes room (the map's order decides which).                         *)
WithEntry(k, entry) ==
  IF k \in Present \/ Cardinality(Present) < MaxKeys
  THEN entries' = [entries EXCEPT ![k] = entry]
  ELSE LET closed == {j \in Present : entries[j].state = "closed"}
           surplus == Cardinality(Present) - MaxKeys + 1
       IN  \E out \in SUBSET closed :
             /\ \/ Cardinality(out) = surplus
                \/ out = closed /\ Cardinality(closed) < surplus
             /\ entries' = [j \in Key |-> IF j = k THEN entry
                                          ELSE IF j \in out THEN Missing ELSE entries[j]]

EntryOf(k) == IF entries[k] = Missing THEN Fresh ELSE entries[k]

(* Fault: the probe that succeeded is taken to be still in flight.         *)
SuccessStillProbing(e) ==
  IF e.state = "half_open" /\ e.successes + 1 < SuccessesToClose
  THEN [e EXCEPT !.successes = @ + 1]
  ELSE [e EXCEPT !.probing = FALSE, !.state = "closed", !.failures = 0, !.successes = 0]

(* The entry after a success, and after a failure.                         *)
AfterSuccess(e) ==
  IF e.state = "half_open"
  THEN IF e.successes + 1 >= SuccessesToClose
       THEN [e EXCEPT !.probing = FALSE, !.state = "closed", !.failures = 0, !.successes = 0]
       ELSE [e EXCEPT !.probing = FALSE, !.successes = @ + 1]
  ELSE [e EXCEPT !.probing = FALSE, !.state = "closed", !.failures = 0]

(* Fault: the threshold has to be exceeded.                                *)
FailureBeyondThreshold(e) ==
  IF e.state = "half_open" \/ e.failures >= Threshold
  THEN [e EXCEPT !.probing = FALSE, !.state = "open", !.age = 0, !.successes = 0]
  ELSE [e EXCEPT !.probing = FALSE, !.failures = @ + 1]

AfterFailure(e) ==
  IF e.state = "half_open"
  THEN [e EXCEPT !.probing = FALSE, !.state = "open", !.age = 0, !.successes = 0]
  ELSE IF e.failures + 1 >= Threshold
       THEN [e EXCEPT !.probing = FALSE, !.state = "open", !.age = 0, !.failures = Threshold]
       ELSE [e EXCEPT !.probing = FALSE, !.failures = @ + 1]

End(c) == calls' = [calls EXCEPT ![c] = Idle]

(* The history: a key that lost its entry starts again.                    *)
Row(k, n) ==
  row' = [j \in Key |-> IF entries'[j] = Missing THEN 0 ELSE IF j = k THEN n ELSE row[j]]

Succeed(c) ==
  LET k == calls[c].key
  IN  /\ calls[c] # Idle /\ calls[c].ok
      /\ WithEntry(k, AfterSuccess(EntryOf(k)))
      /\ End(c)
      /\ Row(k, 0)
      /\ UNCHANGED <<up, outages>>

Fail(c) ==
  LET k == calls[c].key
  IN  /\ calls[c] # Idle /\ ~calls[c].ok
      /\ WithEntry(k, AfterFailure(EntryOf(k)))
      /\ End(c)
      /\ Row(k, IF row[k] < Threshold THEN row[k] + 1 ELSE row[k])
      /\ UNCHANGED <<up, outages>>

Tick ==
  /\ \E k \in Present : entries[k].state = "open" /\ entries[k].age < ResetAfter
  /\ entries' = [k \in Key |->
                   IF k \in Present /\ entries[k].state = "open" /\ entries[k].age < ResetAfter
                   THEN [entries[k] EXCEPT !.age = @ + 1] ELSE entries[k]]
  /\ UNCHANGED <<calls, up, outages, row>>

(* An upstream breaks or recovers.                                         *)
Toggle(k) ==
  /\ outages < MaxOutages
  /\ outages' = outages + 1
  /\ up' = IF k \in up THEN up \ {k} ELSE up \cup {k}
  /\ UNCHANGED <<entries, calls, row>>

BreakerNext ==
  \/ \E k \in Key : Look(k)
  \/ \E c \in Call, k \in Key : Admit(c, k)
  \/ \E c \in Call, k \in Key : AdmitProbe(c, k)
  \/ \E c \in Call : Succeed(c)
  \/ \E c \in Call : Fail(c)
  \/ Tick
  \/ \E k \in Key : Toggle(k)

BreakerSpec == BreakerInit /\ [][BreakerNext]_breakerVars

(* Every call ends (the transport gives up after its timeout), time        *)
(* passes, and the shoppers of every merchant keep asking.                 *)
Fairness ==
  /\ WF_breakerVars(Tick)
  /\ \A c \in Call : WF_breakerVars(Succeed(c) \/ Fail(c))
  /\ \A k \in Key : SF_breakerVars(\E c \in Call : AdmitProbe(c, k))

BreakerFairSpec == BreakerSpec /\ Fairness

-----------------------------------------------------------------------------
BreakerTypeOK ==
  /\ entries \in [Key -> Entry \cup {Missing}]
  /\ calls \in [Call -> [key : Key \cup {Missing}, ok : BOOLEAN, probe : BOOLEAN]]
  /\ \A c \in Call : calls[c].key = Missing => calls[c] = Idle
  /\ up \in SUBSET Key
  /\ outages \in 0..MaxOutages
  /\ row \in [Key -> 0..Threshold]

Serving(k) == State(k) = "closed"

(* A merchant whose last Threshold calls failed is failed fast or probed,  *)
(* never called freely.                                                    *)
FailingIsOpen == \A k \in Key : row[k] = Threshold => ~Serving(k)

(* What is known of a failing merchant is given up only for a success of   *)
(* its own, however crowded the map is.                                    *)
FailingIsRemembered ==
  [][\A k \in Key : row[k] = Threshold /\ row'[k] < Threshold =>
       \E c \in Call : calls[c].key = k /\ calls[c].ok /\ calls'[c] = Idle]_breakerVars

(* A storefront that recovers for good is served again for good.           *)
Recovers == \A k \in Key : <>[](k \in up) => <>[]Serving(k)
=============================================================================
