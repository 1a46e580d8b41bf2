---------------------------- MODULE BreakerProofs ----------------------------
(***************************************************************************)
(* Theorems about Breaker, for any merchants, calls in flight, threshold,  *)
(* window and bound of the map.                                            *)
(*                                                                         *)
(* FailingIsOpen says nothing of the count the entry itself keeps, and is  *)
(* not inductive: what carries it (Counted) is that a closed entry counts  *)
(* the failures in a row, short of the threshold, while an entry that      *)
(* opened stays open or half open until a success of its own.              *)
(***************************************************************************)
EXTENDS Breaker, TLAPS

(* A closed entry has failed as often as its key in a row; where the key   *)
(* has no entry nothing is known against it.                               *)
Counted ==
  \A k \in Key :
    /\ entries[k] = Missing => row[k] = 0
    /\ entries[k] # Missing /\ entries[k].state = "closed" =>
         row[k] = entries[k].failures /\ row[k] < Threshold

LEMMA NoneIsNoEntry == Missing \notin Key /\ Missing \notin Entry
BY BreakerAssumption

(* What an entry becomes is an entry; it is closed after a failure only if *)
(* the failure was counted, and after a success only with none counted.    *)
LEMMA AfterTyped ==
  ASSUME NEW e \in Entry
  PROVE  /\ AfterFailure(e) \in Entry /\ AfterSuccess(e) \in Entry
         /\ AfterFailure(e).state = "closed" =>
              e.state = "closed" /\ e.failures + 1 < Threshold
              /\ AfterFailure(e).failures = e.failures + 1
         /\ AfterSuccess(e).state = "closed" => AfterSuccess(e).failures = 0
<1>1. /\ e.state \in {"closed", "open", "half_open"} /\ e.failures \in 0..Threshold
      /\ e.successes \in 0..SuccessesToClose - 1 /\ e.age \in 0..ResetAfter
      /\ e.probing \in BOOLEAN
      /\ Threshold \in Nat \ {0} /\ SuccessesToClose \in Nat \ {0} /\ ResetAfter \in Nat
  BY BreakerAssumption DEF Entry
<1>2. AfterFailure(e) \in Entry
  <2>1. 0 \in 0..ResetAfter /\ 0 \in 0..SuccessesToClose - 1 /\ Threshold \in 0..Threshold
    BY <1>1
  <2>2. [e EXCEPT !.probing = FALSE, !.state = "open", !.age = 0, !.successes = 0] \in Entry
    BY <2>1 DEF Entry
  <2>3. [e EXCEPT !.probing = FALSE, !.state = "open", !.age = 0, !.failures = Threshold] \in Entry
    BY <2>1 DEF Entry
  <2>4. ASSUME e.failures + 1 < Threshold
        PROVE  [e EXCEPT !.probing = FALSE, !.failures = @ + 1] \in Entry
    <3>1. e.failures + 1 \in 0..Threshold
      BY <1>1, <2>4
    <3> QED BY <3>1 DEF Entry
  <2> QED BY <1>1, <2>2, <2>3, <2>4 DEF AfterFailure
<1>3. AfterSuccess(e) \in Entry
  <2>1. 0 \in 0..Threshold /\ 0 \in 0..SuccessesToClose - 1
    BY <1>1
  <2>2. [e EXCEPT !.probing = FALSE, !.state = "closed", !.failures = 0, !.successes = 0] \in Entry
    BY <2>1 DEF Entry
  <2>3. [e EXCEPT !.probing = FALSE, !.state = "closed", !.failures = 0] \in Entry
    BY <2>1 DEF Entry
  <2>4. ASSUME ~(e.successes + 1 >= SuccessesToClose)
        PROVE  [e EXCEPT !.probing = FALSE, !.successes = @ + 1] \in Entry
    <3>1. e.successes + 1 \in 0..SuccessesToClose - 1
      BY <1>1, <2>4
    <3> QED BY <3>1 DEF Entry
  <2> QED BY <2>2, <2>3, <2>4 DEF AfterSuccess
<1>4. AfterFailure(e).state = "closed" =>
        e.state = "closed" /\ e.failures + 1 < Threshold
        /\ AfterFailure(e).failures = e.failures + 1
  BY <1>1 DEF AfterFailure, Entry
<1>5. AfterSuccess(e).state = "closed" => AfterSuccess(e).failures = 0
  BY <1>1 DEF AfterSuccess, Entry
<1> QED BY <1>2, <1>3, <1>4, <1>5

LEMMA AgedTyped ==
  ASSUME NEW e \in Entry, e.age < ResetAfter
  PROVE  [e EXCEPT !.age = @ + 1] \in Entry /\ [e EXCEPT !.age = @ + 1].state = e.state
<1>1. e.age + 1 \in 0..ResetAfter
  BY BreakerAssumption DEF Entry
<1> QED BY <1>1 DEF Entry

LEMMA LookedTyped ==
  ASSUME BreakerTypeOK, NEW k \in Key
  PROVE  /\ entries[k] # Missing => Looked(k) \in Entry
         /\ entries[k] = Missing <=> Looked(k) = Missing
         /\ Looked(k) # Missing /\ Looked(k).state = "closed" => Looked(k) = entries[k]
<1>1. entries[k] \in Entry \cup {Missing} /\ Missing \notin Entry
  BY NoneIsNoEntry DEF BreakerTypeOK
<1>2. CASE Looked(k) = entries[k]
  BY <1>1, <1>2
<1>3. CASE /\ entries[k] # Missing
           /\ Looked(k) = [entries[k] EXCEPT !.state = "half_open", !.probing = FALSE, !.successes = 0]
  <2>1. 0 \in 0..SuccessesToClose - 1
    BY BreakerAssumption
  <2>2. Looked(k) \in Entry /\ Looked(k).state = "half_open"
    BY <1>1, <1>3, <2>1 DEF Entry
  <2> QED BY <1>1, <1>3, <2>2
<1> QED BY <1>2, <1>3 DEF Looked

LEMMA EntryOfTyped ==
  ASSUME BreakerTypeOK, NEW k \in Key
  PROVE  EntryOf(k) \in Entry
BY BreakerAssumption DEF BreakerTypeOK, EntryOf, Entry, Fresh

(* entry() puts the entry in its place and takes away closed ones only.    *)
LEMMA WithEntryKeeps ==
  ASSUME BreakerTypeOK, NEW k \in Key, NEW entry \in Entry, WithEntry(k, entry)
  PROVE  /\ entries' \in [Key -> Entry \cup {Missing}]
         /\ entries'[k] = entry
         /\ \A j \in Key \ {k} :
              \/ entries'[j] = entries[j]
              \/ entries'[j] = Missing /\ entries[j] # Missing /\ entries[j].state = "closed"
<1>1. entries \in [Key -> Entry \cup {Missing}]
  BY DEF BreakerTypeOK
<1>2. CASE entries' = [entries EXCEPT ![k] = entry]
  BY <1>1, <1>2
<1>3. ASSUME NEW out \in SUBSET {j \in Present : entries[j].state = "closed"},
             entries' = [j \in Key |-> IF j = k THEN entry
                                      ELSE IF j \in out THEN Missing ELSE entries[j]]
      PROVE  /\ entries' \in [Key -> Entry \cup {Missing}]
             /\ entries'[k] = entry
             /\ \A j \in Key \ {k} :
                  \/ entries'[j] = entries[j]
                  \/ entries'[j] = Missing /\ entries[j] # Missing /\ entries[j].state = "closed"
  BY <1>1, <1>3 DEF Present
<1> QED BY <1>2, <1>3 DEF WithEntry

(* A call that is under way has a merchant.                                *)
LEMMA CallHasKey ==
  ASSUME BreakerTypeOK, NEW c \in Call, calls[c] # Idle
  PROVE  calls[c].key \in Key
BY DEF BreakerTypeOK

-----------------------------------------------------------------------------
LEMMA InitInv == BreakerInit => BreakerTypeOK /\ Counted
BY BreakerAssumption DEF BreakerInit, BreakerTypeOK, Counted, Idle

LEMMA StepTyped == BreakerTypeOK /\ [BreakerNext]_breakerVars => BreakerTypeOK'
<1> SUFFICES ASSUME BreakerTypeOK, [BreakerNext]_breakerVars PROVE BreakerTypeOK'
  OBVIOUS
<1>1. ASSUME NEW k \in Key, Look(k) PROVE BreakerTypeOK'
  <2>1. Looked(k) \in Entry \cup {Missing}
    BY LookedTyped DEF BreakerTypeOK
  <2> QED BY <1>1, <2>1 DEF Look, BreakerTypeOK
<1>2. ASSUME NEW c \in Call, NEW k \in Key, NEW probe \in BOOLEAN, Start(c, k, probe),
             entries' \in [Key -> Entry \cup {Missing}]
      PROVE  BreakerTypeOK'
  <2>1. [key |-> k, ok |-> k \in up, probe |-> probe]
          \in [key : Key \cup {Missing}, ok : BOOLEAN, probe : BOOLEAN]
    OBVIOUS
  <2>2. calls' \in [Call -> [key : Key \cup {Missing}, ok : BOOLEAN, probe : BOOLEAN]]
    BY <1>2, <2>1 DEF Start, BreakerTypeOK
  <2>3. \A d \in Call : calls'[d].key = Missing => calls'[d] = Idle
    BY <1>2, NoneIsNoEntry DEF Start, BreakerTypeOK
  <2> QED BY <1>2, <2>2, <2>3 DEF Start, BreakerTypeOK
<1>3. ASSUME NEW c \in Call, NEW k \in Key, Admit(c, k) PROVE BreakerTypeOK'
  BY <1>2, <1>3 DEF Admit, BreakerTypeOK
<1>4. ASSUME NEW c \in Call, NEW k \in Key, AdmitProbe(c, k) PROVE BreakerTypeOK'
  <2>1. entries[k] # Missing
    BY <1>4 DEF AdmitProbe, State
  <2>2. [Looked(k) EXCEPT !.probing = TRUE] \in Entry
    BY <2>1, LookedTyped DEF Entry
  <2>3. entries' \in [Key -> Entry \cup {Missing}]
    BY <1>4, <2>2 DEF AdmitProbe, BreakerTypeOK
  <2> QED BY <1>2, <1>4, <2>3 DEF AdmitProbe
<1>5. ASSUME NEW c \in Call, NEW n \in 0..Threshold, calls[c] # Idle, End(c),
             Row(calls[c].key, n), entries' \in [Key -> Entry \cup {Missing}],
             UNCHANGED <<up, outages>>
      PROVE  BreakerTypeOK'
  <2>1. calls' \in [Call -> [key : Key \cup {Missing}, ok : BOOLEAN, probe : BOOLEAN]]
        /\ \A d \in Call : calls'[d].key = Missing => calls'[d] = Idle
    BY <1>5 DEF End, Idle, BreakerTypeOK
  <2>2. row' \in [Key -> 0..Threshold]
    BY <1>5, BreakerAssumption DEF Row, BreakerTypeOK
  <2> QED BY <1>5, <2>1, <2>2 DEF BreakerTypeOK
<1>6. ASSUME NEW c \in Call, Succeed(c) PROVE BreakerTypeOK'
  <2>1. calls[c].key \in Key
    BY <1>6, CallHasKey DEF Succeed
  <2>2. entries' \in [Key -> Entry \cup {Missing}]
    BY <1>6, <2>1, EntryOfTyped, AfterTyped, WithEntryKeeps DEF Succeed
  <2>3. 0 \in 0..Threshold
    BY BreakerAssumption
  <2> QED BY <1>5, <1>6, <2>2, <2>3 DEF Succeed
<1>7. ASSUME NEW c \in Call, Fail(c) PROVE BreakerTypeOK'
  <2> DEFINE k == calls[c].key
             n == IF row[k] < Threshold THEN row[k] + 1 ELSE row[k]
  <2>1. k \in Key
    BY <1>7, CallHasKey DEF Fail
  <2>2. entries' \in [Key -> Entry \cup {Missing}]
    BY <1>7, <2>1, EntryOfTyped, AfterTyped, WithEntryKeeps DEF Fail
  <2>3. n \in 0..Threshold
    BY <2>1, BreakerAssumption DEF BreakerTypeOK
  <2> QED BY <1>5, <1>7, <2>2, <2>3 DEF Fail
<1>8. CASE Tick
  <2>1. ASSUME NEW k \in Key, entries[k] # Missing, entries[k].age < ResetAfter
        PROVE  [entries[k] EXCEPT !.age = @ + 1] \in Entry
    BY <2>1, AgedTyped DEF BreakerTypeOK
  <2>2. entries' \in [Key -> Entry \cup {Missing}]
    BY <1>8, <2>1 DEF Tick, BreakerTypeOK, Present
  <2> QED BY <1>8, <2>2 DEF Tick, BreakerTypeOK
<1>9. ASSUME NEW k \in Key, Toggle(k) PROVE BreakerTypeOK'
  BY <1>9, BreakerAssumption DEF Toggle, BreakerTypeOK
<1>10. CASE UNCHANGED breakerVars
  BY <1>10 DEF breakerVars, BreakerTypeOK
<1> QED
  BY <1>1, <1>3, <1>4, <1>6, <1>7, <1>8, <1>9, <1>10 DEF BreakerNext

(* Entries, calls and counts keep their ranges: successes of probes stay   *)
(* short of the number that closes, an age never passes the window.        *)
THEOREM TypeCorrect == BreakerSpec => []BreakerTypeOK
BY InitInv, StepTyped, PTL DEF BreakerSpec

-----------------------------------------------------------------------------
(* A step that replaces entries by ones of the same kind keeps the count.  *)
LEMMA SameKindKeeps ==
  ASSUME Counted, row' = row,
         \A k \in Key : /\ entries'[k] = Missing <=> entries[k] = Missing
                        /\ entries'[k] # Missing /\ entries'[k].state = "closed" =>
                             entries'[k] = entries[k]
  PROVE  Counted'
BY DEF Counted

(* The end of a call keeps it, if it is right for the key of the call.     *)
LEMMA EndKeeps ==
  ASSUME BreakerTypeOK, Counted, NEW k \in Key, NEW entry \in Entry, NEW n,
         WithEntry(k, entry), Row(k, n),
         entry.state = "closed" => n = entry.failures /\ n < Threshold
  PROVE  Counted'
<1>1. /\ entries'[k] = entry
      /\ \A j \in Key \ {k} :
           \/ entries'[j] = entries[j]
           \/ entries'[j] = Missing
  BY WithEntryKeeps
<1>2. row' = [j \in Key |-> IF entries'[j] = Missing THEN 0 ELSE IF j = k THEN n ELSE row[j]]
  BY DEF Row
<1>3. entries'[k] # Missing /\ row'[k] = n
  BY <1>1, <1>2, NoneIsNoEntry
<1>4. \A j \in Key \ {k} : row'[j] = IF entries'[j] = Missing THEN 0 ELSE row[j]
  BY <1>2
<1> QED BY <1>1, <1>3, <1>4 DEF Counted

LEMMA StepCounted == BreakerTypeOK /\ Counted /\ [BreakerNext]_breakerVars => Counted'
<1> SUFFICES ASSUME BreakerTypeOK, Counted, [BreakerNext]_breakerVars PROVE Counted'
  OBVIOUS
<1>1. ASSUME NEW k \in Key, Look(k) PROVE Counted'
  <2>1. entries' = [entries EXCEPT ![k] = Looked(k)] /\ row' = row
    BY <1>1 DEF Look
  <2>2. entries'[k] = Looked(k) /\ \A j \in Key \ {k} : entries'[j] = entries[j]
    BY <2>1 DEF BreakerTypeOK
  <2> QED BY <2>1, <2>2, LookedTyped, SameKindKeeps
<1>2. ASSUME NEW c \in Call, NEW k \in Key, Admit(c, k) PROVE Counted'
  BY <1>2 DEF Admit, Start, Counted
<1>3. ASSUME NEW c \in Call, NEW k \in Key, AdmitProbe(c, k) PROVE Counted'
  <2>1. row' = row /\ entries[k] # Missing /\ Looked(k).state = "half_open"
    BY <1>3 DEF AdmitProbe, Start, State
  <2>2. Looked(k) \in Entry
    BY <2>1, LookedTyped
  <2>3. [Looked(k) EXCEPT !.probing = TRUE] \in Entry
        /\ [Looked(k) EXCEPT !.probing = TRUE].state = "half_open"
    BY <2>1, <2>2 DEF Entry
  <2>4. /\ entries'[k] \in Entry /\ entries'[k].state = "half_open"
        /\ \A j \in Key \ {k} : entries'[j] = entries[j]
    BY <1>3, <2>3 DEF AdmitProbe, BreakerTypeOK
  <2> QED BY <2>1, <2>4, SameKindKeeps, NoneIsNoEntry
<1>4. ASSUME NEW c \in Call, Succeed(c) PROVE Counted'
  <2> DEFINE k == calls[c].key
  <2>1. k \in Key
    BY <1>4, CallHasKey DEF Succeed
  <2>2. WithEntry(k, AfterSuccess(EntryOf(k))) /\ Row(k, 0)
    BY <1>4 DEF Succeed
  <2> HIDE DEF k
  <2> QED BY <2>1, <2>2, EntryOfTyped, AfterTyped, EndKeeps, BreakerAssumption
<1>5. ASSUME NEW c \in Call, Fail(c) PROVE Counted'
  <2> DEFINE k == calls[c].key
             n == IF row[k] < Threshold THEN row[k] + 1 ELSE row[k]
             entry == AfterFailure(EntryOf(k))
  <2>1. k \in Key
    BY <1>5, CallHasKey DEF Fail
  <2>2. WithEntry(k, entry) /\ Row(k, n)
    BY <1>5 DEF Fail
  <2>3. entry \in Entry
    BY <2>1, EntryOfTyped, AfterTyped
  <2>4. ASSUME entry.state = "closed" PROVE n = entry.failures /\ n < Threshold
    <3>1. /\ EntryOf(k).state = "closed" /\ EntryOf(k).failures + 1 < Threshold
          /\ entry.failures = EntryOf(k).failures + 1
      BY <2>1, <2>4, EntryOfTyped, AfterTyped
    <3>2. row[k] = EntryOf(k).failures /\ row[k] < Threshold
      BY <2>1, <3>1, BreakerAssumption DEF Counted, EntryOf, Fresh
    <3> QED BY <3>1, <3>2
  <2> HIDE DEF k, n, entry
  <2> QED BY <2>1, <2>2, <2>3, <2>4, EndKeeps
<1>6. CASE Tick
  <2>1. \A k \in Key : /\ entries'[k] = Missing <=> entries[k] = Missing
                       /\ entries'[k] # Missing /\ entries'[k].state = "closed" =>
                            entries'[k] = entries[k]
    <3> SUFFICES ASSUME NEW k \in Key
                 PROVE  /\ entries'[k] = Missing <=> entries[k] = Missing
                        /\ entries'[k] # Missing /\ entries'[k].state = "closed" =>
                             entries'[k] = entries[k]
      OBVIOUS
    <3>1. CASE entries'[k] = entries[k]
      BY <3>1
    <3>2. CASE /\ entries[k] # Missing /\ entries[k].state = "open" /\ entries[k].age < ResetAfter
               /\ entries'[k] = [entries[k] EXCEPT !.age = @ + 1]
      <4>1. entries[k] \in Entry
        BY <3>2 DEF BreakerTypeOK
      <4>2. entries'[k] \in Entry /\ entries'[k].state = "open"
        BY <3>2, <4>1, AgedTyped
      <4> QED BY <3>2, <4>2, NoneIsNoEntry
    <3>3. entries' = [j \in Key |->
                       IF j \in Present /\ entries[j].state = "open" /\ entries[j].age < ResetAfter
                       THEN [entries[j] EXCEPT !.age = @ + 1] ELSE entries[j]]
      BY <1>6 DEF Tick
    <3> QED BY <3>1, <3>2, <3>3 DEF Present
  <2> QED BY <1>6, <2>1, SameKindKeeps DEF Tick
<1>7. ASSUME NEW k \in Key, Toggle(k) PROVE Counted'
  BY <1>7 DEF Toggle, Counted
<1>8. CASE UNCHANGED breakerVars
  BY <1>8 DEF breakerVars, Counted
<1> QED
  BY <1>1, <1>2, <1>3, <1>4, <1>5, <1>6, <1>7, <1>8 DEF BreakerNext

(* A merchant whose last Threshold calls failed is failed fast or probed,  *)
(* however calls that were admitted before it opened, evictions and        *)
(* outages fall.                                                           *)
THEOREM FailingIsNotServed == BreakerSpec => []FailingIsOpen
<1>1. BreakerTypeOK /\ Counted => FailingIsOpen
  <2> SUFFICES ASSUME BreakerTypeOK, Counted, NEW k \in Key, row[k] = Threshold, Serving(k)
               PROVE  FALSE
    BY DEF FailingIsOpen
  <2>1. entries[k] # Missing
    BY BreakerAssumption DEF Counted
  <2>2. Looked(k) # Missing /\ Looked(k).state = "closed"
    BY <2>1, LookedTyped DEF Serving, State
  <2>3. entries[k].state = "closed"
    BY <2>2, LookedTyped
  <2> QED BY <2>1, <2>3, BreakerAssumption DEF Counted
<1> QED
  BY <1>1, InitInv, StepTyped, StepCounted, PTL DEF BreakerSpec

(* A failing merchant is forgotten only with a success of its own: making  *)
(* room for others never takes its entry.                                  *)
THEOREM FailingIsNotForgotten == BreakerSpec => FailingIsRemembered
<1> DEFINE Remembers ==
      \A k \in Key : row[k] = Threshold /\ row'[k] < Threshold =>
        \E c \in Call : calls[c].key = k /\ calls[c].ok /\ calls'[c] = Idle
<1>1. BreakerTypeOK /\ Counted /\ [BreakerNext]_breakerVars => [Remembers]_breakerVars
  <2> SUFFICES ASSUME BreakerTypeOK, Counted, [BreakerNext]_breakerVars, NEW k \in Key,
                      row[k] = Threshold, row'[k] < Threshold
               PROVE  \E c \in Call : calls[c].key = k /\ calls[c].ok /\ calls'[c] = Idle
    OBVIOUS
  <2>1. row' # row
    BY BreakerAssumption
  <2>2. /\ entries[k] # Missing /\ entries[k].state # "closed"
    BY BreakerAssumption DEF Counted
  <2>3. ASSUME NEW j \in Key, NEW entry \in Entry, NEW n, WithEntry(j, entry), Row(j, n)
        PROVE  k = j /\ row'[k] = n
    <3>1. CASE k = j
      BY <2>3, <3>1, WithEntryKeeps, NoneIsNoEntry DEF Row
    <3>2. CASE k # j
      <4>1. entries'[k] = entries[k]
        BY <2>2, <2>3, <3>2, WithEntryKeeps
      <4>2. row'[k] = row[k]
        BY <2>2, <2>3, <3>2, <4>1 DEF Row
      <4> QED BY <4>2, BreakerAssumption
    <3> QED BY <3>1, <3>2
  <2>4. ASSUME NEW c \in Call, Succeed(c)
        PROVE  calls[c].key = k /\ calls[c].ok /\ calls'[c] = Idle
    <3>1. calls[c].key \in Key
      BY <2>4, CallHasKey DEF Succeed
    <3>2. calls[c].key = k
      BY <2>3, <2>4, <3>1, EntryOfTyped, AfterTyped DEF Succeed
    <3> QED BY <2>4, <3>2 DEF Succeed, End, BreakerTypeOK
  <2>5. ASSUME NEW c \in Call, Fail(c) PROVE FALSE
    <3>1. calls[c].key \in Key
      BY <2>5, CallHasKey DEF Fail
    <3>2. /\ calls[c].key = k
          /\ row'[k] = IF row[calls[c].key] < Threshold THEN row[calls[c].key] + 1
                       ELSE row[calls[c].key]
      BY <2>3, <2>5, <3>1, EntryOfTyped, AfterTyped DEF Fail
    <3> QED BY <3>2, BreakerAssumption
  <2> QED
    BY <2>1, <2>4, <2>5 DEF BreakerNext, breakerVars, Look, Admit, AdmitProbe, Start, Tick, Toggle
<1> QED
  BY <1>1, InitInv, StepTyped, StepCounted, PTL DEF BreakerSpec, FailingIsRemembered
=============================================================================
