----------------------------- MODULE BillingProofs -----------------------------
(***************************************************************************)
(* Proofs about Metering and Subscription: for any plans, sessions, usage  *)
(* lines and subscription rows, and for any subscription ids, listings and *)
(* calls in flight.                                                        *)
(***************************************************************************)
EXTENDS Metering, Subscription, FiniteSetTheorems, TLAPS

(* evaluate only ever says overage of an active plan that has overage, and *)
(* only when its allowance is spent.                                       *)
LEMMA OverageVerdict ==
  ASSUME NEW plan, NEW status, NEW used, NEW charged,
         evaluate(plan, status, used, charged) = "overage"
  PROVE  /\ status = "active"
         /\ ~(used < Included[plan])
         /\ OverageMinor[plan] # 0
  BY DEF evaluate, effectivePlan

(* The tables, the settlements in flight and Shopify's records keep their  *)
(* types in every behaviour.                                               *)
THEOREM TypeCorrect == Spec => []TypeOK
<1>1. Init => TypeOK
  BY MeteringAssumption, PlansAssumption DEF Init, TypeOK, Period
<1>2. TypeOK /\ [Next]_vars => TypeOK'
  <2> SUFFICES ASSUME TypeOK, [Next]_vars PROVE TypeOK'
    OBVIOUS
  <2> USE MeteringAssumption, PlansAssumption DEF TypeOK
  <2>1. ASSUME NEW s \in Session, Settle(s) PROVE TypeOK'
    <3> DEFINE c == [period |-> period, session |-> s]
               x == [conv |-> c, line |-> record.line, stage |-> "asking",
                     minor |-> OverageMinor[record.plan]]
    <3>1. c \in Conversation
      BY DEF Conversation
    <3>2. x \in Settlement
      BY <3>1 DEF Settlement, SubscriptionRow
    <3>3. settling' \in SUBSET Settlement /\ overaged' \in SUBSET Conversation
      BY <2>1, <3>1, <3>2 DEF Settle
    <3> QED
      BY <2>1, <3>1, <3>3 DEF Settle, shopify
  <2>2. ASSUME NEW x \in settling, SettleLocally(x) PROVE TypeOK'
    BY <2>2 DEF SettleLocally, AddOverage, shopify, Settlement, Conversation
  <2>3. ASSUME NEW x \in settling, ShopifyAccepts(x) PROVE TypeOK'
    <3>1. [x EXCEPT !.stage = "accepted"] \in Settlement
      BY DEF Settlement
    <3>2. x.line \in Line /\ x.minor \in Nat /\ x.conv \in Conversation
      BY <2>3 DEF Settlement, ShopifyAccepts
    <3>3. [key |-> usageIdempotencyKey(x), conv |-> x.conv, line |-> x.line,
           minor |-> x.minor] \in UsageRecord
      BY <3>2 DEF UsageRecord, usageIdempotencyKey, Key
    <3> QED
      BY <2>3, <3>1, <3>2, <3>3 DEF ShopifyAccepts, shopify, tables
  <2>4. ASSUME NEW x \in settling, ShopifyRefuses(x) PROVE TypeOK'
    BY <2>4 DEF ShopifyRefuses, tables, shopify, Settlement
  <2>5. ASSUME NEW x \in settling, SettleAnswered(x) PROVE TypeOK'
    BY <2>5 DEF SettleAnswered, AddOverage, shopify, Settlement, Conversation
  <2>6. ASSUME NEW x \in settling, SettleFails(x) PROVE TypeOK'
    BY <2>6 DEF SettleFails, tables, shopify
  <2>7. CASE Crash
    BY <2>7 DEF Crash, tables, shopify
  <2>8. CASE Purge
    BY <2>8 DEF Purge, shopify
  <2>9. CASE RecordChanges
    BY <2>9 DEF RecordChanges, shopify
  <2>10. CASE NewMonth
    BY <2>10 DEF NewMonth, tables, shopify, Period
  <2>11. ASSUME NEW l \in Line, NewCycle(l) PROVE TypeOK'
    BY <2>11 DEF NewCycle, tables
  <2>12. CASE UNCHANGED vars
    BY <2>12 DEF vars
  <2> QED
    BY <2>1, <2>2, <2>3, <2>4, <2>5, <2>6, <2>7, <2>8, <2>9, <2>10, <2>11, <2>12
    DEF Next
<1> QED
  BY <1>1, <1>2, PTL DEF Spec

-----------------------------------------------------------------------------
(* Usage records are told apart by their keys, and a key is its            *)
(* conversation: what makes a conversation chargeable once.                *)
KeyedUsage ==
  /\ \A u \in usage : u.key = u.conv
  /\ \A u, v \in usage : u.key = v.key => u = v

(* No conversation is charged twice at Shopify, for any number of          *)
(* settlements, crashes, lost answers and redactions.                      *)
THEOREM NoDoubleCharge == Spec => []ChargedOnce
<1>1. Init => KeyedUsage
  BY DEF Init, KeyedUsage
<1>2. KeyedUsage /\ [Next]_vars => KeyedUsage'
  <2> SUFFICES ASSUME KeyedUsage, [Next]_vars PROVE KeyedUsage'
    OBVIOUS
  <2>1. ASSUME NEW x \in settling, ShopifyAccepts(x) PROVE KeyedUsage'
    <3>1. CASE UNCHANGED shopify
      BY <3>1 DEF KeyedUsage, shopify
    <3>2. CASE /\ ~\E u \in usage : u.key = usageIdempotencyKey(x)
               /\ usage' = usage \cup {[key |-> usageIdempotencyKey(x), conv |-> x.conv,
                                        line |-> x.line, minor |-> x.minor]}
      BY <3>2 DEF KeyedUsage, usageIdempotencyKey
    <3> QED
      BY <2>1, <3>1, <3>2 DEF ShopifyAccepts
  <2>2. ASSUME UNCHANGED usage PROVE KeyedUsage'
    BY <2>2 DEF KeyedUsage
  <2> QED
    BY <2>1, <2>2 DEF Next, vars, Settle, SettleLocally, ShopifyRefuses, SettleAnswered,
       SettleFails, Crash, Purge, RecordChanges, NewMonth, NewCycle, shopify
<1>3. KeyedUsage => ChargedOnce
  BY DEF KeyedUsage, ChargedOnce
<1> QED
  BY <1>1, <1>2, <1>3, PTL DEF Spec

(* Every conversation on its way to Shopify, or charged there, was judged  *)
(* overage, and every one judged was counted.                              *)
Justified ==
  /\ overaged \subseteq resolved
  /\ purges = 0 => /\ \A x \in settling : x.conv \in overaged
                   /\ \A u \in usage : u.conv \in overaged

LEMMA JustifiedInv == Spec => []Justified
<1>1. Init => Justified
  BY DEF Init, Justified
<1>2. TypeOK /\ Justified /\ [Next]_vars => Justified'
  <2> SUFFICES ASSUME TypeOK, Justified, [Next]_vars PROVE Justified'
    OBVIOUS
  <2> USE DEF Justified
  <2>1. ASSUME NEW s \in Session, Settle(s) PROVE Justified'
    BY <2>1 DEF Settle, shopify
  <2>2. ASSUME NEW x \in settling, SettleLocally(x) PROVE Justified'
    BY <2>2 DEF SettleLocally, shopify
  <2>3. ASSUME NEW x \in settling, ShopifyAccepts(x) PROVE Justified'
    <3>1. [x EXCEPT !.stage = "accepted"].conv = x.conv
      BY DEF TypeOK, Settlement
    <3>2. \A u \in usage' : u \in usage \/ u.conv = x.conv
      BY <2>3 DEF ShopifyAccepts, shopify
    <3>3. \A y \in settling' : y \in settling \/ y.conv = x.conv
      BY <2>3, <3>1 DEF ShopifyAccepts
    <3> QED
      BY <2>3, <3>2, <3>3 DEF ShopifyAccepts, tables
  <2>4. ASSUME NEW x \in settling, ShopifyRefuses(x) PROVE Justified'
    <3>1. [x EXCEPT !.stage = "refused"].conv = x.conv
      BY DEF TypeOK, Settlement
    <3> QED
      BY <2>4, <3>1 DEF ShopifyRefuses, shopify, tables
  <2>5. ASSUME NEW x \in settling, SettleAnswered(x) PROVE Justified'
    BY <2>5 DEF SettleAnswered, shopify
  <2>6. ASSUME NEW x \in settling, SettleFails(x) PROVE Justified'
    BY <2>6 DEF SettleFails, shopify, tables
  <2>7. CASE Crash
    BY <2>7 DEF Crash, tables, shopify
  <2>8. CASE Purge
    BY <2>8, MeteringAssumption DEF Purge, TypeOK
  <2>9. CASE RecordChanges \/ NewMonth
    BY <2>9 DEF RecordChanges, NewMonth, shopify, tables
  <2>10. ASSUME NEW l \in Line, NewCycle(l) PROVE Justified'
    BY <2>10 DEF NewCycle, tables
  <2>11. CASE UNCHANGED vars
    BY <2>11 DEF vars
  <2> QED
    BY <2>1, <2>2, <2>3, <2>4, <2>5, <2>6, <2>7, <2>8, <2>9, <2>10, <2>11 DEF Next
<1> QED
  BY <1>1, <1>2, TypeCorrect, PTL DEF Spec

(* Shopify never holds a charge for a conversation the gateway did not     *)
(* count and judge to be overage.                                          *)
THEOREM NoUnjustifiedCharge == Spec => []ChargesAreJustified
<1>1. Justified => ChargesAreJustified
  BY DEF Justified, ChargesAreJustified
<1> QED
  BY <1>1, JustifiedInv, PTL

-----------------------------------------------------------------------------
(* Adding a conversation to a finite set of them adds one to its own month *)
(* and nothing to the others.                                              *)
LEMMA OneMore ==
  ASSUME NEW S, IsFiniteSet(S), NEW c, c \notin S, NEW p
  PROVE  /\ IsFiniteSet(Of(S, p)) /\ Cardinality(Of(S, p)) \in Nat
         /\ IsFiniteSet(S \cup {c})
         /\ Cardinality(Of(S \cup {c}, p)) =
              Cardinality(Of(S, p)) + (IF c.period = p THEN 1 ELSE 0)
<1>1. IsFiniteSet(Of(S, p))
  BY FS_Subset DEF Of
<1>2. Cardinality(Of(S, p)) \in Nat
  BY <1>1, FS_CardinalityType
<1>3. IsFiniteSet(S \cup {c})
  BY FS_AddElement
<1>4. CASE c.period = p
  <2>1. Of(S \cup {c}, p) = Of(S, p) \cup {c} /\ c \notin Of(S, p)
    BY <1>4 DEF Of
  <2> QED
    BY <1>1, <1>2, <1>3, <1>4, <2>1, FS_AddElement
<1>5. CASE c.period # p
  <2>1. Of(S \cup {c}, p) = Of(S, p)
    BY <1>5 DEF Of
  <2> QED
    BY <1>1, <1>2, <1>3, <1>5, <2>1
<1> QED
  BY <1>4, <1>5

(* The counted conversations are finitely many, include those judged       *)
(* overage, and leave the allowance out.                                   *)
Ordinals ==
  /\ IsFiniteSet(resolved)
  /\ overaged \subseteq resolved
  /\ OverageBeyondAllowance

LEMMA OrdinalsInv == Spec => []Ordinals
<1>1. Init => Ordinals
  <2> SUFFICES ASSUME Init PROVE Ordinals
    OBVIOUS
  <2>1. \A p : Of(overaged, p) = {}
    BY DEF Init, Of
  <2> QED
    BY <2>1, FS_EmptySet DEF Init, Ordinals, OverageBeyondAllowance
<1>2. TypeOK /\ Ordinals /\ [Next]_vars => Ordinals'
  <2> SUFFICES ASSUME TypeOK, Ordinals, [Next]_vars PROVE Ordinals'
    OBVIOUS
  <2>1. ASSUME NEW s \in Session, Settle(s) PROVE Ordinals'
    <3> DEFINE c == [period |-> period, session |-> s]
    <3>1. c \notin resolved /\ resolved' = resolved \cup {c} /\ c.period = period
      BY <2>1 DEF Settle
    <3>5. /\ UNCHANGED <<record, overage>>
          /\ \/ UNCHANGED overaged
             \/ overaged' = overaged \cup {c} /\ VerdictOn(c) = "overage"
      BY <2>1 DEF Settle
    <3> HIDE DEF c
    <3>2. IsFiniteSet(resolved') /\ IsFiniteSet(overaged) /\ c \notin overaged
      BY <3>1, FS_AddElement, FS_Subset DEF Ordinals
    <3>6. ASSUME NEW p
          PROVE  /\ Cardinality(Of(resolved, p)) \in Nat
                 /\ Cardinality(Of(resolved', p)) =
                      Cardinality(Of(resolved, p)) + (IF period = p THEN 1 ELSE 0)
      <4>1. /\ Cardinality(Of(resolved, p)) \in Nat
            /\ Cardinality(Of(resolved \cup {c}, p)) =
                 Cardinality(Of(resolved, p)) + (IF c.period = p THEN 1 ELSE 0)
        BY <3>1, OneMore DEF Ordinals
      <4> QED
        BY <3>1, <4>1
    <3>3. CASE overaged' = overaged
      <4> SUFFICES ASSUME NEW p \in Period, NEW n \in {Included[q] : q \in Plan},
                          IncludedAtLeast(n), Of(overaged, p) # {}
                   PROVE  Cardinality(Of(overaged, p)) + n <= Cardinality(Of(resolved', p))
        BY <3>1, <3>2, <3>3 DEF Ordinals, OverageBeyondAllowance, resolvedCount
      <4>1. Cardinality(Of(overaged, p)) + n <= Cardinality(Of(resolved, p))
        BY DEF Ordinals, OverageBeyondAllowance, resolvedCount
      <4>2. /\ Cardinality(Of(resolved, p)) \in Nat
            /\ \/ Cardinality(Of(resolved', p)) = Cardinality(Of(resolved, p))
               \/ Cardinality(Of(resolved', p)) = Cardinality(Of(resolved, p)) + 1
        BY <3>6
      <4>3. Cardinality(Of(overaged, p)) \in Nat /\ n \in Nat
        BY <3>2, OneMore, PlansAssumption
      <4> QED
        BY <4>1, <4>2, <4>3
    <3>4. CASE overaged' = overaged \cup {c} /\ VerdictOn(c) = "overage"
      <4>1. /\ ~(Cardinality(Of(resolved', period)) - 1 < Included[record.plan])
            /\ OverageMinor[record.plan] # 0
            /\ record.plan \in Plan
        BY <3>1, <3>4, OverageVerdict, MeteringAssumption DEF VerdictOn, TypeOK, SubscriptionRow
      <4> SUFFICES ASSUME NEW p \in Period, NEW n \in {Included[q] : q \in Plan},
                          IncludedAtLeast(n), Of(overaged', p) # {}
                   PROVE  Cardinality(Of(overaged', p)) + n <= Cardinality(Of(resolved', p))
        BY <3>1, <3>2, <3>4 DEF Ordinals, OverageBeyondAllowance, resolvedCount
      <4>2. /\ Cardinality(Of(resolved, p)) \in Nat
            /\ Cardinality(Of(resolved', p)) =
                 Cardinality(Of(resolved, p)) + (IF period = p THEN 1 ELSE 0)
        BY <3>6
      <4>3. /\ Cardinality(Of(overaged, p)) \in Nat
            /\ Cardinality(Of(overaged', p)) =
                 Cardinality(Of(overaged, p)) + (IF period = p THEN 1 ELSE 0)
        <5>1. /\ Cardinality(Of(overaged, p)) \in Nat
              /\ Cardinality(Of(overaged \cup {c}, p)) =
                   Cardinality(Of(overaged, p)) + (IF c.period = p THEN 1 ELSE 0)
          BY <3>2, OneMore
        <5> QED
          BY <3>1, <3>4, <5>1
      <4>4. n \in Nat /\ n <= Included[record.plan] /\ Included[record.plan] \in Nat
        BY <4>1, PlansAssumption DEF IncludedAtLeast
      <4>5. CASE Of(overaged, p) # {}
        BY <4>2, <4>3, <4>4, <4>5 DEF Ordinals, OverageBeyondAllowance, resolvedCount
      <4>6. CASE Of(overaged, p) = {}
        <5>1. Cardinality(Of(overaged, p)) = 0
          BY <4>6, FS_EmptySet
        <5>2. period = p
          BY <3>1, <3>4, <4>6 DEF Of
        <5> QED
          BY <4>1, <4>2, <4>3, <4>4, <5>1, <5>2
      <4> QED
        BY <4>5, <4>6
    <3> QED
      BY <3>5, <3>3, <3>4
  <2>2. CASE Purge
    <3>1. resolved' = {} /\ overaged' = {} /\ \A p : Of({}, p) = {}
      BY <2>2 DEF Purge, Of
    <3> QED
      BY <3>1, FS_EmptySet DEF Ordinals, OverageBeyondAllowance
  <2>3. CASE UNCHANGED <<resolved, overaged>>
    BY <2>3 DEF Ordinals, OverageBeyondAllowance, resolvedCount
  <2> QED
    BY <2>1, <2>2, <2>3 DEF Next, vars, SettleLocally, ShopifyAccepts, ShopifyRefuses,
       SettleAnswered, SettleFails, Crash, RecordChanges, NewMonth, NewCycle, tables
<1> QED
  BY <1>1, <1>2, TypeCorrect, PTL DEF Spec

(* In any month, overage is judged only for conversations beyond the       *)
(* smallest allowance a plan with overage has, whatever plan changes and   *)
(* concurrent settlements there are.                                       *)
THEOREM OnlyBeyondAllowance == Spec => []OverageBeyondAllowance
<1>1. Ordinals => OverageBeyondAllowance
  BY DEF Ordinals
<1> QED
  BY <1>1, OrdinalsInv, PTL

-----------------------------------------------------------------------------
Pending(S, p) == {x \in S : x.conv.period = p}

LEMMA PendingFinite ==
  ASSUME NEW S, IsFiniteSet(S), NEW p
  PROVE  IsFiniteSet(Pending(S, p)) /\ Cardinality(Pending(S, p)) \in Nat
<1>1. IsFiniteSet(Pending(S, p))
  BY FS_Subset DEF Pending
<1> QED
  BY <1>1, FS_CardinalityType

(* A settlement that begins is one more pending in its month.              *)
LEMMA PendingAdded ==
  ASSUME NEW S, IsFiniteSet(S), NEW x, x \notin S, NEW p
  PROVE  /\ IsFiniteSet(S \cup {x})
         /\ Cardinality(Pending(S \cup {x}, p)) =
              Cardinality(Pending(S, p)) + (IF x.conv.period = p THEN 1 ELSE 0)
<1>1. IsFiniteSet(S \cup {x}) /\ IsFiniteSet(Pending(S, p)) /\ Cardinality(Pending(S, p)) \in Nat
  BY FS_AddElement, PendingFinite
<1>2. CASE x.conv.period = p
  <2>1. Pending(S \cup {x}, p) = Pending(S, p) \cup {x} /\ x \notin Pending(S, p)
    BY <1>2 DEF Pending
  <2> QED
    BY <1>1, <1>2, <2>1, FS_AddElement
<1>3. CASE x.conv.period # p
  <2>1. Pending(S \cup {x}, p) = Pending(S, p)
    BY <1>3 DEF Pending
  <2> QED
    BY <1>1, <1>3, <2>1
<1> QED
  BY <1>2, <1>3

(* One that ends is one less.                                              *)
LEMMA PendingRemoved ==
  ASSUME NEW S, IsFiniteSet(S), NEW x, x \in S, NEW p
  PROVE  /\ IsFiniteSet(S \ {x})
         /\ Cardinality(Pending(S, p)) =
              Cardinality(Pending(S \ {x}, p)) + (IF x.conv.period = p THEN 1 ELSE 0)
<1>1. IsFiniteSet(S \ {x}) /\ x \notin S \ {x} /\ (S \ {x}) \cup {x} = S
  BY FS_RemoveElement
<1>2. Cardinality(Pending((S \ {x}) \cup {x}, p)) =
        Cardinality(Pending(S \ {x}, p)) + (IF x.conv.period = p THEN 1 ELSE 0)
  BY <1>1, PendingAdded
<1> QED
  BY <1>1, <1>2

LEMMA OneMoreTimes ==
  ASSUME NEW m \in Nat, NEW d \in Nat
  PROVE  m * d \in Nat /\ m * (d + 1) = m * d + m
  OBVIOUS

LEMMA TimesMonotone ==
  ASSUME NEW m \in Nat, NEW d \in Nat, NEW e \in Nat, d <= e
  PROVE  m * d \in Nat /\ m * e \in Nat /\ m * d <= m * e
  OBVIOUS

(* Judged conversations whose settlement is over, in month p.              *)
Ended(p) == Cardinality(Of(overaged, p)) - Cardinality(Pending(settling, p))

(* The ledger of a month holds no more than the judged conversations whose *)
(* settlement is over can have added.                                      *)
Ledger ==
  purges = 0 =>
    /\ IsFiniteSet(settling)
    /\ \A p \in Period, m \in {OverageMinor[q] : q \in Plan} :
         ChargesAtMost(m) =>
           /\ \A x \in settling : x.minor <= m
           /\ Ended(p) \in Nat
           /\ overage[p] <= m * Ended(p)

LEMMA SettleKeepsLedger ==
  ASSUME TypeOK, Justified, Ordinals, Ledger, NEW s \in Session, Settle(s)
  PROVE  Ledger'
<1> SUFFICES ASSUME purges = 0 PROVE Ledger'
  BY DEF Settle, Ledger
<1> DEFINE c == [period |-> period, session |-> s]
           x == [conv |-> c, line |-> record.line, stage |-> "asking",
                 minor |-> OverageMinor[record.plan]]
<1>1. CASE UNCHANGED <<settling, overaged>>
  BY <1>1 DEF Settle, Ledger, Ended
<1>2. CASE settling' = settling \cup {x} /\ overaged' = overaged \cup {c}
  <2>1. c \notin overaged /\ IsFiniteSet(overaged) /\ UNCHANGED <<overage, purges>>
    BY FS_Subset DEF Settle, Ordinals
  <2>2. x \notin settling /\ x.conv = c /\ IsFiniteSet(settling)
    BY <2>1 DEF Justified, Ledger
  <2>3. x.minor = OverageMinor[record.plan] /\ record.plan \in Plan
    BY MeteringAssumption DEF TypeOK, SubscriptionRow
  <2> HIDE DEF c, x
  <2>4. ASSUME NEW p PROVE Ended(p)' = Ended(p) /\ IsFiniteSet(settling \cup {x})
    <3>1. /\ Cardinality(Of(overaged, p)) \in Nat
          /\ Cardinality(Of(overaged \cup {c}, p)) =
               Cardinality(Of(overaged, p)) + (IF c.period = p THEN 1 ELSE 0)
      BY <2>1, OneMore
    <3>2. /\ Cardinality(Pending(settling, p)) \in Nat
          /\ IsFiniteSet(settling \cup {x})
          /\ Cardinality(Pending(settling \cup {x}, p)) =
               Cardinality(Pending(settling, p)) + (IF x.conv.period = p THEN 1 ELSE 0)
      BY <2>2, PendingAdded, PendingFinite
    <3> QED
      BY <1>2, <2>2, <3>1, <3>2 DEF Ended
  <2>5. IsFiniteSet(settling') /\ \A p : Ended(p)' = Ended(p)
    BY <1>2, <2>4
  <2>6. ASSUME NEW m \in {OverageMinor[q] : q \in Plan}, ChargesAtMost(m),
               NEW y \in settling'
        PROVE  y.minor <= m
    BY <1>2, <2>3, <2>6 DEF Ledger, ChargesAtMost, TypeOK
  <2> QED
    BY <2>1, <2>5, <2>6 DEF Ledger, ChargesAtMost
<1> QED
  BY <1>1, <1>2 DEF Settle

(* A settlement that ends adds at most its own charge.                     *)
LEMMA EndKeepsLedger ==
  ASSUME TypeOK, Ordinals, Ledger, NEW x \in settling, settling' = settling \ {x},
         UNCHANGED <<overaged, purges>>,
         \/ UNCHANGED overage
         \/ overage' = [overage EXCEPT ![x.conv.period] = @ + x.minor]
  PROVE  Ledger'
<1> SUFFICES ASSUME purges = 0 PROVE Ledger'
  BY DEF Ledger
<1>1. IsFiniteSet(settling) /\ IsFiniteSet(overaged)
  BY FS_Subset DEF Ledger, Ordinals
<1>2. ASSUME NEW p
      PROVE  IsFiniteSet(settling \ {x}) /\
             Ended(p)' = Ended(p) + (IF x.conv.period = p THEN 1 ELSE 0)
  <2>1. /\ IsFiniteSet(settling \ {x})
        /\ Cardinality(Pending(settling, p)) =
             Cardinality(Pending(settling \ {x}, p)) + (IF x.conv.period = p THEN 1 ELSE 0)
    BY ONLY <1>1, x \in settling, PendingRemoved
  <2>2. Cardinality(Pending(settling \ {x}, p)) \in Nat
    BY <2>1, PendingFinite
  <2>3. Cardinality(Of(overaged, p)) \in Nat
    <3>1. IsFiniteSet(Of(overaged, p))
      BY <1>1, FS_Subset DEF Of
    <3> QED
      BY <3>1, FS_CardinalityType
  <2> QED
    BY <2>1, <2>2, <2>3 DEF Ended
<1>3. x.minor \in Nat /\ x.conv.period \in Period
  BY DEF TypeOK, Settlement, Conversation
<1>4. ASSUME NEW p \in Period, NEW m \in {OverageMinor[q] : q \in Plan}, ChargesAtMost(m)
      PROVE  Ended(p)' \in Nat /\ overage'[p] <= m * Ended(p)'
  <2>1. m \in Nat /\ Ended(p) \in Nat /\ overage[p] <= m * Ended(p) /\ x.minor <= m
    BY <1>4, PlansAssumption DEF Ledger
  <2>2. m * Ended(p) \in Nat /\ m * (Ended(p) + 1) = m * Ended(p) + m
    BY <2>1, OneMoreTimes
  <2>3. overage[p] \in Nat /\ overage'[p] \in Nat
        /\ overage'[p] <= overage[p] + (IF x.conv.period = p THEN x.minor ELSE 0)
    BY <1>3 DEF TypeOK
  <2> QED
    BY <1>2, <1>3, <2>1, <2>2, <2>3
<1>5. \A p : Ended(p)' = Ended(p) + (IF x.conv.period = p THEN 1 ELSE 0)
  BY <1>2
<1> QED
  BY <1>2, <1>4 DEF Ledger, ChargesAtMost

(* A settlement that moves on stays in its month and keeps its charge.     *)
LEMMA MoveKeepsLedger ==
  ASSUME TypeOK, Justified, Ordinals, Ledger, NEW x \in settling, NEW y,
         y.conv = x.conv, y.minor = x.minor,
         settling' = (settling \ {x}) \cup {y}, UNCHANGED <<overaged, purges, overage>>
  PROVE  Ledger'
<1> SUFFICES ASSUME purges = 0 PROVE Ledger'
  BY DEF Ledger
<1>1. IsFiniteSet(settling) /\ IsFiniteSet(overaged)
  BY FS_Subset DEF Ledger, Ordinals
<1>2. ASSUME NEW p
      PROVE  IsFiniteSet(settling') /\ (Ended(p)' = Ended(p) \/ Ended(p)' = Ended(p) + 1)
  <2>1. /\ IsFiniteSet(settling \ {x})
        /\ Cardinality(Pending(settling, p)) =
             Cardinality(Pending(settling \ {x}, p)) + (IF x.conv.period = p THEN 1 ELSE 0)
    BY <1>1, PendingRemoved
  <2>2. Cardinality(Pending(settling \ {x}, p)) \in Nat
    BY <2>1, PendingFinite
  <2>3. Cardinality(Of(overaged, p)) \in Nat
    <3>1. IsFiniteSet(Of(overaged, p))
      BY <1>1, FS_Subset DEF Of
    <3> QED
      BY <3>1, FS_CardinalityType
  <2>6. Ended(p)' = Cardinality(Of(overaged, p)) - Cardinality(Pending(settling', p))
    BY DEF Ended
  <2>4. CASE y \in settling \ {x}
    <3>1. settling' = settling \ {x}
      BY <2>4
    <3>2. Ended(p)' = Cardinality(Of(overaged, p)) - Cardinality(Pending(settling \ {x}, p))
      BY <2>6, <3>1
    <3>3. IsFiniteSet(settling')
      BY <2>1, <3>1
    <3> QED
      BY ONLY <2>1, <2>2, <2>3, <3>2, <3>3 DEF Ended
  <2>5. CASE y \notin settling \ {x}
    <3>1. /\ IsFiniteSet((settling \ {x}) \cup {y})
          /\ Cardinality(Pending((settling \ {x}) \cup {y}, p)) =
               Cardinality(Pending(settling \ {x}, p)) + (IF y.conv.period = p THEN 1 ELSE 0)
      BY ONLY <2>1, <2>5, PendingAdded
    <3>2. Ended(p)' = Cardinality(Of(overaged, p))
                      - Cardinality(Pending((settling \ {x}) \cup {y}, p))
      BY <2>6
    <3> QED
      BY <2>1, <2>2, <2>3, <3>1, <3>2 DEF Ended
  <2> QED
    BY <2>4, <2>5
<1>3. ASSUME NEW p \in Period, NEW m \in {OverageMinor[q] : q \in Plan}, ChargesAtMost(m)
      PROVE  Ended(p)' \in Nat /\ overage'[p] <= m * Ended(p)'
  <2>1. m \in Nat /\ Ended(p) \in Nat /\ overage[p] <= m * Ended(p) /\ overage[p] \in Nat
    BY <1>3, PlansAssumption DEF Ledger, TypeOK
  <2>2. m * Ended(p) \in Nat /\ m * (Ended(p) + 1) = m * Ended(p) + m
    BY <2>1, OneMoreTimes
  <2>3. Ended(p)' = Ended(p) \/ Ended(p)' = Ended(p) + 1
    BY <1>2
  <2> QED
    BY <2>1, <2>2, <2>3
<1>4. IsFiniteSet(settling')
  BY <1>2
<1>5. ASSUME NEW m \in {OverageMinor[q] : q \in Plan}, ChargesAtMost(m), NEW z \in settling'
      PROVE  z.minor <= m
  BY <1>5 DEF Ledger, TypeOK
<1> QED
  BY <1>3, <1>4, <1>5 DEF Ledger, ChargesAtMost

(* However settlements overlap, crash or lose their answers, a month's     *)
(* ledger never shows more than the conversations judged overage cost.     *)
THEOREM LedgerSound == Spec => []LedgerNeverOverstates
<1>1. Init => Ledger
  <2> SUFFICES ASSUME Init PROVE Ledger
    OBVIOUS
  <2>1. \A p : Pending(settling, p) = {} /\ Of(overaged, p) = {}
    BY DEF Init, Pending, Of
  <2>2. \A p : Ended(p) = 0
    BY <2>1, FS_EmptySet DEF Ended
  <2>3. \A m \in {OverageMinor[q] : q \in Plan} : m * 0 = 0
    BY PlansAssumption
  <2> QED
    BY <2>2, <2>3, FS_EmptySet DEF Init, Ledger
<1>2. TypeOK /\ Justified /\ Ordinals /\ Ledger /\ [Next]_vars => Ledger'
  <2> SUFFICES ASSUME TypeOK, Justified, Ordinals, Ledger, [Next]_vars PROVE Ledger'
    OBVIOUS
  <2>1. ASSUME NEW s \in Session, Settle(s) PROVE Ledger'
    BY <2>1, SettleKeepsLedger
  <2>2. ASSUME NEW x \in settling, SettleLocally(x) PROVE Ledger'
    BY <2>2, EndKeepsLedger DEF SettleLocally, AddOverage
  <2>3. ASSUME NEW x \in settling, ShopifyAccepts(x) PROVE Ledger'
    <3>1. [x EXCEPT !.stage = "accepted"].conv = x.conv
          /\ [x EXCEPT !.stage = "accepted"].minor = x.minor
      BY DEF TypeOK, Settlement
    <3> QED
      BY <2>3, <3>1, MoveKeepsLedger DEF ShopifyAccepts, tables
  <2>4. ASSUME NEW x \in settling, ShopifyRefuses(x) PROVE Ledger'
    <3>1. [x EXCEPT !.stage = "refused"].conv = x.conv
          /\ [x EXCEPT !.stage = "refused"].minor = x.minor
      BY DEF TypeOK, Settlement
    <3> QED
      BY <2>4, <3>1, MoveKeepsLedger DEF ShopifyRefuses, tables
  <2>5. ASSUME NEW x \in settling, SettleAnswered(x) PROVE Ledger'
    BY <2>5, EndKeepsLedger DEF SettleAnswered, AddOverage
  <2>6. ASSUME NEW x \in settling, SettleFails(x) PROVE Ledger'
    BY <2>6, EndKeepsLedger DEF SettleFails, tables
  <2>7. CASE Crash
    <3> SUFFICES ASSUME purges = 0 PROVE Ledger'
      BY <2>7 DEF Crash, Ledger
    <3>1. settling' = {} /\ UNCHANGED <<overage, overaged, purges>>
      BY <2>7 DEF Crash, tables
    <3>2. IsFiniteSet(settling) /\ IsFiniteSet(overaged)
      BY FS_Subset DEF Ledger, Ordinals
    <3>3. ASSUME NEW p \in Period, NEW m \in {OverageMinor[q] : q \in Plan}, ChargesAtMost(m)
          PROVE  Ended(p)' \in Nat /\ overage'[p] <= m * Ended(p)'
      <4>1. Cardinality(Of(overaged, p)) \in Nat
        <5>1. IsFiniteSet(Of(overaged, p))
          BY <3>2, FS_Subset DEF Of
        <5> QED
          BY <5>1, FS_CardinalityType
      <4>2. Pending({}, p) = {} /\ Cardinality(Pending(settling, p)) \in Nat
        BY <3>2, PendingFinite DEF Pending
      <4>3. Ended(p)' = Cardinality(Of(overaged, p)) /\ Ended(p) <= Ended(p)'
        BY <3>1, <4>1, <4>2, FS_EmptySet DEF Ended
      <4>4. m \in Nat /\ Ended(p) \in Nat /\ overage[p] <= m * Ended(p) /\ overage[p] \in Nat
        BY <3>3, PlansAssumption DEF Ledger, TypeOK
      <4>5. m * Ended(p) <= m * Ended(p)'
        BY <4>1, <4>3, <4>4, TimesMonotone
      <4> QED
        BY <3>1, <4>1, <4>3, <4>4, <4>5
    <3> QED
      BY <3>1, <3>3, FS_EmptySet DEF Ledger, ChargesAtMost
  <2>8. CASE Purge
    BY <2>8, MeteringAssumption DEF Purge, Ledger, TypeOK
  <2>9. CASE UNCHANGED <<settling, overage, overaged, purges>>
    BY <2>9 DEF Ledger, Ended
  <2> QED
    BY <2>1, <2>2, <2>3, <2>4, <2>5, <2>6, <2>7, <2>8, <2>9
    DEF Next, vars, RecordChanges, NewMonth, NewCycle, tables
<1>3. TypeOK /\ Ordinals /\ Ledger => LedgerNeverOverstates
  <2> SUFFICES ASSUME TypeOK, Ordinals, Ledger, purges = 0,
                      NEW p \in Period, NEW m \in {OverageMinor[q] : q \in Plan}, ChargesAtMost(m)
               PROVE  overage[p] <= m * Cardinality(Of(overaged, p))
    BY DEF LedgerNeverOverstates
  <2>1. IsFiniteSet(settling) /\ IsFiniteSet(overaged) /\ IsFiniteSet(Of(overaged, p))
    BY FS_Subset DEF Ledger, Ordinals, Of
  <2>2. Cardinality(Of(overaged, p)) \in Nat /\ Cardinality(Pending(settling, p)) \in Nat
    BY <2>1, FS_CardinalityType, PendingFinite
  <2>3. m \in Nat /\ Ended(p) \in Nat /\ overage[p] <= m * Ended(p) /\ overage[p] \in Nat
    BY PlansAssumption DEF Ledger, TypeOK
  <2>4. m * Ended(p) <= m * Cardinality(Of(overaged, p))
    BY <2>2, <2>3, TimesMonotone DEF Ended
  <2> QED
    BY <2>2, <2>3, <2>4
<1>4. Spec => []Justified
  BY JustifiedInv
<1>5. Spec => []Ordinals
  BY OrdinalsInv
<1> QED
  BY <1>1, <1>2, <1>3, <1>4, <1>5, TypeCorrect, PTL DEF Spec

-----------------------------------------------------------------------------
(* Subscription: what counts of it, for any ids, listings and calls.      *)

(* Who asks to cancel asks about a subscription, and who was told of a new *)
(* one knows it.                                                           *)
Addressed(x) ==
  (x.kind = "cancel" /\ x.stage = "asked") \/ (x.kind = "upgrade" /\ x.stage = "answered")
    => x.sub \in SubId

(* Only under manual pricing is a subscription asked for, one on sale.     *)
ForSale(x) == x.kind = "upgrade" => ~managed /\ x.listing \in Listing[managed]

(* Every subscription there is was on sale.                                *)
Sold(s) == subs[s].listing \in Listing[managed]

Typed ==
  /\ SubscriptionTypeOK
  /\ \A o \in Op : Addressed(ops[o]) /\ ForSale(ops[o])
  /\ \A s \in SubId : subs[s].status = "none" \/ Sold(s)

(* A call in flight has a kind; an answer leaves the kind as it was.       *)
LEMMA OpsHaveKinds ==
  /\ Idle \in OpState /\ Idle.kind = "idle" /\ Reconcile \in OpState
  /\ Reconcile.kind = "reconcile" /\ Reconcile.stage = "asked"
  /\ \A x \in OpState : x # Idle => x.kind \in {"reconcile", "cancel", "upgrade"}
  BY DEF OpState, Idle, Reconcile

LEMMA AnsweredIsAnOp ==
  ASSUME NEW x \in OpState, x.kind # "idle", NEW s \in SubId \cup {None}
  PROVE  LET y == [x EXCEPT !.stage = "answered", !.sub = s]
         IN  /\ y \in OpState /\ y.kind = x.kind /\ y.stage = "answered" /\ y.sub = s
             /\ x.kind = "upgrade" => y.listing = x.listing
<1>1. CASE x \in [kind : {"reconcile"}, stage : {"asked", "answered"}, sub : SubId \cup {None}]
  BY <1>1 DEF OpState
<1>2. CASE x \in [kind : {"cancel"}, stage : {"asked", "answered"}, sub : SubId \cup {None}]
  BY <1>2 DEF OpState
<1>3. CASE x \in [kind : {"upgrade"}, stage : {"asked", "answered"}, sub : SubId \cup {None},
                  listing : Listed]
  BY <1>3 DEF OpState
<1> QED BY <1>1, <1>2, <1>3 DEF OpState, Idle

(* What a listing is resolved to, if anything, is the plan it sells.       *)
LEMMA ResolvedIsSold ==
  ASSUME NEW m \in BOOLEAN, NEW l \in Listing[m]
  PROVE  /\ l.plan \in Plan \ {Free}
         /\ planByName(l.name) \in {l.plan, None} /\ (~m => planByName(l.name) = l.plan)
         /\ resolvePlan(l.name, l.price) \in {l.plan, None}
         /\ ~m => resolvePlan(l.name, l.price) = l.plan
<1>1. /\ l.plan \in Plan \ {Free} /\ (l.name \in Plan => l.name = l.plan)
      /\ ~m => l.name = l.plan
      /\ m => l.name \in Plan \/ l.price = PriceMinor[l.plan]
  BY SubscriptionAssumption
<1>2. /\ planByName(l.name) \in {l.plan, None} /\ (~m => planByName(l.name) = l.plan)
  BY <1>1 DEF planByName
<1>3. CASE l.name \in Plan
  <2>1. resolvePlan(l.name, l.price) = l.plan
    BY <1>1, <1>3 DEF resolvePlan
  <2> QED BY <1>1, <1>2, <2>1
<1>4. CASE l.name \notin Plan /\ m
  <2>1. ASSUME Cardinality({p \in Plan : PriceMinor[p] = l.price}) = 1
        PROVE  (CHOOSE p \in Plan : PriceMinor[p] = l.price) = l.plan
    <3>1. l.plan \in {p \in Plan : PriceMinor[p] = l.price}
      BY <1>1, <1>4
    <3> DEFINE priced == {p \in Plan : PriceMinor[p] = l.price}
    <3>2. IsFiniteSet(priced)
      <4>1. priced \in SUBSET Plan /\ IsFiniteSet(Plan)
        BY SubscriptionAssumption
      <4> QED BY <4>1, FS_Subset
    <3>3. PICK x : priced = {x}
      BY <2>1, <3>2, FS_Singleton
    <3>4. \A p \in Plan : PriceMinor[p] = l.price => p = l.plan
      BY <3>1, <3>3
    <3> QED BY <3>1, <3>4
  <2>2. resolvePlan(l.name, l.price) \in {l.plan, None}
    BY <1>4, <2>1 DEF resolvePlan
  <2> QED BY <1>1, <1>2, <1>4, <2>2
<1>5. l.name \in Plan \/ m
  BY <1>1
<1> QED BY <1>3, <1>4, <1>5

(* What the row and a subscription of Shopify's are made of.               *)
RowType == [sub : SubId \cup {None}, plan : Plan, status : SubscriptionStatus,
            line : SubId \cup {None}]
SubType == [listing : Listed \cup {None}, status : ShopifyStatus, linked : BOOLEAN]

(* A plan is resolved to one of the plans, or to none.                     *)
LEMMA ResolvedIsAPlan ==
  ASSUME NEW name, NEW price
  PROVE  resolvePlan(name, price) \in Plan \cup {None}
<1> DEFINE priced == {p \in Plan : PriceMinor[p] = price}
<1>1. ASSUME Cardinality(priced) = 1
      PROVE  (CHOOSE p \in Plan : PriceMinor[p] = price) \in Plan
  <2>1. priced \in SUBSET Plan /\ IsFiniteSet(Plan)
    BY SubscriptionAssumption
  <2>2. IsFiniteSet(priced)
    BY <2>1, FS_Subset
  <2> HIDE DEF priced
  <2>3. PICK x : priced = {x}
    BY <1>1, <2>2, FS_Singleton
  <2> QED BY <2>3 DEF priced
<1> QED BY <1>1 DEF resolvePlan

LEMMA FreeIsARow == FreeRecord \in RowType /\ [FreeRecord EXCEPT !.status = "cancelled"] \in RowType
  BY PlansAssumption DEF FreeRecord, RowType, SubscriptionStatus

LEMMA StatusIsOurs == \A st \in ShopifyStatus : normalizeStatus(st) \in SubscriptionStatus
  BY DEF normalizeStatus, SubscriptionStatus, ShopifyStatus

LEMMA ListingsAreListed ==
  ASSUME NEW m \in BOOLEAN, NEW l \in Listing[m]
  PROVE  l \in Listed /\ l # None
  <1>1. m = TRUE \/ m = FALSE
    OBVIOUS
  <1> QED BY <1>1, SubscriptionAssumption DEF Listed

LEMMA SubscriptionTypedStart == SubscriptionInit => Typed
<1> SUFFICES ASSUME SubscriptionInit PROVE Typed
  OBVIOUS
<1>1. NoSub \in SubType
  BY DEF NoSub, SubType, ShopifyStatus
<1>2. Addressed(Idle) /\ ForSale(Idle)
  BY DEF Addressed, ForSale, Idle
<1> QED BY <1>1, <1>2, FreeIsARow, OpsHaveKinds, SubscriptionAssumption
        DEF SubscriptionInit, Typed, SubscriptionTypeOK, RowType, SubType, ForSale, NoSub

LEMMA SubscriptionTypedStep == Typed /\ [SubscriptionNext]_subscriptionVars => Typed'
<1> SUFFICES ASSUME Typed, [SubscriptionNext]_subscriptionVars PROVE Typed'
  OBVIOUS
<1>a. /\ managed \in BOOLEAN /\ row \in RowType /\ subs \in [SubId -> SubType]
      /\ hooks \in [SubId \X ShopifyStatus -> 0..MaxCopies]
      /\ ops \in [Op -> OpState] /\ \A o \in Op : Addressed(ops[o]) /\ ForSale(ops[o])
      /\ installed \in {"yes", "no", "redacted"} /\ approved \in SUBSET (Plan \ {Free})
      /\ changes \in 0..MaxChanges /\ clicks \in 0..MaxClicks
      /\ \A s \in SubId : subs[s].status = "none" \/ Sold(s)
  BY DEF Typed, SubscriptionTypeOK, RowType, SubType
<1>b. /\ MaxCopies \in Nat /\ MaxChanges \in Nat /\ MaxClicks \in Nat /\ None \notin SubId
  BY SubscriptionAssumption
<1> USE <1>b
<1>0. managed' = managed
  BY DEF SubscriptionNext, subscriptionVars, OpenAdmin, FetchActive, FinishReconcile, ClickUpgrade,
         ShopifyCreates, FinishUpgrade, ClickCancel, ShopifyCancels, FinishCancel, OpFails, Restart,
         ApplyWebhook, LoseWebhook, Redact, Approve, Pick, Lapse, Uninstall, Reinstall
<1>c. ASSUME NEW o \in Op, NEW x \in OpState, Addressed(x), ForSale(x), ops' = [ops EXCEPT ![o] = x]
      PROVE  ops' \in [Op -> OpState] /\ \A p \in Op : Addressed(ops'[p]) /\ ForSale(ops[p])'
  <2>1. \A p \in Op : ops'[p] = IF p = o THEN x ELSE ops[p]
    BY <1>a, <1>c
  <2> QED BY <1>0, <1>a, <1>c, <2>1 DEF ForSale
<1>d. ASSUME NEW o \in Op, End(o)
      PROVE  ops' \in [Op -> OpState] /\ \A p \in Op : Addressed(ops'[p]) /\ ForSale(ops[p])'
  <2>1. Addressed(Idle) /\ ForSale(Idle)
    BY OpsHaveKinds DEF Addressed, ForSale
  <2> QED BY <1>c, <1>d, <2>1, OpsHaveKinds DEF End
<1>e. ASSUME NEW o \in Op, Begin(o, Reconcile)
      PROVE  ops' \in [Op -> OpState] /\ \A p \in Op : Addressed(ops'[p]) /\ ForSale(ops[p])'
  <2>1. Addressed(Reconcile) /\ ForSale(Reconcile)
    BY OpsHaveKinds DEF Addressed, ForSale
  <2> QED BY <1>c, <1>e, <2>1, OpsHaveKinds DEF Begin
<1>f. ASSUME NEW o \in Op, NEW s \in SubId \cup {None}, Answer(o, s), ops[o].kind # "idle",
             ops[o].kind = "upgrade" => s \in SubId
      PROVE  ops' \in [Op -> OpState] /\ \A p \in Op : Addressed(ops'[p]) /\ ForSale(ops[p])'
  <2> DEFINE y == [ops[o] EXCEPT !.stage = "answered", !.sub = s]
  <2>1. ops[o] \in OpState
    BY <1>a
  <2>2. /\ y \in OpState /\ y.kind = ops[o].kind /\ y.stage = "answered" /\ y.sub = s
    BY <1>f, <2>1, AnsweredIsAnOp
  <2>5. ops[o].kind = "upgrade" => y.listing = ops[o].listing
    BY <1>f, <2>1, AnsweredIsAnOp
  <2>3. ops' = [ops EXCEPT ![o] = y]
    BY <1>a, <1>f DEF Answer
  <2> HIDE DEF y
  <2>4. Addressed(y) /\ ForSale(y)
    BY <1>a, <1>f, <2>2, <2>5 DEF Addressed, ForSale
  <2> QED BY <1>c, <2>2, <2>3, <2>4
<1>g. ASSUME NEW event, Announce(event)
      PROVE  hooks' \in [SubId \X ShopifyStatus -> 0..MaxCopies]
  <2>1. MaxCopies \in 0..MaxCopies
    OBVIOUS
  <2> QED BY <1>a, <1>g, <2>1 DEF Announce
<1>h. ASSUME NEW s \in SubId, NEW l \in Listing[managed], Activates(s, l)
      PROVE  /\ subs' \in [SubId -> SubType] /\ \A t \in SubId : subs'[t].status = "none" \/ Sold(t)'
             /\ hooks' \in [SubId \X ShopifyStatus -> 0..MaxCopies]
             /\ approved' \in SUBSET (Plan \ {Free})
  <2>1. [listing |-> l, status |-> "active", linked |-> TRUE] \in SubType
    BY <1>a, ListingsAreListed DEF SubType, ShopifyStatus
  <2>2. \A t \in SubId : [subs[t] EXCEPT !.status = "cancelled"] \in SubType
    BY <1>a DEF SubType, ShopifyStatus
  <2>3. subs' \in [SubId -> SubType]
    BY <1>a, <1>h, <2>1, <2>2 DEF Activates
  <2>6. \A t \in SubId : subs'[t].status = "none" \/ Sold(t)'
    <3> SUFFICES ASSUME NEW t \in SubId PROVE subs'[t].status = "none" \/ subs'[t].listing \in Listing[managed]
      BY <1>0 DEF Sold
    <3>1. CASE t = s
      BY <1>h, <3>1 DEF Activates
    <3>2. CASE t # s /\ t \in Active
      <4>1. subs[t].status = "active"
        BY <3>2 DEF Active
      <4>2. Sold(t)
        BY <1>a, <4>1
      <4>3. subs'[t].listing = subs[t].listing
        BY <1>a, <1>h, <3>2 DEF Activates, SubType
      <4> QED BY <4>2, <4>3 DEF Sold
    <3>3. CASE t # s /\ t \notin Active
      BY <1>a, <1>h, <3>3 DEF Activates, Sold
    <3> QED BY <3>1, <3>2, <3>3
  <2>4. hooks' \in [SubId \X ShopifyStatus -> 0..MaxCopies]
    <3>1. DOMAIN hooks = SubId \X ShopifyStatus
      BY <1>a
    <3>2. MaxCopies \in 0..MaxCopies
      OBVIOUS
    <3> QED BY <1>a, <1>h, <3>1, <3>2 DEF Activates
  <2>5. l.plan \in Plan \ {Free}
    BY <1>a, SubscriptionAssumption
  <2> QED BY <1>a, <1>h, <2>3, <2>4, <2>5, <2>6 DEF Activates
<1> DEFINE Goal ==
      /\ managed' \in BOOLEAN /\ row' \in RowType /\ subs' \in [SubId -> SubType]
      /\ hooks' \in [SubId \X ShopifyStatus -> 0..MaxCopies]
      /\ ops' \in [Op -> OpState] /\ \A o \in Op : Addressed(ops'[o]) /\ ForSale(ops[o])'
      /\ installed' \in {"yes", "no", "redacted"} /\ approved' \in SUBSET (Plan \ {Free})
      /\ changes' \in 0..MaxChanges /\ clicks' \in 0..MaxClicks
      /\ \A s \in SubId : subs'[s].status = "none" \/ Sold(s)'
<1>i. Goal => Typed'
  BY DEF Typed, SubscriptionTypeOK, RowType, SubType, Addressed
<1>j. ASSUME UNCHANGED subs PROVE \A s \in SubId : subs'[s].status = "none" \/ Sold(s)'
  BY <1>0, <1>a, <1>j DEF Sold
<1>l. ASSUME \A s \in SubId : /\ subs'[s].listing = subs[s].listing
                              /\ (subs[s].status = "none" => subs'[s].status = "none")
      PROVE  \A s \in SubId : subs'[s].status = "none" \/ Sold(s)'
  BY <1>0, <1>a, <1>l DEF Sold
<1>k. ASSUME UNCHANGED ops PROVE \A o \in Op : Addressed(ops'[o]) /\ ForSale(ops[o])'
  BY <1>0, <1>a, <1>k DEF ForSale
<1>1. ASSUME NEW o \in Op, OpenAdmin(o) PROVE Goal
  BY <1>1, <1>a, <1>e, <1>j DEF OpenAdmin
<1>2. ASSUME NEW o \in Op, FetchActive(o) PROVE Goal
  <2>1. PICK s \in SubId \cup {None} : Answer(o, s)
    BY <1>2 DEF FetchActive, Active
  <2>2. ops[o].kind = "reconcile"
    BY <1>2 DEF FetchActive, Asked
  <2>3. ops' \in [Op -> OpState] /\ \A p \in Op : Addressed(ops'[p]) /\ ForSale(ops[p])'
    BY <1>f, <2>1, <2>2
  <2> QED BY <1>2, <1>a, <1>j, <2>3 DEF FetchActive
<1>3. ASSUME NEW o \in Op, FinishReconcile(o) PROVE Goal
  <2> DEFINE s == ops[o].sub
             plan == resolvePlan(subs[s].listing.name, subs[s].listing.price)
  <2>1. ops[o] \in OpState /\ ops[o].kind = "reconcile"
    BY <1>3, <1>a DEF FinishReconcile, Answered
  <2>2. s \in SubId \cup {None}
    BY <2>1 DEF OpState, Idle
  <2>3. plan \in Plan \cup {None}
    BY ResolvedIsAPlan
  <2> HIDE DEF plan
  <2>5. s # None => row' = [sub |-> s, line |-> LineFrom(s), status |-> normalizeStatus("active"),
                            plan |-> IF plan = None THEN row.plan ELSE plan]
    BY <1>3 DEF FinishReconcile, plan
  <2>6. s = None => row' = FreeRecord
    BY <1>3 DEF FinishReconcile
  <2> HIDE DEF s
  <2>7. normalizeStatus("active") \in SubscriptionStatus
    BY DEF normalizeStatus, SubscriptionStatus
  <2>8. (IF plan = None THEN row.plan ELSE plan) \in Plan
    BY <1>a, <2>3 DEF RowType
  <2>9. s # None => LineFrom(s) \in SubId \cup {None}
    BY <1>a, <2>2 DEF LineFrom, RowType
  <2>4. row' \in RowType
    <3>1. CASE s = None
      BY <3>1, <2>6, FreeIsARow
    <3>2. CASE s # None
      BY <3>2, <2>2, <2>5, <2>7, <2>8, <2>9 DEF RowType
    <3> QED BY <3>1, <3>2
  <2> QED BY <1>3, <1>a, <1>d, <1>j, <2>4 DEF FinishReconcile
<1>4. ASSUME NEW o \in Op, NEW l \in Listing[managed], ClickUpgrade(o, l) PROVE Goal
  <2> DEFINE x == [kind |-> "upgrade", stage |-> "asked", sub |-> None, listing |-> l]
  <2>1. x \in OpState
    BY <1>a, ListingsAreListed DEF OpState
  <2>2. Addressed(x) /\ ForSale(x)
    BY <1>4 DEF Addressed, ForSale, ClickUpgrade
  <2>3. ops' = [ops EXCEPT ![o] = x]
    BY <1>4 DEF ClickUpgrade, Begin
  <2>4. ops' \in [Op -> OpState] /\ \A p \in Op : Addressed(ops'[p]) /\ ForSale(ops[p])'
    BY <1>c, <2>1, <2>2, <2>3
  <2> QED BY <1>4, <1>a, <1>j, <2>4 DEF ClickUpgrade
<1>5. ASSUME NEW o \in Op, ShopifyCreates(o) PROVE Goal
  <2>1. PICK s \in SubId :
          /\ subs' = [subs EXCEPT ![s] = [listing |-> ops[o].listing, status |-> "pending",
                                          linked |-> FALSE]]
          /\ Answer(o, s)
    BY <1>5 DEF ShopifyCreates
  <2>2. ops[o].kind = "upgrade" /\ ops[o] \in OpState
    BY <1>5, <1>a DEF ShopifyCreates, Asked
  <2>3. ops[o].listing \in Listing[managed] /\ ops[o].listing \in Listed
    BY <1>a, <2>2, ListingsAreListed DEF ForSale
  <2>4. subs' \in [SubId -> SubType]
    BY <1>a, <2>1, <2>3 DEF SubType, ShopifyStatus
  <2>5. ops' \in [Op -> OpState] /\ \A p \in Op : Addressed(ops'[p]) /\ ForSale(ops[p])'
    BY <1>f, <2>1, <2>2
  <2>6. \A t \in SubId : subs'[t].status = "none" \/ Sold(t)'
    BY <1>0, <1>a, <2>1, <2>3 DEF Sold
  <2> QED BY <1>5, <1>a, <2>4, <2>5, <2>6 DEF ShopifyCreates
<1>6. ASSUME NEW o \in Op, FinishUpgrade(o) PROVE Goal
  <2>1. ops[o].kind = "upgrade" /\ ops[o] \in OpState /\ ops[o].sub \in SubId
    BY <1>6, <1>a DEF FinishUpgrade, Answered, Addressed
  <2>2. ops[o].listing \in Listed
    BY <2>1 DEF OpState, Idle
  <2>3. ops[o].listing.plan \in Plan
    BY <2>2, SubscriptionAssumption DEF Listed
  <2>4. row' \in RowType
    BY <1>6, <1>a, <2>1, <2>3 DEF FinishUpgrade, RowType, SubscriptionStatus
  <2>5. subs' \in [SubId -> SubType]
    BY <1>6, <1>a DEF FinishUpgrade, SubType
  <2>6. \A t \in SubId : subs'[t].status = "none" \/ Sold(t)'
    BY <1>6, <1>a, <1>l DEF FinishUpgrade, SubType
  <2> QED BY <1>6, <1>a, <1>d, <2>4, <2>5, <2>6 DEF FinishUpgrade
<1>7. ASSUME NEW o \in Op, ClickCancel(o) PROVE Goal
  <2> DEFINE x == [kind |-> "cancel", sub |-> row.sub,
                   stage |-> IF row.sub = None THEN "answered" ELSE "asked"]
  <2>1. row.sub \in SubId \cup {None}
    BY <1>a DEF RowType
  <2>2. x \in OpState
    BY <2>1 DEF OpState
  <2>3. Addressed(x) /\ ForSale(x)
    BY <2>1 DEF Addressed, ForSale
  <2>4. ops' = [ops EXCEPT ![o] = x]
    BY <1>7 DEF ClickCancel, Begin
  <2>5. ops' \in [Op -> OpState] /\ \A p \in Op : Addressed(ops'[p]) /\ ForSale(ops[p])'
    BY <1>c, <2>2, <2>3, <2>4
  <2> QED BY <1>7, <1>a, <1>j, <2>5 DEF ClickCancel
<1>8. ASSUME NEW o \in Op, ShopifyCancels(o) PROVE Goal
  <2> DEFINE s == ops[o].sub
  <2>1. ops[o].kind = "cancel" /\ s \in SubId
    BY <1>8, <1>a DEF ShopifyCancels, Asked, Addressed
  <2>2. ops' \in [Op -> OpState] /\ \A p \in Op : Addressed(ops'[p]) /\ ForSale(ops[p])'
    BY <1>8, <1>f, <2>1 DEF ShopifyCancels
  <2>3. subs' \in [SubId -> SubType]
    <3>1. subs' = [subs EXCEPT ![s].status = "cancelled"]
      BY <1>8 DEF ShopifyCancels
    <3>2. [subs[s] EXCEPT !.status = "cancelled"] \in SubType
      BY <1>a, <2>1 DEF SubType, ShopifyStatus
    <3> QED BY <1>a, <3>1, <3>2
  <2>4. \A t \in SubId : subs'[t].status = "none" \/ Sold(t)'
    <3>1. subs[s].status # "none" /\ subs' = [subs EXCEPT ![s].status = "cancelled"]
      BY <1>8 DEF ShopifyCancels
    <3> HIDE DEF s
    <3> QED BY <1>a, <1>l, <2>1, <3>1 DEF SubType
  <2>5. hooks' \in [SubId \X ShopifyStatus -> 0..MaxCopies]
    BY <1>8, <1>g DEF ShopifyCancels
  <2> QED BY <1>8, <1>a, <2>5, <2>2, <2>3, <2>4 DEF ShopifyCancels
<1>9. ASSUME NEW o \in Op, FinishCancel(o) \/ OpFails(o) PROVE Goal
  BY <1>9, <1>a, <1>d, <1>j, FreeIsARow DEF FinishCancel, OpFails
<1>10. ASSUME Restart PROVE Goal
  <2>1. \A o \in Op : ops'[o] = Idle
    BY <1>10 DEF Restart
  <2>2. Addressed(Idle) /\ Idle.kind # "upgrade"
    BY OpsHaveKinds DEF Addressed
  <2>3. ops' \in [Op -> OpState]
    BY <1>10, OpsHaveKinds DEF Restart
  <2> QED BY <1>10, <1>a, <1>j, <2>1, <2>2, <2>3 DEF Restart, ForSale
<1>11. ASSUME NEW s \in SubId, NEW st \in ShopifyStatus, ApplyWebhook(s, st) PROVE Goal
  <2>1. hooks' \in [SubId \X ShopifyStatus -> 0..MaxCopies]
    <3>1. /\ hooks[s, st] \in 0..MaxCopies /\ hooks[s, st] > 0
          /\ hooks' = [hooks EXCEPT ![<<s, st>>] = hooks[s, st] - 1]
      BY <1>11, <1>a DEF ApplyWebhook
    <3>2. \A n \in 0..MaxCopies : n > 0 => n - 1 \in 0..MaxCopies
      OBVIOUS
    <3>3. hooks[s, st] - 1 \in 0..MaxCopies
      BY <3>1, <3>2
    <3> QED BY <1>a, <3>1, <3>3
  <2>2. row' \in RowType
    <3>1. normalizeStatus(st) \in SubscriptionStatus
      BY StatusIsOurs
    <3> DEFINE name == planByName(subs[s].listing.name)
    <3>2. (IF name = None THEN row.plan ELSE name) \in Plan
      BY <1>a DEF planByName, RowType
    <3> HIDE DEF name
    <3>3. row' = [row EXCEPT !.sub = s, !.status = normalizeStatus(st),
                             !.plan = IF name = None THEN row.plan ELSE name]
      BY <1>11 DEF ApplyWebhook, name
    <3> QED BY <1>a, <3>1, <3>2, <3>3 DEF RowType
  <2>3. ops' \in [Op -> OpState] /\ \A p \in Op : Addressed(ops'[p]) /\ ForSale(ops[p])'
    <3>1. (\E o \in Op : Begin(o, Reconcile)) \/ UNCHANGED ops
      BY <1>11 DEF ApplyWebhook
    <3>2. UNCHANGED ops => ops' \in [Op -> OpState] /\ \A p \in Op : Addressed(ops'[p]) /\ ForSale(ops[p])'
      BY <1>a, <1>k
    <3> QED BY <1>e, <3>1, <3>2
  <2> QED BY <1>11, <1>a, <1>j, <2>1, <2>2, <2>3 DEF ApplyWebhook
<1>12. ASSUME NEW s \in SubId, NEW st \in ShopifyStatus, LoseWebhook(s, st) PROVE Goal
  <2>1. 0 \in 0..MaxCopies
    OBVIOUS
  <2>3. hooks' = [hooks EXCEPT ![<<s, st>>] = 0]
    BY <1>12 DEF LoseWebhook
  <2>2. hooks' \in [SubId \X ShopifyStatus -> 0..MaxCopies]
    BY <1>a, <2>1, <2>3
  <2> QED BY <1>12, <1>a, <1>j, <1>k, <2>2 DEF LoseWebhook
<1>13. ASSUME Redact PROVE Goal
  <2>1. row' \in RowType /\ installed' \in {"yes", "no", "redacted"}
    BY <1>13, FreeIsARow DEF Redact
  <2>2. hooks' = hooks /\ approved' = approved /\ changes' = changes /\ clicks' = clicks
    BY <1>13 DEF Redact
  <2>3. subs' = subs /\ ops' = ops
    BY <1>13 DEF Redact
  <2>4. \A o \in Op : Addressed(ops'[o]) /\ ForSale(ops[o])'
    BY <1>k, <2>3
  <2>5. \A s \in SubId : subs'[s].status = "none" \/ Sold(s)'
    BY <1>j, <2>3
  <2>6. managed' \in BOOLEAN
    BY <1>0, <1>a
  <2>7. /\ subs' \in [SubId -> SubType] /\ ops' \in [Op -> OpState]
        /\ hooks' \in [SubId \X ShopifyStatus -> 0..MaxCopies]
    BY <1>a, <2>2, <2>3
  <2>8. approved' \in SUBSET (Plan \ {Free}) /\ changes' \in 0..MaxChanges
        /\ clicks' \in 0..MaxClicks
    BY <1>a, <2>2
  <2> QED BY <2>1, <2>4, <2>5, <2>6, <2>7, <2>8
<1>14. ASSUME NEW s \in SubId, Approve(s) PROVE Goal
  <2>1. subs[s].listing \in Listing[managed]
    BY <1>14, <1>a DEF Approve, Sold
  <2> QED BY <1>14, <1>a, <1>h, <1>k, <2>1 DEF Approve, Change
<1>15. ASSUME NEW s \in SubId, NEW l \in Listing[managed], Pick(s, l) PROVE Goal
  <2>1. /\ subs' \in [SubId -> SubType] /\ \A t \in SubId : subs'[t].status = "none" \/ Sold(t)'
        /\ hooks' \in [SubId \X ShopifyStatus -> 0..MaxCopies]
        /\ approved' \in SUBSET (Plan \ {Free})
    BY <1>15, <1>h DEF Pick
  <2>2. \A o \in Op : Addressed(ops'[o]) /\ ForSale(ops[o])'
    BY <1>15, <1>k DEF Pick
  <2>3. changes' \in 0..MaxChanges
    BY <1>15, <1>a DEF Pick, Change
  <2>4. managed' \in BOOLEAN
    BY <1>0, <1>a
  <2>5. /\ row' \in RowType /\ ops' \in [Op -> OpState]
        /\ installed' \in {"yes", "no", "redacted"} /\ clicks' \in 0..MaxClicks
    BY <1>15, <1>a DEF Pick
  <2> QED BY <2>1, <2>2, <2>3, <2>4, <2>5
<1>16. ASSUME NEW s \in SubId, NEW st \in ShopifyStatus, Lapse(s, st) PROVE Goal
  <2>0. /\ subs' = [subs EXCEPT ![s].status = st] /\ Announce(<<s, st>>)
        /\ subs[s].status # "none"
    BY <1>16 DEF Lapse
  <2>1. subs' \in [SubId -> SubType]
    <3>0. subs[s] \in SubType
      BY <1>a
    <3>1. [subs[s] EXCEPT !.status = st] \in SubType
      BY <3>0 DEF SubType
    <3> QED BY <1>a, <2>0, <3>1
  <2>2. \A t \in SubId : subs'[t].status = "none" \/ Sold(t)'
    BY <1>a, <1>l, <2>0 DEF SubType
  <2>3. hooks' \in [SubId \X ShopifyStatus -> 0..MaxCopies]
    BY <1>g, <2>0
  <2> QED BY <1>16, <1>a, <1>k, <2>1, <2>2, <2>3 DEF Lapse, Change
<1>17. ASSUME Uninstall PROVE Goal
  <2>1. \A t \in SubId : [subs[t] EXCEPT !.status = "cancelled"] \in SubType
    BY <1>a DEF SubType, ShopifyStatus
  <2>2. subs' \in [SubId -> SubType]
    BY <1>17, <1>a, <2>1 DEF Uninstall
  <2>4. \A t \in SubId : subs'[t].status = "none" \/ Sold(t)'
    BY <1>17, <1>a, <1>l DEF Uninstall, SubType
  <2>3. hooks' \in [SubId \X ShopifyStatus -> 0..MaxCopies]
    <3>1. DOMAIN hooks = SubId \X ShopifyStatus
      BY <1>a
    <3> QED BY <1>17, <1>a, <3>1 DEF Uninstall
  <2> QED BY <1>17, <1>a, <1>k, <2>2, <2>3, <2>4 DEF Uninstall, Change
<1>18. ASSUME Reinstall PROVE Goal
  BY <1>18, <1>a, <1>j, <1>k DEF Reinstall, Change
<1>19. ASSUME UNCHANGED subscriptionVars PROVE Goal
  BY <1>19, <1>a, <1>j, <1>k DEF subscriptionVars
<1> HIDE DEF Goal
<1> QED BY <1>i, <1>1, <1>2, <1>3, <1>4, <1>5, <1>6, <1>7, <1>8, <1>9, <1>10, <1>11, <1>12, <1>13,
           <1>14, <1>15, <1>16, <1>17, <1>18, <1>19 DEF SubscriptionNext

(* The merchant approved what s sells.                                     *)
Known(s) == Sold(s) /\ PlanOf(s) \in approved

(* What is active, what a webhook says is active and what a reconcile was  *)
(* told is active was approved; under managed pricing nothing is sold      *)
(* otherwise.  So is the plan of the row, pending or not: under managed    *)
(* pricing a webhook with a name nobody knows leaves it in force.          *)
Paid ==
  /\ \A s \in SubId : subs[s].status = "active" => Known(s)
  /\ managed => \A s \in SubId : Sold(s) => PlanOf(s) \in approved
  /\ \A s \in SubId, st \in ShopifyStatus : hooks[s, st] > 0 => Sold(s)
  /\ \A s \in SubId : hooks[s, "active"] > 0 => Known(s)
  /\ \A o \in Op : ops[o].kind = "reconcile" /\ ops[o].sub # None => Known(ops[o].sub)
  /\ row.status = "active" \/ managed => row.plan \in approved \cup {Free}

(* A subscription keeps what it sells, and one becomes active, or comes    *)
(* to be under managed pricing, only as the merchant approves it.          *)
LEMMA SubsAreApproved ==
  ASSUME Typed, Typed', [SubscriptionNext]_subscriptionVars, managed' = managed
  PROVE  /\ approved \in SUBSET approved'
         /\ \A s \in SubId : Sold(s) => subs'[s].listing = subs[s].listing
         /\ \A s \in SubId : subs'[s].status = "active" => subs[s].status = "active" \/ Known(s)'
         /\ managed => \A s \in SubId : Sold(s)' => Sold(s) \/ PlanOf(s)' \in approved'
<1> DEFINE Goal ==
         /\ approved \in SUBSET approved'
         /\ \A s \in SubId : Sold(s) => subs'[s].listing = subs[s].listing
         /\ \A s \in SubId : subs'[s].status = "active" => subs[s].status = "active" \/ Known(s)'
         /\ managed => \A s \in SubId : Sold(s)' => Sold(s) \/ PlanOf(s)' \in approved'
<1>a. /\ subs \in [SubId -> SubType] /\ managed \in BOOLEAN
      /\ \A o \in Op : Addressed(ops[o]) /\ ForSale(ops[o])
      /\ \A s \in SubId : subs[s].status = "none" \/ Sold(s)
  BY DEF Typed, SubscriptionTypeOK, SubType
<1>b. \A s \in SubId : subs[s] = NoSub => ~Sold(s)
  BY <1>a, SubscriptionAssumption DEF NoSub, Sold
(* Nothing new is sold and nothing becomes active.                         *)
<1>c. ASSUME approved' = approved, \A s \in SubId : /\ subs'[s].listing = subs[s].listing
                                                  /\ (subs'[s].status = "active" => subs[s].status = "active")
      PROVE  Goal
  BY <1>c DEF Sold
<1>d. ASSUME NEW s \in SubId, NEW l \in Listing[managed], Activates(s, l),
             Sold(s) => l = subs[s].listing
      PROVE  Goal
  <2>1. approved \in SUBSET approved' /\ l.plan \in approved'
    BY <1>d DEF Activates
  <2>2. subs'[s].listing = l
    BY <1>d DEF Activates
  <2>3. Sold(s)' /\ PlanOf(s)' = l.plan
    BY <2>2 DEF Sold, PlanOf
  <2>4. \A t \in SubId \ {s} : subs'[t].listing = subs[t].listing /\ subs'[t].status # "active"
    <3> SUFFICES ASSUME NEW t \in SubId \ {s}
                 PROVE  subs'[t].listing = subs[t].listing /\ subs'[t].status # "active"
      OBVIOUS
    <3>1. CASE t \in Active
      BY <1>a, <1>d, <3>1 DEF Activates, SubType
    <3>2. CASE t \notin Active
      BY <1>a, <1>d, <3>2 DEF Activates, Active
    <3> QED BY <3>1, <3>2
  <2>5. Known(s)'
    BY <2>1, <2>3 DEF Known
  <2>6. \A t \in SubId \ {s} : Sold(t)' => Sold(t)
    BY <2>4 DEF Sold
  <2> QED BY <1>d, <2>1, <2>2, <2>3, <2>4, <2>5, <2>6
<1>1. ASSUME NEW o \in Op, ShopifyCreates(o) PROVE Goal
  <2>1. PICK s \in SubId :
          /\ subs[s] = NoSub
          /\ subs' = [subs EXCEPT ![s] = [listing |-> ops[o].listing, status |-> "pending",
                                          linked |-> FALSE]]
    BY <1>1 DEF ShopifyCreates
  <2>2. ~managed /\ approved' = approved
    BY <1>1, <1>a DEF ShopifyCreates, Asked, ForSale
  <2>3. subs'[s].status = "pending" /\ \A t \in SubId \ {s} : subs'[t] = subs[t]
    BY <1>a, <2>1
  <2> QED BY <1>b, <2>1, <2>2, <2>3
<1>2. ASSUME NEW o \in Op, FinishUpgrade(o) PROVE Goal
  BY <1>2, <1>a, <1>c DEF FinishUpgrade, SubType
<1>3. ASSUME NEW o \in Op, ShopifyCancels(o) PROVE Goal
  <2>1. approved' = approved /\ subs' = [subs EXCEPT ![ops[o].sub].status = "cancelled"]
    BY <1>3 DEF ShopifyCancels
  <2> QED BY <1>a, <1>c, <2>1 DEF SubType
<1>4. ASSUME NEW s \in SubId, Approve(s) PROVE Goal
  <2>1. Sold(s)
    BY <1>4, <1>a DEF Approve
  <2> QED BY <1>4, <1>d, <2>1 DEF Approve, Sold
<1>5. ASSUME NEW s \in SubId, NEW l \in Listing[managed], Pick(s, l) PROVE Goal
  BY <1>5, <1>b, <1>d DEF Pick
<1>6. ASSUME NEW s \in SubId, NEW st \in ShopifyStatus, Lapse(s, st) PROVE Goal
  <2>1. approved' = approved /\ subs' = [subs EXCEPT ![s].status = st] /\ st # "active"
    BY <1>6 DEF Lapse
  <2> QED BY <1>a, <1>c, <2>1 DEF SubType
<1>7. ASSUME Uninstall PROVE Goal
  BY <1>7, <1>a, <1>c DEF Uninstall, SubType
<1>8. ASSUME UNCHANGED <<subs, approved>> PROVE Goal
  BY <1>8, <1>c
<1>9. \/ UNCHANGED <<subs, approved>>
      \/ \E o \in Op : ShopifyCreates(o) \/ FinishUpgrade(o) \/ ShopifyCancels(o)
      \/ \E s \in SubId : Approve(s) \/ (\E l \in Listing[managed] : Pick(s, l))
      \/ \E s \in SubId, st \in ShopifyStatus : Lapse(s, st)
      \/ Uninstall
  BY DEF SubscriptionNext, subscriptionVars, OpenAdmin, FetchActive, FinishReconcile, ClickUpgrade,
         ClickCancel, FinishCancel, OpFails, Restart, ApplyWebhook, LoseWebhook, Redact, Reinstall
<1> HIDE DEF Goal
<1>10. Goal
  BY <1>1, <1>2, <1>3, <1>4, <1>5, <1>6, <1>7, <1>8, <1>9
<1> QED BY <1>10 DEF Goal

(* A webhook is about what was sold, and says "active" of what was         *)
(* approved.                                                               *)
LEMMA HooksAreEarned ==
  ASSUME Typed, Typed', [SubscriptionNext]_subscriptionVars, managed' = managed,
         NEW s \in SubId, NEW st \in ShopifyStatus, hooks'[s, st] > 0
  PROVE  \/ hooks[s, st] > 0
         \/ Sold(s) /\ st # "active"
         \/ st = "active" /\ Known(s)'
<1> DEFINE Goal == \/ hooks[s, st] > 0
                   \/ Sold(s) /\ st # "active"
                   \/ st = "active" /\ Known(s)'
<1>a. /\ hooks \in [SubId \X ShopifyStatus -> 0..MaxCopies] /\ MaxCopies \in Nat
      /\ \A t \in SubId : subs[t].status = "none" \/ Sold(t)
      /\ <<s, st>> \in SubId \X ShopifyStatus /\ hooks'[<<s, st>>] > 0
      /\ \A t \in Active : Sold(t)
  BY SubscriptionAssumption DEF Typed, SubscriptionTypeOK, Active
<1>b. ASSUME NEW t \in SubId, NEW st2 \in ShopifyStatus, Announce(<<t, st2>>),
             Sold(t), st2 # "active"
      PROVE  Goal
  <2>1. <<s, st>> = <<t, st2>> \/ hooks'[<<s, st>>] = hooks[<<s, st>>]
    BY <1>a, <1>b DEF Announce
  <2> QED BY <1>a, <1>b, <2>1
<1>c. ASSUME NEW t \in SubId, NEW l \in Listing[managed], Activates(t, l) PROVE Goal
  <2>1. subs'[t].listing = l /\ l.plan \in approved'
    BY <1>c DEF Activates
  <2>2. Known(t)'
    BY <2>1 DEF Known, Sold, PlanOf
  <2>3. DOMAIN hooks = SubId \X ShopifyStatus
    BY <1>a
  <2>4. \/ <<s, st>> = <<t, "active">>
        \/ <<s, st>> \in (Active \ {t}) \X {"cancelled"}
        \/ hooks'[<<s, st>>] = hooks[<<s, st>>]
    BY <1>a, <1>c, <2>3 DEF Activates
  <2>5. CASE <<s, st>> = <<t, "active">>
    BY <2>2, <2>5
  <2>6. CASE <<s, st>> \in (Active \ {t}) \X {"cancelled"}
    BY <1>a, <2>6
  <2>7. CASE hooks'[<<s, st>>] = hooks[<<s, st>>]
    BY <1>a, <2>7
  <2> QED BY <2>4, <2>5, <2>6, <2>7
<1>1. ASSUME NEW o \in Op, ShopifyCancels(o) PROVE Goal
  <2>1. ops[o].sub \in SubId
    BY <1>1 DEF ShopifyCancels, Asked, Typed, Addressed
  <2>2. Sold(ops[o].sub) /\ Announce(<<ops[o].sub, "cancelled">>)
    BY <1>1, <1>a, <2>1 DEF ShopifyCancels
  <2>3. "cancelled" \in ShopifyStatus /\ "cancelled" # "active"
    BY DEF ShopifyStatus
  <2> QED BY <1>b, <2>1, <2>2, <2>3
<1>2. ASSUME NEW t \in SubId, NEW st2 \in ShopifyStatus,
             ApplyWebhook(t, st2) \/ LoseWebhook(t, st2)
      PROVE  Goal
  <2>0. <<t, st2>> \in SubId \X ShopifyStatus
    OBVIOUS
  <2>1. hooks[<<t, st2>>] > 0
    BY <1>2 DEF ApplyWebhook, LoseWebhook
  <2>2. <<s, st>> = <<t, st2>> \/ hooks'[<<s, st>>] = hooks[<<s, st>>]
    BY <1>2, <1>a DEF ApplyWebhook, LoseWebhook
  <2> QED BY <1>a, <2>1, <2>2
<1>3. ASSUME NEW t \in SubId, Approve(t) PROVE Goal
  <2>1. Sold(t)
    BY <1>3, <1>a DEF Approve
  <2> QED BY <1>3, <1>c, <2>1 DEF Approve, Sold
<1>4. ASSUME NEW t \in SubId, NEW l \in Listing[managed], Pick(t, l) PROVE Goal
  BY <1>4, <1>c DEF Pick
<1>5. ASSUME NEW t \in SubId, NEW st2 \in ShopifyStatus, Lapse(t, st2) PROVE Goal
  <2>1. Announce(<<t, st2>>) /\ st2 # "active" /\ Sold(t)
    BY <1>5, <1>a DEF Lapse
  <2> QED BY <1>b, <2>1
<1>6. ASSUME Uninstall PROVE Goal
  <2>1. DOMAIN hooks = SubId \X ShopifyStatus
    BY <1>a
  <2>2. <<s, st>> \in Active \X {"cancelled"} \/ hooks'[<<s, st>>] = hooks[<<s, st>>]
    BY <1>6, <1>a, <2>1 DEF Uninstall
  <2> QED BY <1>a, <2>2
<1>7. ASSUME UNCHANGED hooks PROVE Goal
  BY <1>7, <1>a
<1>8. \/ UNCHANGED hooks
      \/ \E o \in Op : ShopifyCancels(o)
      \/ \E t \in SubId, st2 \in ShopifyStatus :
           ApplyWebhook(t, st2) \/ LoseWebhook(t, st2) \/ Lapse(t, st2)
      \/ \E t \in SubId : Approve(t) \/ (\E l \in Listing[managed] : Pick(t, l))
      \/ Uninstall
  BY DEF SubscriptionNext, subscriptionVars, OpenAdmin, FetchActive, FinishReconcile, ClickUpgrade,
         ShopifyCreates, FinishUpgrade, ClickCancel, FinishCancel, OpFails, Restart, Redact, Reinstall
<1> HIDE DEF Goal
<1>9. Goal
  BY <1>1, <1>2, <1>3, <1>4, <1>5, <1>6, <1>7, <1>8
<1> QED BY <1>9 DEF Goal

LEMMA PaidStart == SubscriptionInit => Paid
<1> SUFFICES ASSUME SubscriptionInit PROVE Paid
  OBVIOUS
<1>1. \A s \in SubId : subs[s] = NoSub /\ ~Sold(s)
  BY SubscriptionAssumption DEF SubscriptionInit, NoSub, Sold
<1>2. \A s \in SubId : subs[s].status # "active"
  BY <1>1 DEF NoSub
<1>3. \A s \in SubId, st \in ShopifyStatus : hooks[s, st] = 0
  BY DEF SubscriptionInit
<1>4. \A s \in SubId : hooks[s, "active"] = 0
  BY <1>3 DEF ShopifyStatus
<1>5. \A o \in Op : ops[o].kind = "idle"
  BY DEF SubscriptionInit, Idle
<1>6. row.plan = Free
  BY DEF SubscriptionInit, FreeRecord
<1>0. ~(0 > 0)
  OBVIOUS
<1>7. \A s \in SubId, st \in ShopifyStatus : ~(hooks[s, st] > 0)
  BY <1>0, <1>3, Zenon
<1>8. \A s \in SubId : ~(hooks[s, "active"] > 0)
  BY <1>0, <1>4, Zenon
<1>9. \A o \in Op : ops[o].kind # "reconcile"
  BY <1>5
<1> QED BY <1>1, <1>2, <1>6, <1>7, <1>8, <1>9 DEF Paid

LEMMA PaidStep == Typed /\ Typed' /\ Paid /\ [SubscriptionNext]_subscriptionVars => Paid'
<1> SUFFICES ASSUME Typed, Typed', Paid, [SubscriptionNext]_subscriptionVars PROVE Paid'
  OBVIOUS
<1>a. /\ managed \in BOOLEAN /\ row \in RowType /\ subs \in [SubId -> SubType]
      /\ ops \in [Op -> OpState] /\ approved \in SUBSET (Plan \ {Free})
      /\ \A o \in Op : Addressed(ops[o]) /\ ForSale(ops[o])
      /\ \A s \in SubId : subs[s].status = "none" \/ Sold(s)
  BY DEF Typed, SubscriptionTypeOK, RowType, SubType
<1>0. managed' = managed
  BY DEF SubscriptionNext, subscriptionVars, OpenAdmin, FetchActive, FinishReconcile, ClickUpgrade,
         ShopifyCreates, FinishUpgrade, ClickCancel, ShopifyCancels, FinishCancel, OpFails, Restart,
         ApplyWebhook, LoseWebhook, Redact, Approve, Pick, Lapse, Uninstall, Reinstall
<1>b. /\ approved \in SUBSET approved'
      /\ \A s \in SubId : Sold(s) => subs'[s].listing = subs[s].listing
      /\ \A s \in SubId : subs'[s].status = "active" => subs[s].status = "active" \/ Known(s)'
      /\ managed => \A s \in SubId : Sold(s)' => Sold(s) \/ PlanOf(s)' \in approved'
  BY <1>0, SubsAreApproved
<1>c. \A s \in SubId :
        /\ Sold(s) => (Sold(s)' /\ PlanOf(s)' = PlanOf(s))
        /\ Known(s) => Known(s)'
  BY <1>0, <1>b DEF Known, Sold, PlanOf
<1>d. \A s \in SubId :
        /\ subs[s].status = "active" => Known(s)
        /\ hooks[s, "active"] > 0 => Known(s)
        /\ managed /\ Sold(s) => PlanOf(s) \in approved
  BY DEF Paid
<1>e. \A s \in SubId, st \in ShopifyStatus : hooks[s, st] > 0 => Sold(s)
  BY DEF Paid
<1>f. \A o \in Op : ops[o].kind = "reconcile" /\ ops[o].sub # None => Known(ops[o].sub)
  BY DEF Paid
<1>g. row.status = "active" \/ managed => row.plan \in approved \cup {Free}
  BY DEF Paid
<1>1. \A s \in SubId : subs'[s].status = "active" => Known(s)'
  BY <1>b, <1>c, <1>d DEF Known, Sold, PlanOf
<1>2. managed' => \A s \in SubId : Sold(s)' => PlanOf(s)' \in approved'
  BY <1>0, <1>b, <1>c, <1>d DEF Known, Sold, PlanOf
<1>3. \A s \in SubId, st \in ShopifyStatus : hooks'[s, st] > 0 => Sold(s)'
  <2> SUFFICES ASSUME NEW s \in SubId, NEW st \in ShopifyStatus, hooks'[s, st] > 0
               PROVE  Sold(s)'
    OBVIOUS
  <2>1. hooks[s, st] > 0 \/ Sold(s) \/ Known(s)'
    BY <1>0, HooksAreEarned
  <2> QED BY <1>c, <1>e, <2>1 DEF Known, Sold, PlanOf
<1>4. \A s \in SubId : hooks'[s, "active"] > 0 => Known(s)'
  <2> SUFFICES ASSUME NEW s \in SubId, hooks'[s, "active"] > 0
               PROVE  Known(s)'
    OBVIOUS
  <2>1. "active" \in ShopifyStatus
    BY DEF ShopifyStatus
  <2>2. hooks[s, "active"] > 0 \/ Known(s)'
    BY <1>0, <2>1, HooksAreEarned
  <2> QED BY <1>c, <1>d, <2>2 DEF Known, Sold, PlanOf
<1>5. \A o \in Op : ops'[o].kind = "reconcile" /\ ops'[o].sub # None => Known(ops[o].sub)'
  <2> SUFFICES ASSUME NEW o \in Op, ops'[o].kind = "reconcile", ops'[o].sub # None
               PROVE  Known(ops[o].sub)'
    OBVIOUS
  <2>0. ops'[o] \in OpState /\ ops[o] \in OpState
    BY <1>a DEF Typed, SubscriptionTypeOK
  <2>1. ops'[o].sub \in SubId
    BY <2>0 DEF OpState, Idle
  <2>2. CASE ops'[o] = ops[o]
    <3>1. Known(ops[o].sub)
      BY <1>f, <2>2
    <3> DEFINE t == ops[o].sub
    <3>2. t \in SubId /\ ops[o].sub = t /\ ops'[o].sub = t
      BY <2>1, <2>2
    <3> HIDE DEF t
    <3> QED BY <1>c, <3>1, <3>2 DEF Known, Sold, PlanOf
  <2>3. ASSUME NEW p \in Op, NEW x, ops' = [ops EXCEPT ![p] = x],
               x.kind # "reconcile" \/ x.sub = None
        PROVE  ops'[o] = ops[o]
    BY <1>a, <2>3
  <2>4. ASSUME NEW p \in Op, NEW s, Answer(p, s), ops[p].kind # "reconcile" PROVE ops'[o] = ops[o]
    <3>1. ops[p] \in OpState
      BY <1>a
    <3>2. [ops[p] EXCEPT !.stage = "answered", !.sub = s].kind = ops[p].kind
      BY <3>1 DEF OpState, Idle
    <3>3. ops' = [ops EXCEPT ![p] = [ops[p] EXCEPT !.stage = "answered", !.sub = s]]
      BY <1>a, <2>4 DEF Answer
    <3> QED BY <2>3, <2>4, <3>2, <3>3
  <2>5. \A p \in Op : End(p) \/ Begin(p, Reconcile) => ops'[o] = ops[o]
    <3>1. Idle.kind # "reconcile" /\ Reconcile.sub = None
      BY DEF Idle, Reconcile
    <3> QED BY <2>3, <3>1 DEF End, Begin
  <2>6. ASSUME NEW p \in Op, FetchActive(p) PROVE Known(ops[o].sub)'
    <3>1. PICK s \in IF Active = {} THEN {None} ELSE Active : Answer(p, s)
      BY <2>6 DEF FetchActive
    <3>2. CASE o = p
      <4>1. ops'[o] = [ops[o] EXCEPT !.stage = "answered", !.sub = s]
        BY <1>a, <3>1, <3>2 DEF Answer
      <4>2. ops'[o].sub = s
        <5>1. ops[o].kind # "idle"
          BY <2>6, <3>2 DEF FetchActive, Asked
        <5>2. ops[o] \in OpState /\ DOMAIN ops[o] = DOMAIN ops[o]
          BY <2>0
        <5>3. s \in SubId \cup {None}
          BY <3>1 DEF Active
        <5> DEFINE y == [ops[o] EXCEPT !.stage = "answered", !.sub = s]
        <5>4. y.sub = s
          BY <5>1, <5>2, <5>3, AnsweredIsAnOp
        <5> QED BY <4>1, <5>4
      <4>3. s \in Active
        BY <2>1, <3>1, <4>2, SubscriptionAssumption
      <4>4. s \in SubId /\ Known(s)
        BY <1>d, <4>3 DEF Active
      <4> QED BY <1>c, <4>2, <4>4 DEF Known, Sold, PlanOf
    <3>3. CASE o # p
      <4>1. ops'[o] = ops[o]
        BY <1>a, <3>1, <3>3 DEF Answer
      <4> QED BY <2>2, <4>1
    <3> QED BY <3>2, <3>3
  <2>7. ASSUME NEW p \in Op, NEW l \in Listing[managed], ClickUpgrade(p, l)
        PROVE  ops'[o] = ops[o]
    <3>1. ops' = [ops EXCEPT ![p] = [kind |-> "upgrade", stage |-> "asked", sub |-> None,
                                     listing |-> l]]
      BY <2>7 DEF ClickUpgrade, Begin
    <3> QED BY <2>3, <3>1
  <2>8. ASSUME NEW p \in Op, ClickCancel(p) PROVE ops'[o] = ops[o]
    <3> DEFINE x == [kind |-> "cancel", sub |-> row.sub,
                     stage |-> IF row.sub = None THEN "answered" ELSE "asked"]
    <3>1. x.kind = "cancel" /\ ops' = [ops EXCEPT ![p] = x]
      BY <2>8 DEF ClickCancel, Begin
    <3> QED BY <2>3, <3>1
  <2>9. ASSUME NEW p \in Op, ShopifyCreates(p) \/ ShopifyCancels(p) PROVE ops'[o] = ops[o]
    <3>1. ops[p].kind # "reconcile" /\ \E s : Answer(p, s)
      BY <2>9 DEF ShopifyCreates, ShopifyCancels, Asked
    <3> QED BY <2>4, <3>1
  <2>10. ASSUME Restart PROVE FALSE
    BY <2>10 DEF Restart, Idle
  <2>11. \/ UNCHANGED ops \/ Restart
         \/ \E p \in Op : \/ End(p) \/ Begin(p, Reconcile) \/ FetchActive(p) \/ ClickCancel(p)
                         \/ ShopifyCreates(p) \/ ShopifyCancels(p)
                         \/ \E l \in Listing[managed] : ClickUpgrade(p, l)
    BY DEF SubscriptionNext, subscriptionVars, OpenAdmin, FinishReconcile, FinishUpgrade,
           FinishCancel, OpFails, ApplyWebhook, LoseWebhook, Redact, Approve, Pick, Lapse,
           Uninstall, Reinstall
  <2> QED BY <2>2, <2>5, <2>6, <2>7, <2>8, <2>9, <2>10, <2>11
<1>6. row'.status = "active" \/ managed' => row'.plan \in approved' \cup {Free}
  <2>1. CASE row' = row
    BY <1>0, <1>b, <1>g, <2>1
  <2>2. ASSUME NEW o \in Op, FinishReconcile(o)
        PROVE  row'.status = "active" \/ managed => row'.plan \in approved' \cup {Free}
    <3> DEFINE s == ops[o].sub
               plan == resolvePlan(subs[s].listing.name, subs[s].listing.price)
    <3>1. ops[o] \in OpState /\ ops[o].kind = "reconcile"
      BY <1>a, <2>2 DEF FinishReconcile, Answered
    <3>2. CASE s = None
      BY <2>2, <3>2 DEF FinishReconcile, FreeRecord
    <3>3. CASE s # None
      <4>1. Known(s)
        BY <1>f, <3>1, <3>3
      <4>2. row'.plan = IF plan = None THEN row.plan ELSE plan
        BY <2>2, <3>3 DEF FinishReconcile
      <4>3. plan \in {PlanOf(s), None} /\ (~managed => plan = PlanOf(s)) /\ PlanOf(s) # None
        BY <1>a, <4>1, ResolvedIsSold, PlansAssumption DEF Known, Sold, PlanOf
      <4>4. plan = None => row.plan \in approved \cup {Free}
        BY <1>g, <4>3
      <4> HIDE DEF s, plan
      <4> QED BY <1>b, <4>1, <4>2, <4>3, <4>4 DEF Known
    <3> QED BY <3>2, <3>3
  <2>3. ASSUME NEW o \in Op, FinishUpgrade(o) PROVE row'.status = "pending" /\ ~managed
    <3>1. ops[o].kind = "upgrade"
      BY <2>3 DEF FinishUpgrade, Answered
    <3> QED BY <1>a, <2>3, <3>1 DEF FinishUpgrade, ForSale, RowType
  <2>4. ASSUME NEW o \in Op, FinishCancel(o) PROVE row'.plan = Free
    BY <2>4 DEF FinishCancel, FreeRecord
  <2>5. ASSUME NEW s \in SubId, NEW st \in ShopifyStatus, ApplyWebhook(s, st)
        PROVE  row'.status = "active" \/ managed => row'.plan \in approved' \cup {Free}
    <3> DEFINE plan == planByName(subs[s].listing.name)
               status == normalizeStatus(st)
    <3>0. hooks[s, st] > 0
      BY <2>5 DEF ApplyWebhook
    <3>1. Sold(s)
      BY <1>e, <3>0
    <3>2. row'.plan = (IF plan = None THEN row.plan ELSE plan) /\ row'.status = status
      BY <1>a, <2>5 DEF ApplyWebhook, RowType
    <3>3. plan \in {PlanOf(s), None} /\ (~managed => plan = PlanOf(s)) /\ PlanOf(s) # None
      BY <1>a, <3>1, ResolvedIsSold, PlansAssumption DEF Sold, PlanOf
    <3>4. status = "active" => Known(s)
      <4>1. status = "active" => st = "active"
        BY DEF normalizeStatus
      <4> QED BY <1>d, <3>0, <4>1
    <3>5. managed => PlanOf(s) \in approved
      BY <1>d, <3>1
    <3> HIDE DEF plan, status
    <3>6. CASE status = "active"
      <4>1. PlanOf(s) \in approved'
        BY <1>b, <3>4, <3>6 DEF Known
      <4> QED BY <1>b, <1>g, <3>2, <3>3, <4>1
    <3>7. CASE managed
      <4>1. PlanOf(s) \in approved'
        BY <1>b, <3>5, <3>7
      <4> QED BY <1>b, <1>g, <3>2, <3>3, <3>7, <4>1
    <3> QED BY <3>2, <3>6, <3>7
  <2>6. Redact => row'.plan = Free
    BY DEF Redact, FreeRecord
  <2>7. \/ row' = row \/ Redact
        \/ \E o \in Op : FinishReconcile(o) \/ FinishUpgrade(o) \/ FinishCancel(o)
        \/ \E s \in SubId, st \in ShopifyStatus : ApplyWebhook(s, st)
    BY DEF SubscriptionNext, subscriptionVars, OpenAdmin, FetchActive, ClickUpgrade,
         ShopifyCreates, ClickCancel, ShopifyCancels, OpFails, Restart,
         LoseWebhook, Approve, Pick, Lapse, Uninstall, Reinstall
  <2> QED BY <1>0, <2>1, <2>2, <2>3, <2>4, <2>5, <2>6, <2>7
<1> QED BY <1>1, <1>2, <1>3, <1>4, <1>5, <1>6 DEF Paid

(* The row, Shopify's subscriptions, the webhooks and the calls in flight  *)
(* keep their types in every behaviour.                                    *)
THEOREM SubscriptionTypeCorrect == SubscriptionSpec => []SubscriptionTypeOK
<1>1. Typed => SubscriptionTypeOK
  BY DEF Typed
<1> QED BY <1>1, SubscriptionTypedStart, SubscriptionTypedStep, PTL DEF SubscriptionSpec

(* A plan that is in force is the free one or one the merchant approved,   *)
(* whatever the order of webhooks, reconciles, clicks and failures.        *)
THEOREM PaidPlansWereApproved == SubscriptionSpec => []PaidPlanWasApproved
<1>1. Paid => PaidPlanWasApproved
  BY DEF Paid, PaidPlanWasApproved, effectivePlan
<1>2. Typed /\ Paid /\ Typed' /\ [SubscriptionNext]_subscriptionVars => Paid'
  BY PaidStep
<1> QED
  BY <1>1, <1>2, PaidStart, SubscriptionTypedStart, SubscriptionTypedStep, PTL DEF SubscriptionSpec
=============================================================================
