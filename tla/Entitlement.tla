----------------------------- MODULE Entitlement -----------------------------
(***************************************************************************)
(* What a subscription row entitles a shop to: the plans, the plan a       *)
(* Shopify subscription resolves to, and the decision made before a        *)
(* conversation is served and after it is counted                          *)
(* (packages/billing/src: plans.ts, entitlement.ts, usage.ts).             *)
(* Pure operators: the modules that keep state extend this one.            *)
(***************************************************************************)
EXTENDS Integers, FiniteSets

CONSTANTS
  Plan,          \* the plan ids
  Free,          \* the plan that is the absence of a subscription
  Included,      \* Included[p]: conversations per calendar month
  OverageMinor,  \* OverageMinor[p]: cents per conversation beyond; 0 is null
  PriceMinor,    \* PriceMinor[p]: the recurring price, in cents
  None           \* undefined

ASSUME PlansAssumption ==
  /\ Free \in Plan
  /\ None \notin Plan
  /\ Included \in [Plan -> Nat]
  /\ OverageMinor \in [Plan -> Nat]
  /\ PriceMinor \in [Plan -> Nat]
  /\ OverageMinor[Free] = 0

SubscriptionStatus ==
  {"none", "pending", "active", "declined", "expired", "frozen", "cancelled"}

Verdict == {"included", "overage", "quota_exhausted", "cap_reached", "frozen"}

-----------------------------------------------------------------------------
(* The spending cap a merchant approves with a plan.                       *)
overageCapMinor(plan) == Included[plan] * OverageMinor[plan]

(* Anything but an active subscription falls back to the free tier.        *)
effectivePlan(plan, status) == IF status = "active" THEN plan ELSE Free

(* The verdict on one more conversation when "used" were counted this      *)
(* month and "charged" cents of overage are on the ledger.                 *)
evaluate(plan, status, used, charged) ==
  LET p == effectivePlan(plan, status)
  IN  IF status = "frozen" THEN "frozen"
      ELSE IF used < Included[p] THEN "included"
      ELSE IF OverageMinor[p] = 0 \/ status # "active" THEN "quota_exhausted"
      ELSE IF charged + OverageMinor[p] > overageCapMinor(p) THEN "cap_reached"
      ELSE "overage"

(* The plan of a name, and of a subscription as Shopify describes it: its  *)
(* name first, then its price when exactly one plan has it.                *)
planByName(name) == IF name \in Plan THEN name ELSE None

resolvePlan(name, price) ==
  LET priced == {p \in Plan : PriceMinor[p] = price}
  IN  IF name \in Plan THEN name
      ELSE IF price > 0 /\ Cardinality(priced) = 1
           THEN CHOOSE p \in Plan : PriceMinor[p] = price
           ELSE None

(* Shopify's status in ours; a status nobody knows grants nothing.         *)
normalizeStatus(raw) ==
  IF raw \in SubscriptionStatus \ {"none"} THEN raw ELSE "cancelled"
=============================================================================
