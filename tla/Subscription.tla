---------------------------- MODULE Subscription ----------------------------
(***************************************************************************)
(* Keeping the subscriptions row of a shop in step with Shopify            *)
(* (BillingService: beginUpgrade, cancel, applyWebhook, reconcile, purge;  *)
(* the admin routes that call them).                                       *)
(*                                                                         *)
(* Shopify decides what a merchant pays for.  The row follows it by three  *)
(* asynchronous ways that overlap freely: webhooks, which may be lost,     *)
(* late, repeated and out of order; the reconcile of an admin page; and    *)
(* the merchant's own upgrade or cancel, each a call to Shopify followed   *)
(* by a write of the row.                                                  *)
(***************************************************************************)
EXTENDS Entitlement

CONSTANTS
  SubId,       \* subscription ids Shopify hands out
  Op,          \* bound: calls of reconcile, beginUpgrade and cancel at once
  Listing,     \* Listing[m]: the plans on sale at Shopify, each with a name, a
               \* price, and a usage line or none
  MaxCopies,   \* bound on deliveries of one webhook
  MaxChanges,  \* bound on what happens on Shopify's side
  MaxClicks    \* bound on upgrades and cancels clicked in the app

ASSUME SubscriptionAssumption ==
  /\ None \notin SubId /\ IsFiniteSet(Plan)
  /\ MaxCopies \in Nat /\ MaxChanges \in Nat /\ MaxClicks \in Nat
  /\ \A m \in BOOLEAN : \A l \in Listing[m] :
       /\ l.plan \in Plan \ {Free} /\ l.price \in Nat /\ l.metered \in BOOLEAN
       /\ l.name \in Plan => l.name = l.plan
  /\ \A m \in BOOLEAN : None \notin Listing[m]
  \* The app names what it creates after the plan, and adds a usage line where
  \* the plan has overage; what the Partner dashboard sells under a name of its
  \* own costs what the plan costs, with a usage line or without.
  /\ \A l \in Listing[FALSE] : l.name = l.plan /\ l.metered = (OverageMinor[l.plan] > 0)
  /\ \A l \in Listing[TRUE] : l.name \in Plan \/ l.price = PriceMinor[l.plan]

VARIABLES
  managed,    \* Shopify App Pricing: the app never creates a subscription
  row,        \* the subscriptions row: subscription, plan, status, usage line
  subs,       \* Shopify's subscriptions
  hooks,      \* hooks[s, st]: deliveries left of the webhook "s became st"
  ops,        \* the calls in flight
  installed,  \* "yes", "no", or "redacted": shop/redact has been handled
  approved,   \* history: the plans the merchant ever approved
  changes, clicks

subscriptionVars == <<managed, row, subs, hooks, ops, installed, approved, changes, clicks>>

ShopifyStatus == {"none", "pending", "active", "declined", "frozen", "cancelled"}
NoSub == [listing |-> None, status |-> "none", linked |-> FALSE]
Idle == [kind |-> "idle"]
FreeRecord == [sub |-> None, plan |-> Free, status |-> "none", line |-> None]

PlanOf(s) == subs[s].listing.plan
Active == {s \in SubId : subs[s].status = "active"}

SubscriptionInit ==
  /\ managed \in BOOLEAN
  /\ row = FreeRecord
  /\ subs = [s \in SubId |-> NoSub]
  /\ hooks = [e \in SubId \X ShopifyStatus |-> 0]
  /\ ops = [o \in Op |-> Idle]
  /\ installed = "yes"
  /\ approved = {}
  /\ changes = 0
  /\ clicks = 0

-----------------------------------------------------------------------------
(* Calls of the app.                                                       *)

Begin(o, op) == ops[o] = Idle /\ ops' = [ops EXCEPT ![o] = op]
End(o) == ops' = [ops EXCEPT ![o] = Idle]
Answer(o, s) == ops' = [ops EXCEPT ![o].stage = "answered", ![o].sub = s]

Asked(o, kind) == ops[o].kind = kind /\ ops[o].stage = "asked"
Answered(o, kind) == ops[o].kind = kind /\ ops[o].stage = "answered"

Reconcile == [kind |-> "reconcile", stage |-> "asked", sub |-> None]

(* An admin page is opened: /admin/plan, /admin/billing, or /admin on the  *)
(* way back from Shopify's approval screen.                                *)
OpenAdmin(o) ==
  /\ installed = "yes"
  /\ Begin(o, Reconcile)
  /\ UNCHANGED <<managed, row, subs, hooks, installed, approved, changes, clicks>>

(* Shopify reads out the active subscription, if any.                      *)
FetchActive(o) ==
  /\ Asked(o, "reconcile") /\ installed = "yes"
  /\ \E s \in IF Active = {} THEN {None} ELSE Active : Answer(o, s)
  /\ UNCHANGED <<managed, row, subs, hooks, installed, approved, changes, clicks>>

(* The usage line after a reconcile that saw s: a line is as good as its   *)
(* subscription, and where s has none the row keeps the line it had.       *)
LineFrom(s) == IF subs[s].listing.metered THEN s ELSE row.line

(* Fault: a reconcile that finds no subscription leaves the row alone.     *)
ReconcileKeepsRow(o) ==
  LET s == ops[o].sub
      plan == resolvePlan(subs[s].listing.name, subs[s].listing.price)
  IN  /\ Answered(o, "reconcile")
      /\ row' = IF s = None THEN row
                   ELSE [sub |-> s, line |-> LineFrom(s), status |-> normalizeStatus("active"),
                         plan |-> IF plan = None THEN row.plan ELSE plan]
      /\ End(o)
      /\ UNCHANGED <<managed, subs, hooks, installed, approved, changes, clicks>>

(* The answer is written over the row as it is by then; a field Shopify    *)
(* does not report keeps what the row has.                                 *)
FinishReconcile(o) ==
  LET s == ops[o].sub
      plan == resolvePlan(subs[s].listing.name, subs[s].listing.price)
  IN  /\ Answered(o, "reconcile")
      /\ row' = IF s = None THEN FreeRecord
                   ELSE [sub |-> s, line |-> LineFrom(s), status |-> normalizeStatus("active"),
                         plan |-> IF plan = None THEN row.plan ELSE plan]
      /\ End(o)
      /\ UNCHANGED <<managed, subs, hooks, installed, approved, changes, clicks>>

(* POST /admin/billing/subscribe with a paid plan, under manual pricing.   *)
ClickUpgrade(o, l) ==
  /\ ~managed /\ installed = "yes" /\ clicks < MaxClicks
  /\ Begin(o, [kind |-> "upgrade", stage |-> "asked", sub |-> None, listing |-> l])
  /\ clicks' = clicks + 1
  /\ UNCHANGED <<managed, row, subs, hooks, installed, approved, changes>>

ShopifyCreates(o) ==
  /\ Asked(o, "upgrade") /\ installed = "yes"
  /\ \E s \in SubId :
       /\ subs[s] = NoSub
       /\ subs' = [subs EXCEPT ![s] = [listing |-> ops[o].listing, status |-> "pending",
                                       linked |-> FALSE]]
       /\ Answer(o, s)
  /\ UNCHANGED <<managed, row, hooks, installed, approved, changes, clicks>>

(* Fault: the proposed plan counts before the merchant approves it.        *)
UpgradeAtOnce(o) ==
  /\ Answered(o, "upgrade")
  /\ row' = [row EXCEPT !.sub = ops[o].sub, !.plan = ops[o].listing.plan,
                              !.status = "active"]
  /\ subs' = [subs EXCEPT ![ops[o].sub].linked = TRUE]
  /\ End(o)
  /\ UNCHANGED <<managed, hooks, installed, approved, changes, clicks>>

(* Recorded as pending, and the merchant gets the link to approve it.      *)
FinishUpgrade(o) ==
  /\ Answered(o, "upgrade")
  /\ row' = [row EXCEPT !.sub = ops[o].sub, !.plan = ops[o].listing.plan,
                              !.status = "pending"]
  /\ subs' = [subs EXCEPT ![ops[o].sub].linked = TRUE]
  /\ End(o)
  /\ UNCHANGED <<managed, hooks, installed, approved, changes, clicks>>

(* The same route with the free plan: the row is read before the call.     *)
ClickCancel(o) ==
  /\ ~managed /\ installed = "yes" /\ clicks < MaxClicks
  /\ Begin(o, [kind |-> "cancel", sub |-> row.sub,
               stage |-> IF row.sub = None THEN "answered" ELSE "asked"])
  /\ clicks' = clicks + 1
  /\ UNCHANGED <<managed, row, subs, hooks, installed, approved, changes>>

Announce(event) == hooks' = [hooks EXCEPT ![event] = MaxCopies]

ShopifyCancels(o) ==
  LET s == ops[o].sub
  IN  /\ Asked(o, "cancel") /\ installed = "yes"
      /\ subs[s].status \in {"pending", "active", "frozen"}
      /\ subs' = [subs EXCEPT ![s].status = "cancelled"]
      /\ Announce(<<s, "cancelled">>)
      /\ Answer(o, s)
      /\ UNCHANGED <<managed, row, installed, approved, changes, clicks>>

(* Without an access token the row is written without a call.              *)
FinishCancel(o) ==
  /\ Answered(o, "cancel") \/ (Asked(o, "cancel") /\ installed # "yes")
  /\ row' = [FreeRecord EXCEPT !.status = "cancelled"]
  /\ End(o)
  /\ UNCHANGED <<managed, subs, hooks, installed, approved, changes, clicks>>

(* A call fails, before or after Shopify acted on it.                      *)
OpFails(o) ==
  /\ ops[o] # Idle
  /\ End(o)
  /\ UNCHANGED <<managed, row, subs, hooks, installed, approved, changes, clicks>>

Restart ==
  /\ \E o \in Op : ops[o] # Idle
  /\ ops' = [o \in Op |-> Idle]
  /\ UNCHANGED <<managed, row, subs, hooks, installed, approved, changes, clicks>>

-----------------------------------------------------------------------------
(* Webhooks.                                                               *)

(* app_subscriptions/update: the row takes the id and the status, and the  *)
(* plan if the name is one of ours; an active one is reconciled at once.   *)
ApplyWebhook(s, st) ==
  LET plan == planByName(subs[s].listing.name)
      status == normalizeStatus(st)
  IN  /\ hooks[s, st] > 0
      /\ hooks' = [hooks EXCEPT ![<<s, st>>] = @ - 1]
      /\ row' = [row EXCEPT !.sub = s, !.status = status,
                                  !.plan = IF plan = None THEN @ ELSE plan]
      /\ IF status = "active" THEN \E o \in Op : Begin(o, Reconcile) ELSE UNCHANGED ops
      /\ UNCHANGED <<managed, subs, installed, approved, changes, clicks>>

LoseWebhook(s, st) ==
  /\ hooks[s, st] > 0
  /\ hooks' = [hooks EXCEPT ![<<s, st>>] = 0]
  /\ UNCHANGED <<managed, row, subs, ops, installed, approved, changes, clicks>>

(* shop/redact, sent after an uninstall.                                   *)
Redact ==
  /\ installed = "no"
  /\ installed' = "redacted"
  /\ row' = FreeRecord
  /\ UNCHANGED <<managed, subs, hooks, ops, approved, changes, clicks>>

-----------------------------------------------------------------------------
(* Shopify and the merchant there.                                         *)

Change == changes < MaxChanges /\ changes' = changes + 1

(* Making s active ends the one that was.                                  *)
Activates(s, listing) ==
  /\ subs' = [t \in SubId |->
                IF t = s THEN [listing |-> listing, status |-> "active", linked |-> TRUE]
                ELSE IF t \in Active THEN [subs[t] EXCEPT !.status = "cancelled"]
                ELSE subs[t]]
  /\ hooks' = [e \in DOMAIN hooks |->
                 IF e = <<s, "active">> \/ e \in (Active \ {s}) \X {"cancelled"}
                 THEN MaxCopies ELSE hooks[e]]
  /\ approved' = approved \cup {listing.plan}

(* The merchant approves what the app proposed, or pays an overdue bill.   *)
Approve(s) ==
  /\ Change /\ installed = "yes"
  /\ subs[s].linked /\ subs[s].status \in {"pending", "frozen"}
  /\ Activates(s, subs[s].listing)
  /\ UNCHANGED <<managed, row, ops, installed, clicks>>

(* The merchant picks a plan on Shopify's own screen.                      *)
Pick(s, l) ==
  /\ Change /\ managed /\ installed = "yes"
  /\ subs[s] = NoSub
  /\ Activates(s, l)
  /\ UNCHANGED <<managed, row, ops, installed, clicks>>

(* A proposal is declined; a subscription lapses or is frozen.             *)
Lapse(s, st) ==
  /\ Change
  /\ \/ subs[s].status = "pending" /\ st = "declined"
     \/ subs[s].status = "active" /\ st \in {"cancelled", "frozen"}
  /\ subs' = [subs EXCEPT ![s].status = st]
  /\ Announce(<<s, st>>)
  /\ UNCHANGED <<managed, row, ops, installed, approved, clicks>>

Uninstall ==
  /\ Change /\ installed = "yes"
  /\ installed' = "no"
  /\ subs' = [t \in SubId |->
                IF subs[t].status \in {"active", "frozen", "pending"}
                THEN [subs[t] EXCEPT !.status = "cancelled"] ELSE subs[t]]
  /\ hooks' = [e \in DOMAIN hooks |->
                 IF e \in Active \X {"cancelled"} THEN MaxCopies ELSE hooks[e]]
  /\ UNCHANGED <<managed, row, ops, approved, clicks>>

Reinstall ==
  /\ Change /\ installed # "yes"
  /\ installed' = "yes"
  /\ UNCHANGED <<managed, row, subs, hooks, ops, approved, clicks>>

-----------------------------------------------------------------------------
SubscriptionNext ==
  \/ \E o \in Op : OpenAdmin(o)
  \/ \E o \in Op : FetchActive(o)
  \/ \E o \in Op : FinishReconcile(o)
  \/ \E o \in Op, l \in Listing[managed] : ClickUpgrade(o, l)
  \/ \E o \in Op : ShopifyCreates(o)
  \/ \E o \in Op : FinishUpgrade(o)
  \/ \E o \in Op : ClickCancel(o)
  \/ \E o \in Op : ShopifyCancels(o)
  \/ \E o \in Op : FinishCancel(o)
  \/ \E o \in Op : OpFails(o)
  \/ Restart
  \/ \E s \in SubId, st \in ShopifyStatus : ApplyWebhook(s, st)
  \/ \E s \in SubId, st \in ShopifyStatus : LoseWebhook(s, st)
  \/ Redact
  \/ \E s \in SubId : Approve(s)
  \/ \E s \in SubId, l \in Listing[managed] : Pick(s, l)
  \/ \E s \in SubId, st \in ShopifyStatus : Lapse(s, st)
  \/ Uninstall \/ Reinstall

SubscriptionSpec == SubscriptionInit /\ [][SubscriptionNext]_subscriptionVars

(* The merchant keeps opening the admin page, a webhook is delivered or    *)
(* given up, calls end, and Shopify does not fail every reconcile.         *)
Fairness ==
  /\ WF_subscriptionVars(\E o \in Op : OpenAdmin(o))
  /\ \A s \in SubId, st \in ShopifyStatus :
       WF_subscriptionVars(ApplyWebhook(s, st) \/ LoseWebhook(s, st))
  /\ \A o \in Op :
       /\ WF_subscriptionVars(FinishUpgrade(o) \/ FinishCancel(o)
                                 \/ FinishReconcile(o) \/ OpFails(o))
       /\ SF_subscriptionVars(FetchActive(o))
       /\ SF_subscriptionVars(FinishReconcile(o))

FairSpec == SubscriptionSpec /\ Fairness

-----------------------------------------------------------------------------
Listed == Listing[TRUE] \cup Listing[FALSE]

OpState ==
  {Idle}
    \cup [kind : {"reconcile"}, stage : {"asked", "answered"}, sub : SubId \cup {None}]
    \cup [kind : {"cancel"}, stage : {"asked", "answered"}, sub : SubId \cup {None}]
    \cup [kind : {"upgrade"}, stage : {"asked", "answered"}, sub : SubId \cup {None},
          listing : Listed]

SubscriptionTypeOK ==
  /\ managed \in BOOLEAN
  /\ row \in [sub : SubId \cup {None}, plan : Plan, status : SubscriptionStatus,
                 line : SubId \cup {None}]
  /\ subs \in [SubId -> [listing : Listed \cup {None}, status : ShopifyStatus,
                         linked : BOOLEAN]]
  /\ hooks \in [SubId \X ShopifyStatus -> 0..MaxCopies]
  /\ ops \in [Op -> OpState]
  /\ installed \in {"yes", "no", "redacted"}
  /\ approved \in SUBSET (Plan \ {Free})
  /\ changes \in 0..MaxChanges
  /\ clicks \in 0..MaxClicks

(* A paid plan is in force only if the merchant approved that very plan:   *)
(* not on the strength of a proposal, a name nobody knows, a price two     *)
(* plans share, or any order of webhooks, reconciles and clicks.           *)
PaidPlanWasApproved ==
  effectivePlan(row.plan, row.status) \in approved \cup {Free}

(* The row names the active subscription, its usage line if it has one,    *)
(* and its plan unless nothing tells which plan it is.  Where it has no    *)
(* usage line nothing is said of the row's: an earlier subscription's may  *)
(* stay there for good.                                                    *)
Agrees ==
  IF Active = {} THEN row.status # "active"
  ELSE \A s \in Active :
         /\ row.sub = s /\ row.status = "active"
         /\ subs[s].listing.metered => row.line = s
         /\ resolvePlan(subs[s].listing.name, subs[s].listing.price) # None
              => row.plan = PlanOf(s)

(* Once Shopify and the merchant are done, the row comes to say what       *)
(* Shopify says and stays so, whatever was lost, late or repeated.         *)
EventuallyAgrees == <>[](installed = "yes" => Agrees)
=============================================================================
