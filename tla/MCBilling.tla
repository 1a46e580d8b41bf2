----------------------------- MODULE MCBilling -----------------------------
(* The billing of one shop for TLC: what its conversations cost, or the    *)
(* row that says what it subscribes to.  A settlement takes the row as it  *)
(* comes (any of Row), so the two have no state in common and a behaviour  *)
(* is of one of them.                                                      *)
(*                                                                         *)
(* A free plan, and two paid ones of one price with one and two            *)
(* conversations included and one cent of overage each; on sale under the  *)
(* names the app gives them, or by the Partner dashboard: one under a name *)
(* of its own and without a usage line.                                    *)
EXTENDS Metering, Subscription, TLC

CONSTANTS
  Parts,   \* the parts a behaviour may be of
  free, growth, scale, other, line1, line2, none

VARIABLE part

MCPlan == {free, growth, scale}
MCIncluded == (free :> 1) @@ (growth :> 1) @@ (scale :> 2)
MCOverageMinor == (free :> 0) @@ (growth :> 1) @@ (scale :> 1)
MCPriceMinor == (free :> 0) @@ (growth :> 4) @@ (scale :> 4)

MCLineCap == (line1 :> 1) @@ (line2 :> 2)
FreeShop == [plan |-> free, status |-> "none", line |-> none]
GrowthShop == [plan |-> growth, status |-> "active", line |-> line1]
ScaleShop == [plan |-> scale, status |-> "active", line |-> line2]
MCRow == {FreeShop, GrowthShop, ScaleShop, [GrowthShop EXCEPT !.line = none],
          [GrowthShop EXCEPT !.line = line2]}

OnSale(plan, name, metered) == [plan |-> plan, name |-> name, price |-> 4, metered |-> metered]
MCListing ==
  (FALSE :> {OnSale(growth, growth, TRUE), OnSale(scale, scale, TRUE)}) @@
  (TRUE :> {OnSale(growth, growth, TRUE), OnSale(scale, other, FALSE)})

MCInit ==
  /\ Init /\ SubscriptionInit
  /\ part \in Parts /\ (part # "subscription" => ~managed)

MCNext ==
  /\ UNCHANGED part
  /\ \/ part = "metering" /\ Next /\ UNCHANGED subscriptionVars
     \/ part = "subscription" /\ SubscriptionNext /\ UNCHANGED vars

(* A behaviour of the row is one in which the merchant and the calls are   *)
(* fair, as Subscription has it; of a settlement nothing is assumed.       *)
MCSpec ==
  /\ MCInit /\ [][MCNext]_<<part, vars, subscriptionVars>>
  /\ part = "subscription" => Fairness
=============================================================================
