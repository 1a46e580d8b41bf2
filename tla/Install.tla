------------------------------- MODULE Install -------------------------------
(***************************************************************************)
(* The access token of an installed shop (packages/gateway/src/shopify and *)
(* the admin routes): the row that holds it, the Shopify grants behind it, *)
(* and the calls that renew, cycle, replace and use it.                    *)
(*                                                                         *)
(* Background work and admin pages run at once, and each waits for Shopify *)
(* between reading the row and writing it.  An answer may be lost and a    *)
(* call may fail; a crash loses all of them.  The merchant may uninstall   *)
(* at any moment, of which the gateway hears later, perhaps not before the *)
(* app is installed again.  A row marked uninstalled is as good as none:   *)
(* get() does not return it and put() takes it over.                       *)
(***************************************************************************)
EXTENDS Integers, FiniteSets

CONSTANTS
  Op,            \* bound: calls under way at once
  MaxUninstalls, \* bound
  None

(* A grant that nobody holds is forgotten, so that these are enough.       *)
Grant == 1..(Cardinality(Op) + 2)

(* A non-expiring token; or an expiring one and the token that renews it,  *)
(* which live an hour and ninety days: "fresh", then "stale", then         *)
(* "lapsed".  Each may have been taken back before.                        *)
Kind == {"legacy", "fresh", "stale", "lapsed"}
Token == [kind : Kind, access : BOOLEAN, refresh : BOOLEAN]

ASSUME InstallAssumption ==
  /\ IsFiniteSet(Op) /\ MaxUninstalls \in Nat
  /\ None \notin Grant \cup Token

VARIABLES
  installed,  \* at Shopify
  grants,     \* what Shopify knows of the tokens somebody holds
  row,        \* the shops table: the grant stored, or None
  hooks,      \* app/uninstalled is on its way
  ops,        \* calls under way
  uninstalls

vars == <<installed, grants, row, hooks, ops, uninstalls>>
platform == <<installed, hooks, uninstalls>>

Legacy == [kind |-> "legacy", access |-> TRUE, refresh |-> FALSE]
Pair == [kind |-> "fresh", access |-> TRUE, refresh |-> TRUE]

(* Why a call runs: work nobody watches, an admin page, or a page that     *)
(* reads the subscription (and gets one new token if its own is refused).  *)
Why == {"work", "home", "reconcile"}
Stage == {"cycling", "refreshing", "renewed", "exchanging", "provisioned",
          "authorized", "calling"}
Idle == [stage |-> "idle", why |-> "work", grant |-> None]
Call == {Idle} \cup [stage : Stage, why : Why, grant : Grant \cup {None}]
HeldBy(r, os) == {r} \cup {os[o].grant : o \in Op}
Unused == Grant \ HeldBy(row, ops)
NewGrant == {g \in Unused : \A h \in Unused : g <= h}

Init ==
  /\ installed = FALSE
  /\ grants = [g \in Grant |-> None]
  /\ row = None
  /\ hooks = FALSE
  /\ ops = [o \in Op |-> Idle]
  /\ uninstalls = 0

-----------------------------------------------------------------------------
(* A step of the gateway: the row, the call, and what Shopify made of it.  *)
Step(o, op, r, gs) ==
  /\ ops' = [ops EXCEPT ![o] = op]
  /\ row' = r
  /\ grants' = [g \in Grant |-> IF g \in HeldBy(r, ops') THEN gs[g] ELSE None]
  /\ UNCHANGED platform

End(o) == Step(o, Idle, row, grants)

(* Shopify hands out a token.                                              *)
Mint(o, stage, token, gs) ==
  \E g \in NewGrant :
    Step(o, [ops[o] EXCEPT !.stage = stage, !.grant = g], row, [gs EXCEPT ![g] = token])

At(o, stage) == ops[o].stage = stage
token(o) == grants[ops[o].grant]

-----------------------------------------------------------------------------
(* What a token still good for anything needs first.                       *)
needs == [legacy |-> "cycling", fresh |-> "calling", stale |-> "refreshing"]

(* What becomes of a call that needs the token in row r: it cycles it,     *)
(* uses it, renews it, or gives up.                                        *)
freshShop(why, r) ==
  IF r # None /\ grants[r].kind # "lapsed"
  THEN [stage |-> needs[grants[r].kind], why |-> why, grant |-> r]
  ELSE Idle

(* Something needs the token: a charge, a background job.                  *)
Work(o) == ops[o] = Idle /\ Step(o, freshShop("work", row), row, grants)

(* The plan page, and the return from billing: the subscription is read.   *)
OpenPlan(o) ==
  /\ installed /\ ops[o] = Idle
  /\ Step(o, freshShop("reconcile", row), row, grants)

Exchanging(why) == [stage |-> "exchanging", why |-> why, grant |-> None]

(* The admin page: a shop without a token, or with one Shopify refuses on  *)
(* every call, gets one for the merchant's session token.                  *)
OpenHome(o) ==
  /\ installed /\ ops[o] = Idle
  /\ row # None => grants[row].kind = "legacy"
  /\ Step(o, Exchanging("home"), row, grants)

(* Shopify trades a non-expiring token for a pair and destroys it.         *)
cycleLegacyToken(o) ==
  /\ At(o, "cycling") /\ token(o).access
  /\ Mint(o, "renewed", Pair, [grants EXCEPT ![ops[o].grant].access = FALSE])

(* Shopify renews a pair; the old refresh token is retired.                *)
refreshAccessToken(o) ==
  /\ At(o, "refreshing") /\ token(o).refresh
  /\ Mint(o, "renewed", Pair, [grants EXCEPT ![ops[o].grant].refresh = FALSE])

(* Shopify refuses; the row stays as it was.                               *)
Refused(o) ==
  /\ \/ At(o, "cycling") /\ ~token(o).access
     \/ At(o, "refreshing") /\ ~token(o).refresh
  /\ End(o)

(* Fault: the new token is used, and not stored.                           *)
StoreRenewedLater(o) ==
  /\ At(o, "renewed")
  /\ Step(o, [ops[o] EXCEPT !.stage = "calling"], row, grants)

(* The pair is stored whole before it is used.                             *)
StoreRenewed(o) ==
  /\ At(o, "renewed")
  /\ Step(o, [ops[o] EXCEPT !.stage = "calling"], ops[o].grant, grants)

-----------------------------------------------------------------------------
(* A session token is exchanged for a new pair.                            *)
exchangeSessionToken(o) ==
  /\ At(o, "exchanging") /\ installed
  /\ Mint(o, "provisioned", Pair, grants)

(* provisionShop(): it is stored.  The home page may be done, or go on to  *)
(* read the subscription like a page whose token was rejected.             *)
StoreProvisioned(o) ==
  /\ At(o, "provisioned")
  /\ \/ /\ ops[o].why = "home"
        /\ Step(o, Idle, ops[o].grant, grants)
     \/ LET why == IF ops[o].why = "home" THEN "reconcile" ELSE "work"
        IN  Step(o, freshShop(why, ops[o].grant), ops[o].grant, grants)

(* The Admin API takes the token.                                          *)
Accepted(o) ==
  /\ At(o, "calling") /\ token(o).kind = "fresh" /\ token(o).access
  /\ End(o)

(* Fault: a dead token is a failure like any other.                        *)
RejectedForGood(o) ==
  /\ At(o, "calling") /\ ~(token(o).kind = "fresh" /\ token(o).access)
  /\ End(o)

(* It does not: a page replaces the token, once.                           *)
Rejected(o) ==
  /\ At(o, "calling") /\ ~(token(o).kind = "fresh" /\ token(o).access)
  /\ IF ops[o].why = "reconcile"
     THEN Step(o, Exchanging("reconcile"), row, grants)
     ELSE End(o)

(* A call fails on its way, or its answer is lost; a home page goes on.    *)
Fails(o) ==
  /\ ops[o] # Idle
  /\ \/ End(o)
     \/ /\ ops[o].stage \in {"exchanging", "provisioned"} /\ ops[o].why = "home"
        /\ Step(o, freshShop("reconcile", row), row, grants)

-----------------------------------------------------------------------------
(* The OAuth callback, whose state is good for one use: the merchant has   *)
(* approved, and the code is redeemed for a non-expiring token.            *)
Authorize(o) ==
  /\ ops[o] = Idle
  /\ installed' = TRUE
  /\ \E g \in NewGrant :
       /\ ops' = [ops EXCEPT ![o] = [stage |-> "authorized", why |-> "work", grant |-> g]]
       /\ grants' = [grants EXCEPT ![g] = Legacy]
  /\ UNCHANGED <<row, hooks, uninstalls>>

completeInstall(o) ==
  /\ At(o, "authorized")
  /\ Step(o, Idle, ops[o].grant, grants)

-----------------------------------------------------------------------------
(* Shopify installs the app without a callback.                            *)
InstallManaged ==
  /\ ~installed
  /\ installed' = TRUE
  /\ UNCHANGED <<grants, row, hooks, ops, uninstalls>>

(* The merchant uninstalls: every token dies, and the gateway is told.     *)
Uninstall ==
  /\ installed /\ uninstalls < MaxUninstalls
  /\ uninstalls' = uninstalls + 1
  /\ installed' = FALSE
  /\ hooks' = TRUE
  /\ grants' = [g \in Grant |-> IF grants[g] = None THEN None
                                ELSE [grants[g] EXCEPT !.access = FALSE, !.refresh = FALSE]]
  /\ UNCHANGED <<row, ops>>

Cleared ==
  /\ row' = None
  /\ grants' = [g \in Grant |-> IF g \in HeldBy(None, ops) THEN grants[g] ELSE None]
  /\ UNCHANGED <<installed, ops, uninstalls>>

(* markUninstalled(), however late.                                        *)
Uninstalled == hooks /\ hooks' = FALSE /\ Cleared

(* purge(): shop/redact comes two days after, if the app stays away.       *)
Redacted == ~installed /\ row # None /\ Cleared /\ UNCHANGED hooks

(* Time passes; no call takes ninety days.                                 *)
Age(g) ==
  /\ grants[g] # None
  /\ \/ /\ grants[g].kind = "fresh"
        /\ grants' = [grants EXCEPT ![g].kind = "stale", ![g].access = FALSE]
     \/ /\ grants[g].kind = "stale"
        /\ \A o \in Op : ops[o].grant # g
        /\ grants' = [grants EXCEPT ![g].kind = "lapsed", ![g].refresh = FALSE]
  /\ UNCHANGED <<row, ops, platform>>

Answered(o) ==
  cycleLegacyToken(o) \/ refreshAccessToken(o) \/ Refused(o)
    \/ StoreRenewed(o) \/ exchangeSessionToken(o) \/ StoreProvisioned(o)
    \/ Accepted(o) \/ Rejected(o) \/ completeInstall(o)

Next ==
  \/ \E o \in Op : Work(o) \/ OpenHome(o) \/ OpenPlan(o) \/ Authorize(o)
  \/ \E o \in Op : Answered(o) \/ Fails(o)
  \/ InstallManaged \/ Uninstall \/ Uninstalled \/ Redacted
  \/ \E g \in Grant : Age(g)

Spec == Init /\ [][Next]_vars

(* Every call ends.  The merchant comes back to both pages for ever, the   *)
(* pages' calls do not fail for ever, and the webhook comes in the end.    *)
Fairness ==
  /\ \A o \in Op : WF_vars(Answered(o) \/ Fails(o))
  /\ SF_vars(\E o \in Op : exchangeSessionToken(o))
  /\ SF_vars(\E o \in Op : StoreProvisioned(o))
  /\ SF_vars(\E o \in Op : ops[o].why = "reconcile" /\ Rejected(o))
  /\ SF_vars(\E o \in Op : OpenHome(o))
  /\ SF_vars(\E o \in Op : OpenPlan(o))
  /\ WF_vars(Uninstalled)

FairSpec == Spec /\ Fairness

-----------------------------------------------------------------------------
Sound(t) ==
  /\ t.access => t.kind \in {"legacy", "fresh"}
  /\ t.refresh => t.kind \in {"fresh", "stale"}

TypeOK ==
  /\ installed \in BOOLEAN /\ hooks \in BOOLEAN
  /\ grants \in [Grant -> Token \cup {None}]
  /\ row \in Grant \cup {None}
  /\ ops \in [Op -> Call]
  /\ uninstalls \in 0..MaxUninstalls
  /\ \A g \in Grant : grants[g] # None <=> g \in HeldBy(row, ops)
  /\ \A g \in Grant : grants[g] # None => Sound(grants[g])

(* The Admin API refuses non-expiring tokens: it is never called with one, *)
(* though the OAuth callback still stores them.                            *)
LegacyIsNeverUsed == \A o \in Op : At(o, "calling") => token(o).kind # "legacy"

(* A grant that can still be used or renewed without the merchant.         *)
Alive(g) ==
  g # None /\ (grants[g].refresh \/ (grants[g].kind = "legacy" /\ grants[g].access))

(* One is stored, or in an answer about to be.                             *)
Kept == Alive(row) \/ \E o \in Op : At(o, "renewed") /\ Alive(ops[o].grant)

(* A step may take the shop's last good token: an uninstall and its        *)
(* webhook, ninety idle days, a lost answer, or the storing of one that an *)
(* uninstall has killed meanwhile.                                         *)
Excused ==
  \/ ~installed' \/ row' = None
  \/ grants'[row'].kind = "lapsed"
  \/ \E o \in Op : ops[o].stage = "renewed" /\ ops'[o] = Idle
  \/ \E o \in Op : row' = ops[o].grant /\ ~Alive(row')

(* However many calls renew, cycle and replace the token at once, none of  *)
(* them strands the shop.                                                  *)
TokensAreKept == [][Kept /\ ~Kept' => Excused]_vars

(* The row's token can neither be used nor renewed, and says so.           *)
Wedged ==
  row # None /\ grants[row].kind \in {"stale", "lapsed"} /\ ~grants[row].refresh

(* An app that stays installed and is opened now and then always comes to  *)
(* have a good token again, whatever died, was lost, or came late; unless  *)
(* its row is wedged.                                                      *)
VisitsRepair == <>[]installed => []<>(Alive(row) \/ Wedged)
=============================================================================
