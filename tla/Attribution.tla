----------------------------- MODULE Attribution -----------------------------
(***************************************************************************)
(* The attribution chain of one shop: which sessions were shown the        *)
(* assistant, which are the control group, and which orders came of        *)
(* either.  packages/attribution, the exposures, carts, conversions and    *)
(* funnel_steps tables (store/sqlite.ts, store/postgres.ts), the routes of *)
(* server.ts that write them, the widget's mount() and the web pixel.      *)
(*                                                                         *)
(* A statement is atomic; between two statements of a request anything may *)
(* happen, and a crash forgets the request.                                *)
(***************************************************************************)
EXTENDS Integers, FiniteSets, FiniteSetsExt

CONSTANTS
  Sessions,     \* browsers, each with one cart, named by its session
  Orders,
  Nobody,       \* NULL in the session column
  Stranger,     \* the id the pixel makes up when it cannot read the session's
  Buyer,        \* the session that places each order
  Price,        \* what each order costs, in minor units
  Claims,       \* what a pixel may say an order cost
  Bucket,       \* bucketOf(): the hash of each session, of 0..Buckets - 1
  Buckets,
  MaxSaves,     \* bound: changes of the holdout fraction
  MaxCrashes,   \* bound: restarts of the gateway
  MaxRequests   \* bound: a shopper's requests under way at once

ASSUME AttributionAssumption ==
  /\ Nobody \notin Sessions /\ Stranger \notin Sessions /\ Nobody # Stranger
  /\ Buyer \in [Orders -> Sessions] /\ Price \in [Orders -> Nat] /\ Claims \subseteq Int
  /\ Buckets \in Nat \ {0} /\ Bucket \in [Sessions -> 0..Buckets - 1]
  /\ MaxSaves \in Nat /\ MaxCrashes \in Nat /\ MaxRequests \in Nat

Steps == {"cards_shown", "card_tapped", "cart_add"}
Tables == {"exposures", "carts", "conversions"}

(* The pixel names an order by its id, or by the checkout's token.         *)
Names == Orders \X {"id", "token"}
Amounts == {0} \cup Claims \cup {Price[o] : o \in Orders}

VARIABLES
  holdout,      \* settings.holdout, in buckets
  exposures,    \* [arm, engaged] of each session, arm "none" without a row
  links,        \* carts: the sessions whose cart is linked
  conversions,  \* [known, session, revenue, matched] of each name
  steps,        \* funnel_steps: <<session, step>>
  requests,     \* requests between two statements
  purging,      \* tables the redaction has still to empty
  shop,         \* the storefront: sessions shown the assistant, orders placed
  owed,         \* orders whose webhook is not acknowledged
  pixels,       \* orders whose pixel has still to report
  saves, crashes,
  unanswered,   \* history: sessions whose exposure was not answered
  steady        \* history: the fraction is as it was and nothing was redacted

vars == <<holdout, exposures, links, conversions, steps, requests, purging, shop, owed,
          pixels, saves, crashes, unanswered, steady>>
orderVars == <<conversions, owed, pixels>>
pageVars == <<exposures, steps, unanswered>>
bounds == <<saves, crashes>>

NoRow == [arm |-> "none", engaged |-> FALSE]
Unknown == [known |-> FALSE, session |-> Nobody, revenue |-> 0, matched |-> "unmatched"]

Init ==
  /\ holdout = 1
  /\ exposures = [s \in Sessions |-> NoRow] /\ links = {}
  /\ conversions = [n \in Names |-> Unknown] /\ steps = {}
  /\ requests = {} /\ purging = {}
  /\ shop = [shown |-> {}, placed |-> {}]
  /\ owed = {} /\ pixels = {} /\ saves = 0 /\ crashes = 0
  /\ unanswered = {} /\ steady = TRUE

-----------------------------------------------------------------------------
(* Exposure.                                                               *)

(* A shopper's request arrives.                                            *)
Started(r) ==
  /\ Cardinality({q \in requests : q.kind # "order"}) < MaxRequests
  /\ requests' = requests \cup {r}

(* assignArm()                                                             *)
Arm(s, fraction) == IF Bucket[s] < fraction THEN "holdout" ELSE "exposed"

(* The merchant saves the settings; at most half may be held out.          *)
SaveSettings(fraction) ==
  /\ saves < MaxSaves /\ 2 * fraction <= Buckets
  /\ holdout' = fraction /\ saves' = saves + 1
  /\ steady' = (steady /\ fraction = holdout)
  /\ UNCHANGED <<links, requests, purging, shop, crashes, pageVars, orderVars>>

(* mount() sends the beacon; handleExposure() reads the settings.          *)
Mount(s) ==
  /\ Started([kind |-> "expose", session |-> s, arm |-> Arm(s, holdout)])
  /\ UNCHANGED <<holdout, links, purging, shop, steady, bounds, pageVars, orderVars>>

(* recordExposure(): DO NOTHING on conflict.                               *)
Recorded(row, arm) == IF row.arm = "none" THEN [arm |-> arm, engaged |-> FALSE] ELSE row

RecordExposure(r) ==
  /\ r.kind = "expose"
  /\ exposures' = [exposures EXCEPT ![r.session] = Recorded(@, r.arm)]
  /\ requests' = (requests \ {r}) \cup {[r EXCEPT !.kind = "answer"]}
  /\ UNCHANGED <<holdout, links, steps, purging, shop, unanswered, steady, bounds, orderVars>>

(* Fault: the widget renders before it looks at its arm.                   *)
ShowAnyway(r) ==
  /\ r.kind = "answer"
  /\ shop' = [shop EXCEPT !.shown = @ \cup {r.session}]
  /\ requests' = requests \ {r}
  /\ UNCHANGED <<holdout, links, purging, steady, bounds, pageVars, orderVars>>

(* The arm just computed is the answer, not the one on record.             *)
Answer(r) ==
  /\ r.kind = "answer"
  /\ shop' = IF r.arm = "holdout" THEN shop ELSE [shop EXCEPT !.shown = @ \cup {r.session}]
  /\ requests' = requests \ {r}
  /\ UNCHANGED <<holdout, links, purging, steady, bounds, pageVars, orderVars>>

(* The beacon fails, before it is recorded or after: the widget renders.   *)
BeaconFails(r) ==
  /\ r.kind \in {"expose", "answer"}
  /\ shop' = [shop EXCEPT !.shown = @ \cup {r.session}]
  /\ requests' = requests \ {r}
  /\ unanswered' = unanswered \cup {r.session}
  /\ UNCHANGED <<holdout, exposures, links, steps, purging, steady, bounds, orderVars>>

-----------------------------------------------------------------------------
(* Conversation.                                                           *)

(* handleChat(): markEngaged() updates the row there is; the answer may    *)
(* show cards, and may have added to the cart.                             *)
Chat(s) ==
  /\ s \in shop.shown
  /\ exposures' = IF exposures[s].arm = "none" THEN exposures
                  ELSE [exposures EXCEPT ![s].engaged = TRUE]
  /\ steps' \in {steps, steps \cup {<<s, "cards_shown">>}}
  /\ UNCHANGED requests \/ Started([kind |-> "link", session |-> s])
  /\ UNCHANGED <<holdout, links, purging, shop, unanswered, steady, bounds, orderVars>>

(* handleCartAdd(), reached from a card.                                   *)
AddFromCard(s) ==
  /\ <<s, "cards_shown">> \in steps
  /\ Started([kind |-> "link", session |-> s])
  /\ steps' = steps \cup {<<s, "cart_add">>}
  /\ UNCHANGED <<holdout, exposures, links, purging, shop, unanswered, steady, bounds, orderVars>>

(* The event route keeps card taps only.                                   *)
TapCard(s) ==
  /\ <<s, "cards_shown">> \in steps
  /\ steps' = steps \cup {<<s, "card_tapped">>}
  /\ UNCHANGED <<holdout, exposures, links, requests, purging, shop, unanswered, steady,
                 bounds, orderVars>>

(* onCartChange() does not wait for linkCart().                            *)
LinkCart(r) ==
  /\ r.kind = "link"
  /\ links' = links \cup {r.session}
  /\ requests' = requests \ {r}
  /\ UNCHANGED <<holdout, purging, shop, steady, bounds, pageVars, orderVars>>

-----------------------------------------------------------------------------
(* Orders.                                                                 *)

(* The shopper checks out; the pixel of the checkout may not load.         *)
PlaceOrder(o) ==
  /\ o \notin shop.placed
  /\ shop' = [shop EXCEPT !.placed = @ \cup {o}]
  /\ owed' = owed \cup {o}
  /\ pixels' \in {pixels, pixels \cup {o}}
  /\ UNCHANGED <<holdout, links, conversions, requests, purging, steady, bounds, pageVars>>

Report(session, revenue, matched) ==
  [known |-> TRUE, session |-> session, revenue |-> revenue, matched |-> matched]

(* Fault: the first report stands, as in the store kept in memory.         *)
FirstReportStands(row, report) == IF row.known THEN row ELSE report

(* Fault: the last report stands.                                          *)
LastReportStands(row, report) == report

(* recordConversion(): the upsert.                                         *)
Upserted(row, report) ==
  IF ~row.known THEN report
  ELSE [known |-> TRUE,
        session |-> IF row.session = Nobody THEN report.session ELSE row.session,
        revenue |-> IF row.revenue >= report.revenue THEN row.revenue ELSE report.revenue,
        matched |-> IF row.matched = "unmatched" THEN report.matched ELSE row.matched]

RecordConversion(name, report) ==
  conversions' = [conversions EXCEPT ![name] = Upserted(@, report)]

(* sessionForCart()                                                        *)
SessionForCart(o) == IF Buyer[o] \in links THEN Buyer[o] ELSE Nobody

(* orders/create arrives: the session of its cart, if the cart is ours.    *)
HookLooksUp(o) ==
  /\ o \in owed
  /\ requests' = requests \cup {[kind |-> "order", order |-> o, session |-> SessionForCart(o)]}
  /\ UNCHANGED <<holdout, links, purging, shop, steady, bounds, pageVars, orderVars>>

(* The acknowledgement may be lost, and the webhook come again.            *)
HookRecords(r) ==
  /\ r.kind = "order"
  /\ RecordConversion(<<r.order, "id">>,
       Report(r.session, Price[r.order], IF r.session = Nobody THEN "unmatched" ELSE "cart"))
  /\ requests' = requests \ {r}
  /\ owed' \in {owed, owed \ {r.order}}
  /\ UNCHANGED <<holdout, links, purging, shop, pixels, steady, bounds, pageVars>>

(* handlePixel(): the session is what the pixel could read, the total any  *)
(* number the browser sent (the checkout's, in the shopper's currency and  *)
(* times 100, if the extension is as it was shipped), or 0 without one.    *)
PixelReports(o) ==
  /\ o \in pixels
  /\ \E session \in {Buyer[o], Stranger}, total \in Claims \cup {0}, key \in {"id", "token"} :
       RecordConversion(<<o, key>>, Report(session, total, "pixel"))
  /\ pixels' = pixels \ {o}
  /\ UNCHANGED <<holdout, links, requests, purging, shop, owed, steady, bounds, pageVars>>

PixelIsLost(o) ==
  /\ o \in pixels
  /\ pixels' = pixels \ {o}
  /\ UNCHANGED <<holdout, links, conversions, requests, purging, shop, owed, steady,
                 bounds, pageVars>>

-----------------------------------------------------------------------------
(* Redaction, restarts.                                                    *)

BeginPurge ==
  /\ purging = {} /\ steady
  /\ purging' = Tables /\ steady' = FALSE
  /\ holdout' = 1
  /\ UNCHANGED <<links, requests, shop, bounds, pageVars, orderVars>>

(* The tables one after the other; funnel_steps is not among them.         *)
PurgeTable ==
  \/ /\ "exposures" \in purging /\ purging' = purging \ {"exposures"}
     /\ exposures' = [s \in Sessions |-> NoRow]
     /\ UNCHANGED <<holdout, links, steps, requests, shop, unanswered, steady, bounds, orderVars>>
  \/ /\ purging = Tables \ {"exposures"} /\ purging' = purging \ {"carts"}
     /\ links' = {}
     /\ UNCHANGED <<holdout, requests, shop, steady, bounds, pageVars, orderVars>>
  \/ /\ purging = {"conversions"} /\ purging' = {}
     /\ conversions' = [n \in Names |-> Unknown]
     /\ UNCHANGED <<holdout, links, requests, shop, owed, pixels, steady, bounds, pageVars>>

(* What was between two statements is gone; a redaction is asked for again *)
(* by Shopify, an unanswered beacon renders the widget.                    *)
Crash ==
  LET beacons == {r \in requests : r.kind \in {"expose", "answer"}}
      pages == {r.session : r \in beacons}
  IN  /\ crashes < MaxCrashes /\ crashes' = crashes + 1
      /\ requests' = {}
      /\ shop' = [shop EXCEPT !.shown = @ \cup pages]
      /\ unanswered' = unanswered \cup pages
      /\ purging' = IF purging = {} THEN {} ELSE Tables
      /\ UNCHANGED <<holdout, exposures, links, steps, saves, steady, orderVars>>

-----------------------------------------------------------------------------
(* The report.                                                             *)

(* totals(): orders joined with the exposure of their session.             *)
OrdersOf(arm) ==
  {n \in Names : /\ conversions[n].known /\ conversions[n].session \in Sessions
                 /\ exposures[conversions[n].session].arm = arm}

Totals(arm) ==
  [sessions |-> Cardinality({s \in Sessions : exposures[s].arm = arm}),
   conversions |-> Cardinality(OrdersOf(arm)),
   revenue |-> MapThenSumSet(LAMBDA n : conversions[n].revenue, OrdersOf(arm))]

(* funnel(): people, from the exposures outward.                           *)
Funnel(arm) ==
  LET people == {s \in Sessions : exposures[s].arm = arm}
      Reached(step) == Cardinality({s \in people : <<s, step>> \in steps})
  IN  [sessions |-> Cardinality(people),
       engaged |-> Cardinality({s \in people : exposures[s].engaged}),
       cardsShown |-> Reached("cards_shown"), cardTapped |-> Reached("card_tapped"),
       cartAdd |-> Reached("cart_add"),
       converted |-> Cardinality({s \in people :
                       \E n \in Names : conversions[n].known /\ conversions[n].session = s})]

-----------------------------------------------------------------------------
Next ==
  \/ \E f \in 0..Buckets : SaveSettings(f)
  \/ \E s \in Sessions : Mount(s) \/ Chat(s) \/ AddFromCard(s) \/ TapCard(s)
  \/ \E r \in requests : \/ RecordExposure(r) \/ Answer(r) \/ BeaconFails(r)
                         \/ LinkCart(r) \/ HookRecords(r)
  \/ \E o \in Orders : PlaceOrder(o) \/ HookLooksUp(o) \/ PixelReports(o) \/ PixelIsLost(o)
  \/ BeginPurge \/ PurgeTable \/ Crash

(* Shopify delivers a webhook until it is acknowledged, and a request that *)
(* does not crash goes on.                                                 *)
Fairness ==
  /\ \A o \in Orders : WF_vars(HookLooksUp(o))
  /\ WF_vars(\E r \in requests : HookRecords(r) /\ owed' # owed)
  /\ WF_vars(PurgeTable)

Spec == Init /\ [][Next]_vars /\ Fairness

-----------------------------------------------------------------------------
(* Properties.                                                             *)

(* Types.                                                                  *)
TypeOK ==
  /\ holdout \in 0..Buckets /\ saves \in 0..MaxSaves /\ crashes \in 0..MaxCrashes
  /\ exposures \in [Sessions -> [arm : {"none", "exposed", "holdout"}, engaged : BOOLEAN]]
  /\ links \subseteq Sessions /\ steps \subseteq Sessions \X Steps /\ purging \subseteq Tables
  /\ conversions \in [Names -> [known : BOOLEAN, session : Sessions \cup {Nobody, Stranger},
                                revenue : Amounts,
                                matched : {"pixel", "cart", "unmatched"}]]
  /\ shop \in [shown : SUBSET Sessions, placed : SUBSET Orders]
  /\ owed \subseteq shop.placed /\ pixels \subseteq shop.placed
  /\ unanswered \subseteq Sessions /\ steady \in BOOLEAN

(* The control group never talked to the assistant: a session on record as *)
(* held out is engaged only if its beacon was not answered (the widget     *)
(* renders then, on purpose) or the fraction was changed under way, for    *)
(* the answer is computed anew on every page and the record is not.        *)
ControlGroupIsClean ==
  \A s \in Sessions : exposures[s].arm = "holdout" /\ exposures[s].engaged
                       => s \in unanswered \/ ~steady

(* An order whose cart was linked when its webhook came is credited to a   *)
(* session in the end, however often the webhook comes, whatever the pixel *)
(* said before, and across restarts.                                       *)
LinkedOrdersAreCredited ==
  \A o \in Orders :
    /\ o \in owed /\ Buyer[o] \in links
    /\ \A r \in requests : r.kind = "order" => r.order # o
    ~> (conversions[<<o, "id">>].session # Nobody \/ ~steady)

(* The conversions table is the ledger of OrderLedger: whatever totals the *)
(* pixel claims, in whatever order reports of the two ways fall, repeated  *)
(* or late, an order has one entry, its party, once known, stays, and its  *)
(* amount never falls, whether it is right or not.                         *)
Ledger == INSTANCE OrderLedger
  WITH Parties <- Sessions \cup {Stranger},
       ledger <- [n \in Names |-> [entered |-> conversions[n].known,
                                   party |-> conversions[n].session,
                                   amount |-> conversions[n].revenue]]
ImplementsLedger == Ledger!Spec

(* The comment of handlePixel(): the webhook is the truth, and overwrites  *)
(* the revenue the pixel claimed.                                          *)
WebhookIsTheTruth ==
  [][\A r \in requests :
       HookRecords(r) => conversions'[<<r.order, "id">>].revenue = Price[r.order]]_vars
=============================================================================
