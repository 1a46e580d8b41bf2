------------------------------ MODULE Metering ------------------------------
(***************************************************************************)
(* Counting resolved conversations and charging overage for one shop       *)
(* (BillingService.settle over SqliteBillingStore, and Shopify's usage     *)
(* records behind recordUsage).  Every table is keyed by the shop first,   *)
(* so shops do not meet.  The subscription row is an input here: it may    *)
(* change to any of Row between two steps of a settlement in flight.       *)
(*                                                                         *)
(* A settlement is one call of settle(): it counts the conversation and    *)
(* decides in one synchronous step, then waits for the access token and    *)
(* for Shopify's answer.  Any number run at once, the process may crash    *)
(* between two steps, and a call may fail before or after Shopify acted.   *)
(***************************************************************************)
EXTENDS Entitlement

CONSTANTS
  Session,    \* ids chosen by the client
  MaxPeriod,  \* bound: the calendar months are 0..MaxPeriod
  MaxPurges,  \* bound on GDPR redactions
  Line,       \* usage line items at Shopify
  LineCap,    \* LineCap[l]: the cap the merchant approved with it
  Row         \* the subscription rows that can be in force

Period == 0..MaxPeriod
Conversation == [period : Period, session : Session]
SubscriptionRow == [plan : Plan, status : SubscriptionStatus, line : Line \cup {None}]
FreeRow == [plan |-> Free, status |-> "none", line |-> None]

ASSUME MeteringAssumption ==
  /\ MaxPeriod \in Nat
  /\ MaxPurges \in Nat
  /\ None \notin Line
  /\ LineCap \in [Line -> Nat]
  /\ Row \subseteq SubscriptionRow
  /\ FreeRow \in Row

VARIABLES
  period,    \* the current calendar month
  record,    \* the subscriptions row
  resolved,  \* the resolved table: conversations counted
  overage,   \* the overage table: cents on the ledger of each month
  settling,  \* settlements in flight past the decision to charge
  usage,     \* usage records Shopify holds
  cycle,     \* cycle[l]: cents charged on l since Shopify's cycle began
  overaged,  \* history: conversations judged "overage" since the last purge
  purges     \* how many redactions there were

tables == <<record, resolved, overage>>
shopify == <<usage, cycle>>
vars == <<period, record, resolved, overage, settling, usage, cycle, overaged, purges>>

Settlement == [conv : Conversation, line : Line \cup {None}, minor : Nat,
               stage : {"asking", "accepted", "refused"}]
Key == Conversation
UsageRecord == [key : Key, conv : Conversation, line : Line, minor : Nat]

Of(convs, p) == {c \in convs : c.period = p}
resolvedCount(p) == Cardinality(Of(resolved, p))

(* check(): may this shop be served now?                                   *)
check == evaluate(record.plan, record.status, resolvedCount(period), overage[period])

(* Fault: a key that also names the usage line.                            *)
KeyWithLine(x) == <<x.conv, x.line>>
usageIdempotencyKey(x) == x.conv

-----------------------------------------------------------------------------
Init ==
  /\ period = 0
  /\ record = FreeRow
  /\ resolved = {}
  /\ overage = [p \in Period |-> 0]
  /\ settling = {}
  /\ usage = {}
  /\ cycle = [l \in Line |-> 0]
  /\ overaged = {}
  /\ purges = 0

(* Fault: the conversation being judged is counted against itself.         *)
VerdictAfterCounting(c) ==
  evaluate(record.plan, record.status,
           Cardinality(Of(resolved \cup {c}, c.period)), overage[c.period])

(* The verdict on a conversation just counted: the state before it counts  *)
(* decides whether it fell inside the allowance.                           *)
VerdictOn(c) ==
  evaluate(record.plan, record.status,
           Cardinality(Of(resolved \cup {c}, c.period)) - 1, overage[c.period])

(* Fault: every counted conversation of a shop with a line is charged.     *)
SettleWhateverTheVerdict(s) ==
  LET c == [period |-> period, session |-> s]
  IN  /\ c \notin resolved
      /\ resolved' = resolved \cup {c}
      /\ settling' = settling \cup
           {[conv |-> c, line |-> record.line, stage |-> "asking",
             minor |-> OverageMinor[record.plan]]}
      /\ overaged' = IF VerdictOn(c) = "overage" THEN overaged \cup {c} ELSE overaged
      /\ UNCHANGED <<period, record, overage, shopify, purges>>

(* A billable turn of session s ends: markResolved, then the decision.     *)
(* Only the first such turn of a session and month gets past the key.      *)
Settle(s) ==
  LET c == [period |-> period, session |-> s]
  IN  /\ c \notin resolved
      /\ resolved' = resolved \cup {c}
      /\ IF VerdictOn(c) = "overage"
         THEN /\ settling' = settling \cup
                   {[conv |-> c, line |-> record.line, stage |-> "asking",
                     minor |-> OverageMinor[record.plan]]}
              /\ overaged' = overaged \cup {c}
         ELSE UNCHANGED <<settling, overaged>>
      /\ UNCHANGED <<period, record, overage, shopify, purges>>

AddOverage(x) == overage' = [overage EXCEPT ![x.conv.period] = @ + x.minor]

(* No token for the shop, or no usage line: the ledger alone is charged.   *)
SettleLocally(x) ==
  /\ x.stage = "asking"
  /\ AddOverage(x)
  /\ settling' = settling \ {x}
  /\ UNCHANGED <<period, record, resolved, shopify, overaged, purges>>

(* Shopify handles appUsageRecordCreate: a key it has seen is answered     *)
(* with the record it made then; a charge beyond the cap is refused.       *)
ShopifyAccepts(x) ==
  LET key == usageIdempotencyKey(x)
      seen == \E u \in usage : u.key = key
  IN  /\ x.stage = "asking" /\ x.line # None
      /\ \/ /\ seen
            /\ UNCHANGED shopify
         \/ /\ ~seen
            /\ cycle[x.line] + x.minor <= LineCap[x.line]
            /\ usage' = usage \cup {[key |-> key, conv |-> x.conv,
                                     line |-> x.line, minor |-> x.minor]}
            /\ cycle' = [cycle EXCEPT ![x.line] = @ + x.minor]
      /\ settling' = (settling \ {x}) \cup {[x EXCEPT !.stage = "accepted"]}
      /\ UNCHANGED <<period, tables, overaged, purges>>

ShopifyRefuses(x) ==
  /\ x.stage = "asking" /\ x.line # None
  /\ ~\E u \in usage : u.key = usageIdempotencyKey(x)
  /\ cycle[x.line] + x.minor > LineCap[x.line]
  /\ settling' = (settling \ {x}) \cup {[x EXCEPT !.stage = "refused"]}
  /\ UNCHANGED <<period, tables, shopify, overaged, purges>>

(* Fault: the settlement is kept for another try after its answer.         *)
AnsweredButKept(x) ==
  /\ x.stage \in {"accepted", "refused"}
  /\ IF x.stage = "accepted" THEN AddOverage(x) ELSE UNCHANGED overage
  /\ UNCHANGED <<period, record, resolved, settling, shopify, overaged, purges>>

(* The answer arrives: an accepted charge goes on the ledger.              *)
SettleAnswered(x) ==
  /\ x.stage \in {"accepted", "refused"}
  /\ IF x.stage = "accepted" THEN AddOverage(x) ELSE UNCHANGED overage
  /\ settling' = settling \ {x}
  /\ UNCHANGED <<period, record, resolved, shopify, overaged, purges>>

(* settle() never throws and never retries: a failed token refresh, a      *)
(* lapsed line, or an answer that is lost ends the settlement.             *)
SettleFails(x) ==
  /\ settling' = settling \ {x}
  /\ UNCHANGED <<period, tables, shopify, overaged, purges>>

(* The process dies; the tables are on disk.                               *)
Crash ==
  /\ settling # {}
  /\ settling' = {}
  /\ UNCHANGED <<period, tables, shopify, overaged, purges>>

(* shop/redact: every billing row of the shop goes.                        *)
Purge ==
  /\ purges < MaxPurges
  /\ purges' = purges + 1
  /\ record' = FreeRow
  /\ resolved' = {}
  /\ overage' = [p \in Period |-> 0]
  /\ overaged' = {}
  /\ UNCHANGED <<period, settling, shopify>>

-----------------------------------------------------------------------------
(* The world around a settlement.                                          *)
RecordChanges ==
  /\ record' \in Row
  /\ UNCHANGED <<period, resolved, overage, settling, shopify, overaged, purges>>

NewMonth ==
  /\ period < MaxPeriod
  /\ period' = period + 1
  /\ UNCHANGED <<tables, settling, shopify, overaged, purges>>

(* A subscription is billed every thirty days, not by the calendar.        *)
NewCycle(l) ==
  /\ cycle[l] > 0
  /\ cycle' = [cycle EXCEPT ![l] = 0]
  /\ UNCHANGED <<period, tables, settling, usage, overaged, purges>>

Next ==
  \/ \E s \in Session : Settle(s)
  \/ \E x \in settling : SettleLocally(x)
  \/ \E x \in settling : ShopifyAccepts(x)
  \/ \E x \in settling : ShopifyRefuses(x)
  \/ \E x \in settling : SettleAnswered(x)
  \/ \E x \in settling : SettleFails(x)
  \/ Crash \/ Purge
  \/ RecordChanges \/ NewMonth
  \/ \E l \in Line : NewCycle(l)

Spec == Init /\ [][Next]_vars

-----------------------------------------------------------------------------
TypeOK ==
  /\ period \in Period
  /\ record \in Row
  /\ resolved \in SUBSET Conversation
  /\ overage \in [Period -> Nat]
  /\ settling \in SUBSET Settlement
  /\ usage \in SUBSET UsageRecord
  /\ cycle \in [Line -> Nat]
  /\ overaged \in SUBSET Conversation
  /\ purges \in 0..MaxPurges

(* A conversation is charged at Shopify at most once, whatever is lost,    *)
(* retried, crashed or even purged and counted again: the idempotency key  *)
(* is derived from the session and month alone.                            *)
ChargedOnce == \A u, v \in usage : u.conv = v.conv => u = v

(* Every plan that charges overage includes at least n conversations.      *)
IncludedAtLeast(n) == \A q \in Plan : OverageMinor[q] > 0 => n <= Included[q]

(* In every month the conversations judged overage are at most those       *)
(* counted beyond the allowance, however many settlements run at once:     *)
(* counting and deciding are one step, so no two share an ordinal.         *)
OverageBeyondAllowance ==
  \A p \in Period, n \in {Included[q] : q \in Plan} :
    IncludedAtLeast(n) /\ Of(overaged, p) # {} =>
      Cardinality(Of(overaged, p)) + n <= resolvedCount(p)

(* Shopify holds a charge only for a conversation that was counted and     *)
(* judged overage (until a redaction forgets it).                          *)
ChargesAreJustified ==
  purges = 0 => \A u \in usage : u.conv \in resolved /\ u.conv \in overaged

(* No plan charges more than m for a conversation.                         *)
ChargesAtMost(m) == \A q \in Plan : OverageMinor[q] <= m

(* The merchant's usage page never shows more overage than the judged      *)
(* conversations cost: each leaves its settlement once, so its charge is   *)
(* added at most once.                                                     *)
LedgerNeverOverstates ==
  purges = 0 =>
    \A p \in Period, m \in {OverageMinor[q] : q \in Plan} :
      ChargesAtMost(m) => overage[p] <= m * Cardinality(Of(overaged, p))
=============================================================================
