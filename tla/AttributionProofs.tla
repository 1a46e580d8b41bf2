-------------------------- MODULE AttributionProofs --------------------------
(***************************************************************************)
(* Theorems about Attribution, for any sessions, orders, buckets and       *)
(* number of requests at once.                                             *)
(*                                                                         *)
(* The refinement needs of the detailed state only its types and that a    *)
(* name without a row is the empty row (Blank): then every upsert is a     *)
(* report the ledger hears.  That the control group is clean is not        *)
(* inductive: the engagement of a session comes of a page that was shown,  *)
(* which came of an answer, which was computed when the beacon arrived.    *)
(* Computed, OnRecord, Shown and Talked follow that chain.                 *)
(***************************************************************************)
EXTENDS Attribution, TLAPS

Beacon == [kind : {"expose", "answer"}, session : Sessions, arm : {"exposed", "holdout"}]
CartLink == [kind : {"link"}, session : Sessions]
Hook == [kind : {"order"}, order : Orders, session : Sessions \cup {Nobody}]

Requests == requests \subseteq Beacon \cup CartLink \cup Hook
Blank == \A n \in Names : ~conversions[n].known => conversions[n] = Unknown

Typed == TypeOK /\ Requests /\ Blank

(* While the fraction is as it was.                                        *)
Computed == \A r \in requests : r.kind \in {"expose", "answer"} => r.arm = Arm(r.session, holdout)
OnRecord == \A s \in Sessions : exposures[s].arm \in {"none", Arm(s, holdout)}
Shown == \A s \in shop.shown : s \in unanswered \/ Arm(s, holdout) = "exposed"

Talked == \A s \in Sessions : exposures[s].engaged => s \in shop.shown

IInv == Talked /\ (steady => Computed /\ OnRecord /\ Shown)

-----------------------------------------------------------------------------
(* Lemmas about the operators.                                             *)

Row == [known : BOOLEAN, session : Sessions \cup {Nobody, Stranger},
        revenue : Amounts, matched : {"pixel", "cart", "unmatched"}]

Reports == [known : {TRUE}, session : Sessions \cup {Nobody, Stranger},
            revenue : Amounts, matched : {"pixel", "cart", "unmatched"}]

LEMMA ArmTyped ==
  ASSUME NEW s, NEW f
  PROVE  Arm(s, f) \in {"exposed", "holdout"}
BY DEF Arm

LEMMA EmptyRow == Unknown \in Row
BY DEF Unknown, Row, Amounts

(* An upsert leaves a row that is known, whose party is that of the row,   *)
(* or of the report if the row had none, and whose amount is the larger    *)
(* one.                                                                    *)
LEMMA UpsertEnters ==
  ASSUME NEW row \in Row, ~row.known => row = Unknown, NEW report \in Reports
  PROVE  /\ Upserted(row, report) \in Row
         /\ Upserted(row, report).known
         /\ Upserted(row, report).session =
              IF row.session = Nobody THEN report.session ELSE row.session
         /\ Upserted(row, report).revenue =
              IF row.known /\ row.revenue >= report.revenue THEN row.revenue ELSE report.revenue
<1>1. CASE ~row.known
  <2>1. Upserted(row, report) = report /\ row.session = Nobody
    BY <1>1 DEF Upserted, Unknown
  <2>2. report \in Row /\ report.known
    BY DEF Reports, Row
  <2> QED BY <1>1, <2>1, <2>2
<1>2. CASE row.known
  <2> DEFINE new == Upserted(row, report)
  <2>1. new = [known |-> TRUE,
               session |-> IF row.session = Nobody THEN report.session ELSE row.session,
               revenue |-> IF row.revenue >= report.revenue THEN row.revenue ELSE report.revenue,
               matched |-> IF row.matched = "unmatched" THEN report.matched ELSE row.matched]
    BY <1>2 DEF Upserted
  <2>2. new.revenue \in Amounts
    BY <2>1 DEF Row, Reports
  <2>3. new.session \in Sessions \cup {Nobody, Stranger} /\ new.matched \in {"pixel", "cart", "unmatched"}
    BY <2>1 DEF Row, Reports
  <2>4. new \in Row
    BY <2>1, <2>2, <2>3 DEF Row
  <2> QED BY <1>2, <2>1, <2>4
<1> QED BY <1>1, <1>2

-----------------------------------------------------------------------------
(* Types.                                                                  *)

(* The conversions stay rows, and names not heard of stay blank.           *)
LEMMA OrdersTyped ==
  ASSUME Typed
  PROVE  /\ conversions \in [Names -> Row]
         /\ \A n \in Names, report \in Reports :
              /\ [conversions EXCEPT ![n] = Upserted(@, report)] \in [Names -> Row]
              /\ \A m \in Names :
                   LET new == [conversions EXCEPT ![n] = Upserted(@, report)]
                   IN  ~new[m].known => new[m] = Unknown
<1>1. conversions \in [Names -> Row]
  BY DEF Typed, TypeOK, Row
<1>2. ASSUME NEW n \in Names, NEW report \in Reports
      PROVE  /\ [conversions EXCEPT ![n] = Upserted(@, report)] \in [Names -> Row]
             /\ \A m \in Names :
                  LET new == [conversions EXCEPT ![n] = Upserted(@, report)]
                  IN  ~new[m].known => new[m] = Unknown
  <2>1. Upserted(conversions[n], report) \in Row /\ Upserted(conversions[n], report).known
    BY <1>1, UpsertEnters DEF Typed, Blank
  <2> QED BY <1>1, <2>1 DEF Typed, Blank
<1> QED BY <1>1, <1>2

(* What the webhook and the pixel report.                                  *)
LEMMA HookReports ==
  ASSUME NEW r \in Hook
  PROVE  /\ <<r.order, "id">> \in Names
         /\ Report(r.session, Price[r.order], IF r.session = Nobody THEN "unmatched" ELSE "cart")
              \in Reports
<1>1. r.order \in Orders /\ r.session \in Sessions \cup {Nobody}
  BY DEF Hook
<1>2. Price[r.order] \in Amounts
  BY <1>1 DEF Amounts
<1> QED BY <1>1, <1>2 DEF Report, Reports, Names

LEMMA PixelReportsTyped ==
  ASSUME NEW o \in Orders, NEW session \in {Buyer[o], Stranger}, NEW total \in Claims \cup {0},
         NEW key \in {"id", "token"}
  PROVE  <<o, key>> \in Names /\ Report(session, total, "pixel") \in Reports
<1>1. session \in Sessions \cup {Nobody, Stranger} /\ total \in Amounts
  BY AttributionAssumption DEF Amounts
<1> QED BY <1>1 DEF Report, Reports, Names

LEMMA InitTyped == Init => Typed
<1> SUFFICES ASSUME Init PROVE Typed
  OBVIOUS
<1>1. conversions \in [Names -> Row] /\ Blank
  BY EmptyRow DEF Init, Blank
<1>2. exposures \in [Sessions -> [arm : {"none", "exposed", "holdout"}, engaged : BOOLEAN]]
  BY DEF Init, NoRow
<1>3. holdout \in 0..Buckets /\ saves \in 0..MaxSaves /\ crashes \in 0..MaxCrashes
  BY AttributionAssumption DEF Init
<1> QED
  BY <1>1, <1>2, <1>3 DEF Init, Typed, TypeOK, Row, Requests

LEMMA StepTyped == Typed /\ [Next]_vars => Typed'
<1> SUFFICES ASSUME Typed, [Next]_vars PROVE Typed'
  OBVIOUS
<1> USE DEF Started, bounds, pageVars, orderVars
<1>1. ASSUME NEW f \in 0..Buckets, SaveSettings(f) PROVE Typed'
  BY <1>1, AttributionAssumption DEF SaveSettings, Typed, TypeOK, Requests, Blank
<1>2. ASSUME NEW s \in Sessions, Mount(s) PROVE Typed'
  <2>1. [kind |-> "expose", session |-> s, arm |-> Arm(s, holdout)] \in Beacon
    BY ArmTyped DEF Beacon
  <2> QED BY <1>2, <2>1 DEF Mount, Typed, TypeOK, Requests, Blank
<1>3. ASSUME NEW s \in Sessions, Chat(s) PROVE Typed'
  <2>1. [kind |-> "link", session |-> s] \in CartLink
    BY DEF CartLink
  <2>2. Requests'
    BY <1>3, <2>1 DEF Chat, Typed, Requests
  <2>3. exposures' \in [Sessions -> [arm : {"none", "exposed", "holdout"}, engaged : BOOLEAN]]
    <3>1. exposures \in [Sessions -> [arm : {"none", "exposed", "holdout"}, engaged : BOOLEAN]]
      BY DEF Typed, TypeOK
    <3>2. exposures' \in {exposures, [exposures EXCEPT ![s].engaged = TRUE]}
      BY <1>3 DEF Chat
    <3> QED BY <3>1, <3>2
  <2>4. steps' \subseteq Sessions \X Steps
    BY <1>3 DEF Chat, Typed, TypeOK, Steps
  <2> QED BY <1>3, <2>2, <2>3, <2>4 DEF Chat, Typed, TypeOK, Blank
<1>4. ASSUME NEW s \in Sessions, AddFromCard(s) PROVE Typed'
  <2>1. [kind |-> "link", session |-> s] \in CartLink
    BY DEF CartLink
  <2>2. steps' \subseteq Sessions \X Steps
    BY <1>4 DEF AddFromCard, Typed, TypeOK, Steps
  <2> QED BY <1>4, <2>1, <2>2 DEF AddFromCard, Typed, TypeOK, Requests, Blank
<1>5. ASSUME NEW s \in Sessions, TapCard(s) PROVE Typed'
  <2>1. steps' \subseteq Sessions \X Steps
    BY <1>5 DEF TapCard, Typed, TypeOK, Steps
  <2> QED BY <1>5, <2>1 DEF TapCard, Typed, TypeOK, Requests, Blank
<1>6. ASSUME NEW r \in requests, RecordExposure(r) PROVE Typed'
  <2>1. r \in Beacon
    BY <1>6 DEF RecordExposure, Typed, Requests, Beacon, CartLink, Hook
  <2>2. [r EXCEPT !.kind = "answer"] \in Beacon
    BY <2>1 DEF Beacon
  <2>3. exposures' \in [Sessions -> [arm : {"none", "exposed", "holdout"}, engaged : BOOLEAN]]
    BY <1>6, <2>1 DEF RecordExposure, Recorded, Beacon, Typed, TypeOK
  <2> QED BY <1>6, <2>2, <2>3 DEF RecordExposure, Typed, TypeOK, Requests, Blank
<1>7. ASSUME NEW r \in requests, Answer(r) PROVE Typed'
  <2>1. r \in Beacon
    BY <1>7 DEF Answer, Typed, Requests, Beacon, CartLink, Hook
  <2>2. shop' \in [shown : SUBSET Sessions, placed : SUBSET Orders] /\ shop'.placed = shop.placed
    BY <1>7, <2>1 DEF Answer, Beacon, Typed, TypeOK
  <2> QED BY <1>7, <2>2 DEF Answer, Typed, TypeOK, Requests, Blank
<1>8. ASSUME NEW r \in requests, BeaconFails(r) PROVE Typed'
  <2>1. r \in Beacon
    BY <1>8 DEF BeaconFails, Typed, Requests, Beacon, CartLink, Hook
  <2>2. shop' \in [shown : SUBSET Sessions, placed : SUBSET Orders] /\ shop'.placed = shop.placed
        /\ unanswered' \subseteq Sessions
    BY <1>8, <2>1 DEF BeaconFails, Beacon, Typed, TypeOK
  <2> QED BY <1>8, <2>2 DEF BeaconFails, Typed, TypeOK, Requests, Blank
<1>9. ASSUME NEW r \in requests, LinkCart(r) PROVE Typed'
  <2>1. r.session \in Sessions
    BY <1>9 DEF LinkCart, Typed, Requests, Beacon, CartLink, Hook
  <2> QED BY <1>9, <2>1 DEF LinkCart, Typed, TypeOK, Requests, Blank
<1>10. ASSUME NEW r \in requests, HookRecords(r) PROVE Typed'
  <2>1. r \in Hook
    BY <1>10 DEF HookRecords, Typed, Requests, Beacon, CartLink, Hook
  <2>2. conversions' \in [Names -> Row] /\ Blank'
    BY <1>10, <2>1, HookReports, OrdersTyped DEF HookRecords, RecordConversion, Blank
  <2> QED BY <1>10, <2>2 DEF HookRecords, Typed, TypeOK, Requests, Row
<1>11. ASSUME NEW o \in Orders, PlaceOrder(o) PROVE Typed'
  <2>1. /\ shop' \in [shown : SUBSET Sessions, placed : SUBSET Orders]
        /\ shop'.placed = shop.placed \cup {o}
    BY <1>11 DEF PlaceOrder, Typed, TypeOK
  <2> QED BY <1>11, <2>1 DEF PlaceOrder, Typed, TypeOK, Requests, Blank
<1>12. ASSUME NEW o \in Orders, HookLooksUp(o) PROVE Typed'
  <2>1. [kind |-> "order", order |-> o, session |-> SessionForCart(o)] \in Hook
    BY AttributionAssumption DEF Hook, SessionForCart
  <2> QED BY <1>12, <2>1 DEF HookLooksUp, Typed, TypeOK, Requests, Blank
<1>13. ASSUME NEW o \in Orders, PixelReports(o) PROVE Typed'
  <2>1. PICK session \in {Buyer[o], Stranger}, total \in Claims \cup {0}, key \in {"id", "token"} :
          RecordConversion(<<o, key>>, Report(session, total, "pixel"))
    BY <1>13 DEF PixelReports
  <2>2. conversions' \in [Names -> Row] /\ Blank'
    BY <2>1, PixelReportsTyped, OrdersTyped DEF RecordConversion, Blank
  <2>3. /\ pixels' = pixels \ {o}
        /\ UNCHANGED <<holdout, links, requests, purging, shop, owed, steady, bounds, pageVars>>
    BY <1>13 DEF PixelReports
  <2>4. TypeOK'
    BY <2>2, <2>3 DEF Typed, TypeOK, Row
  <2> QED BY <2>2, <2>3, <2>4 DEF Typed, Requests
<1>14. ASSUME NEW o \in Orders, PixelIsLost(o) PROVE Typed'
  BY <1>14 DEF PixelIsLost, Typed, TypeOK, Requests, Blank
<1>15. CASE BeginPurge
  <2>1. holdout' = 1 /\ purging' = Tables /\ steady' = FALSE
    BY <1>15 DEF BeginPurge
  <2>2. holdout' \in 0..Buckets
    BY <2>1, AttributionAssumption
  <2> QED BY <1>15, <2>1, <2>2 DEF BeginPurge, Typed, TypeOK, Requests, Blank
<1>16. CASE PurgeTable
  <2>1. CASE exposures' = [s \in Sessions |-> NoRow] /\ UNCHANGED <<conversions, links>>
    <3>1. exposures' \in [Sessions -> [arm : {"none", "exposed", "holdout"}, engaged : BOOLEAN]]
      BY <2>1 DEF NoRow
    <3> QED BY <1>16, <2>1, <3>1 DEF PurgeTable, Typed, TypeOK, Requests, Blank
  <2>2. CASE links' = {} /\ UNCHANGED <<exposures, conversions>>
    BY <1>16, <2>2 DEF PurgeTable, Typed, TypeOK, Requests, Blank
  <2>3. CASE conversions' = [n \in Names |-> Unknown] /\ UNCHANGED <<exposures, links>>
    <3>1. conversions' \in [Names -> Row] /\ Blank'
      BY <2>3, EmptyRow DEF Blank
    <3> QED BY <1>16, <2>3, <3>1 DEF PurgeTable, Typed, TypeOK, Requests, Row
  <2> QED BY <1>16, <2>1, <2>2, <2>3 DEF PurgeTable
<1>17. CASE Crash
  <2> DEFINE pages == {r.session : r \in {q \in requests : q.kind \in {"expose", "answer"}}}
  <2>1. pages \subseteq Sessions
    BY DEF Typed, Requests, Beacon, CartLink, Hook
  <2>2. shop' = [shop EXCEPT !.shown = @ \cup pages] /\ unanswered' = unanswered \cup pages
    BY <1>17 DEF Crash
  <2>3. /\ shop' \in [shown : SUBSET Sessions, placed : SUBSET Orders] /\ shop'.placed = shop.placed
        /\ unanswered' \subseteq Sessions
    BY <2>1, <2>2 DEF Typed, TypeOK
  <2>4. crashes' \in 0..MaxCrashes
    BY <1>17, AttributionAssumption DEF Crash, Typed, TypeOK
  <2> QED BY <1>17, <2>3, <2>4 DEF Crash, Typed, TypeOK, Requests, Blank
<1>18. CASE UNCHANGED vars
  BY <1>18 DEF vars, Typed, TypeOK, Requests, Blank
<1> QED
  BY <1>1, <1>2, <1>3, <1>4, <1>5, <1>6, <1>7, <1>8, <1>9, <1>10, <1>11, <1>12, <1>13, <1>14,
     <1>15, <1>16, <1>17, <1>18 DEF Next

(* Every variable keeps its type, and so do the requests under way and the *)
(* rows of conversions: TypeOK, and what it does not say.                  *)
THEOREM TypeCorrect == Spec => [](TypeOK /\ Requests /\ Blank)
BY InitTyped, StepTyped, PTL DEF Spec, Typed

-----------------------------------------------------------------------------
(* The ledger.                                                             *)

Entry(row) == [entered |-> row.known, party |-> row.session, amount |-> row.revenue]

Entries == [n \in Names |-> Entry(conversions[n])]

(* The entry of an upserted row is the entry the ledger makes of it.       *)
LEMMA EntryOfUpsert ==
  ASSUME NEW row \in Row, ~row.known => row = Unknown, NEW report \in Reports
  PROVE  Entry(Upserted(row, report)) =
           [entered |-> TRUE,
            party |-> IF Entry(row).party = Nobody THEN report.session ELSE Entry(row).party,
            amount |-> Ledger!Largest(Entry(row), report.revenue)]
BY UpsertEnters DEF Entry, Ledger!Largest

(* A report of an order is one the ledger hears.                           *)
LEMMA ReportIsHeard ==
  ASSUME Typed, NEW n \in Names, NEW report \in Reports, RecordConversion(n, report)
  PROVE  Ledger!Hear(n)
<1> DEFINE new == Upserted(conversions[n], report)
<1>1. conversions[n] \in Row /\ (~conversions[n].known => conversions[n] = Unknown)
  BY OrdersTyped DEF Typed, Blank
<1>2. Entry(new) =
        [entered |-> TRUE,
         party |-> IF Entries[n].party = Nobody THEN report.session ELSE Entries[n].party,
         amount |-> Ledger!Largest(Entries[n], report.revenue)]
  BY <1>1, EntryOfUpsert DEF Entries
<1>3. conversions' = [conversions EXCEPT ![n] = new]
  BY DEF RecordConversion
<1> HIDE DEF new
<1>4. conversions'[n] = new /\ \A m \in Names \ {n} : conversions'[m] = conversions[m]
  BY <1>3, OrdersTyped
<1>5. Entries' = [Entries EXCEPT ![n] = Entry(new)]
  BY <1>4 DEF Entries, Entry
<1>6. report.session \in (Sessions \cup {Stranger}) \cup {Nobody} /\ report.revenue \in Amounts
  BY DEF Reports
<1>7. \E p \in (Sessions \cup {Stranger}) \cup {Nobody}, said \in Amounts :
        Entries' = [Entries EXCEPT ![n] =
                      [entered |-> TRUE,
                       party |-> IF @.party = Nobody THEN p ELSE @.party,
                       amount |-> Ledger!Largest(@, said)]]
  <2>1. n \in DOMAIN Entries
    BY DEF Entries
  <2> QED BY <1>2, <1>5, <1>6, <2>1
<1> QED BY <1>7 DEF Ledger!Hear, Entries, Entry

(* A step that touches no row of conversions is none of the ledger's.      *)
LEMMA OtherIsStutter ==
  ASSUME UNCHANGED conversions
  PROVE  Entries' = Entries
BY DEF Entries

(* The initial state is the empty ledger, and each step of the attribution *)
(* chain is a report the ledger hears, a redaction of it, or nothing to    *)
(* it.                                                                     *)
LEMMA InitLedger == Init => Ledger!Init
BY DEF Init, Ledger!Init, Ledger!NoEntry, Unknown

LEMMA StepLedger == Typed /\ [Next]_vars => [Ledger!Next]_Entries
<1> SUFFICES ASSUME Typed, [Next]_vars PROVE Ledger!Next \/ Entries' = Entries
  OBVIOUS
<1> USE DEF bounds, pageVars, orderVars
<1>1. ASSUME NEW r \in requests, HookRecords(r) PROVE Ledger!Next
  <2>1. r \in Hook
    BY <1>1 DEF HookRecords, Typed, Requests, Beacon, CartLink, Hook
  <2> QED BY <1>1, <2>1, HookReports, ReportIsHeard DEF HookRecords, Ledger!Next
<1>2. ASSUME NEW o \in Orders, PixelReports(o) PROVE Ledger!Next
  <2>1. PICK session \in {Buyer[o], Stranger}, total \in Claims \cup {0}, key \in {"id", "token"} :
          RecordConversion(<<o, key>>, Report(session, total, "pixel"))
    BY <1>2 DEF PixelReports
  <2> QED BY <2>1, PixelReportsTyped, ReportIsHeard DEF Ledger!Next
<1>3. CASE PurgeTable
  <2>1. CASE conversions' = [n \in Names |-> Unknown]
    BY <2>1 DEF Ledger!Next, Ledger!Forget, Ledger!NoEntry, Unknown
  <2> QED BY <1>3, <2>1, OtherIsStutter DEF PurgeTable
<1>4. CASE UNCHANGED conversions
  BY <1>4, OtherIsStutter
<1> QED
  BY <1>1, <1>2, <1>3, <1>4
  DEF Next, vars, SaveSettings, Mount, Chat, AddFromCard, TapCard, RecordExposure, Answer,
      BeaconFails, LinkCart, PlaceOrder, HookLooksUp, PixelIsLost, BeginPurge, Crash

(* The conversions table is the ledger of OrderLedger: whatever totals the *)
(* web pixel claims, with a session or a made-up one, and however its      *)
(* reports and the webhook's fall, repeated or late, an order is entered   *)
(* once, keeps the party it was credited to, and never loses in amount.    *)
(* That the amount comes to be its price is not so, and not claimed.       *)
THEOREM LedgerIsImplemented == Spec => ImplementsLedger
BY InitTyped, StepTyped, InitLedger, StepLedger, PTL
DEF Spec, ImplementsLedger, Ledger!Spec, Entries, Entry

-----------------------------------------------------------------------------
(* The control group.                                                      *)

LEMMA StepClean == Typed /\ IInv /\ [Next]_vars => IInv'
<1> SUFFICES ASSUME Typed, IInv, [Next]_vars PROVE IInv'
  OBVIOUS
<1> USE DEF Started, bounds, pageVars, orderVars
<1>1. ASSUME NEW f \in 0..Buckets, SaveSettings(f) PROVE IInv'
  <2>1. steady' => steady /\ holdout' = holdout
    BY <1>1 DEF SaveSettings
  <2>2. UNCHANGED <<requests, exposures, shop, unanswered>>
    BY <1>1 DEF SaveSettings
  <2> QED BY <2>1, <2>2 DEF IInv, Computed, OnRecord, Shown, Talked, Arm
<1>2. ASSUME NEW s \in Sessions, Mount(s) PROVE IInv'
  BY <1>2 DEF Mount, IInv, Computed, OnRecord, Shown, Talked, Arm
<1>3. ASSUME NEW s \in Sessions, Chat(s) PROVE IInv'
  <2>1. /\ \A t \in Sessions : exposures'[t].arm = exposures[t].arm
        /\ \A t \in Sessions \ {s} : exposures'[t].engaged = exposures[t].engaged
    BY <1>3 DEF Chat, Typed, TypeOK
  <2>2. requests' \subseteq requests \cup {[kind |-> "link", session |-> s]}
    BY <1>3 DEF Chat
  <2>3. s \in shop.shown /\ UNCHANGED <<holdout, shop, unanswered, steady>>
    BY <1>3 DEF Chat
  <2> QED BY <2>1, <2>2, <2>3 DEF IInv, Computed, OnRecord, Shown, Talked, Arm
<1>4. ASSUME NEW s \in Sessions, AddFromCard(s) \/ TapCard(s) PROVE IInv'
  <2>1. requests' \subseteq requests \cup {[kind |-> "link", session |-> s]}
    BY <1>4 DEF AddFromCard, TapCard
  <2> QED BY <1>4, <2>1 DEF AddFromCard, TapCard, IInv, Computed, OnRecord, Shown, Talked, Arm
<1>5. ASSUME NEW r \in requests, RecordExposure(r) PROVE IInv'
  <2>1. r \in Beacon
    BY <1>5 DEF RecordExposure, Typed, Requests, Beacon, CartLink, Hook
  <2>2. \A s \in Sessions : /\ exposures'[s].arm \in {exposures[s].arm, r.arm}
                            /\ s # r.session => exposures'[s] = exposures[s]
                            /\ exposures'[s].engaged => exposures[s].engaged
    BY <1>5, <2>1 DEF RecordExposure, Recorded, Beacon, Typed, TypeOK
  <2>3. \A q \in requests' : q \in requests \/ (q.arm = r.arm /\ q.session = r.session)
    BY <1>5, <2>1 DEF RecordExposure, Beacon
  <2>4. UNCHANGED <<holdout, shop, unanswered, steady>>
    BY <1>5 DEF RecordExposure
  <2>5. steady => r.arm = Arm(r.session, holdout)
    BY <2>1 DEF IInv, Computed, Beacon
  <2>6. Talked'
    BY <2>2, <2>4 DEF IInv, Talked
  <2>7. ASSUME steady PROVE Computed' /\ OnRecord' /\ Shown'
    BY <2>2, <2>3, <2>4, <2>5, <2>7 DEF IInv, Computed, OnRecord, Shown, Arm
  <2> QED BY <2>4, <2>6, <2>7 DEF IInv
<1>6. ASSUME NEW r \in requests, Answer(r) PROVE IInv'
  <2>1. r \in Beacon
    BY <1>6 DEF Answer, Typed, Requests, Beacon, CartLink, Hook
  <2>2. /\ shop.shown \subseteq shop'.shown /\ shop'.shown \subseteq shop.shown \cup {r.session}
        /\ r.arm = "holdout" => shop' = shop
    BY <1>6 DEF Answer, Typed, TypeOK
  <2>3. requests' \subseteq requests /\ UNCHANGED <<holdout, exposures, unanswered, steady>>
    BY <1>6 DEF Answer
  <2>4. steady => r.arm = Arm(r.session, holdout)
    BY <2>1 DEF IInv, Computed, Beacon
  <2>5. r.arm \in {"exposed", "holdout"}
    BY <2>1 DEF Beacon
  <2> QED BY <2>2, <2>3, <2>4, <2>5 DEF IInv, Computed, OnRecord, Shown, Talked, Arm
<1>7. ASSUME NEW r \in requests, BeaconFails(r) PROVE IInv'
  <2>1. shop'.shown = shop.shown \cup {r.session} /\ unanswered' = unanswered \cup {r.session}
    BY <1>7 DEF BeaconFails, Typed, TypeOK
  <2> QED BY <1>7, <2>1 DEF BeaconFails, IInv, Computed, OnRecord, Shown, Talked, Arm
<1>8. ASSUME NEW r \in requests, LinkCart(r) \/ HookRecords(r) PROVE IInv'
  BY <1>8 DEF LinkCart, HookRecords, IInv, Computed, OnRecord, Shown, Talked, Arm
<1>9. ASSUME NEW o \in Orders, PlaceOrder(o) PROVE IInv'
  <2>1. shop'.shown = shop.shown
    BY <1>9 DEF PlaceOrder, Typed, TypeOK
  <2> QED BY <1>9, <2>1 DEF PlaceOrder, IInv, Computed, OnRecord, Shown, Talked, Arm
<1>10. ASSUME NEW o \in Orders, HookLooksUp(o) PROVE IInv'
  BY <1>10 DEF HookLooksUp, IInv, Computed, OnRecord, Shown, Talked, Arm
<1>11. ASSUME NEW o \in Orders, PixelReports(o) \/ PixelIsLost(o) PROVE IInv'
  BY <1>11 DEF PixelReports, PixelIsLost, IInv, Computed, OnRecord, Shown, Talked, Arm
<1>12. CASE BeginPurge
  BY <1>12 DEF BeginPurge, IInv, Talked
<1>13. CASE PurgeTable
  <2>1. exposures' = exposures \/ exposures' = [s \in Sessions |-> NoRow]
    BY <1>13 DEF PurgeTable
  <2>2. UNCHANGED <<holdout, requests, shop, unanswered, steady>>
    BY <1>13 DEF PurgeTable
  <2> QED BY <2>1, <2>2 DEF NoRow, IInv, Computed, OnRecord, Shown, Talked, Arm
<1>14. CASE Crash
  <2> DEFINE pages == {r.session : r \in {q \in requests : q.kind \in {"expose", "answer"}}}
  <2>1. shop' = [shop EXCEPT !.shown = @ \cup pages] /\ unanswered' = unanswered \cup pages
    BY <1>14 DEF Crash
  <2> HIDE DEF pages
  <2>2. shop'.shown = shop.shown \cup pages
    BY <2>1 DEF Typed, TypeOK
  <2> QED BY <1>14, <2>1, <2>2 DEF Crash, IInv, Computed, OnRecord, Shown, Talked, Arm
<1>15. CASE UNCHANGED vars
  BY <1>15 DEF vars, IInv, Computed, OnRecord, Shown, Talked, Arm
<1> QED
  BY <1>1, <1>2, <1>3, <1>4, <1>5, <1>6, <1>7, <1>8, <1>9, <1>10, <1>11, <1>12, <1>13, <1>14,
     <1>15 DEF Next

(* No session on record as held out talked to the assistant, unless its    *)
(* beacon was not answered or the fraction was changed: for any number of  *)
(* pages, requests and restarts.                                           *)
THEOREM ControlGroupStaysClean == Spec => []ControlGroupIsClean
<1>1. Init => IInv
  BY DEF Init, NoRow, IInv, Computed, OnRecord, Shown, Talked, Arm
<1>2. Typed /\ IInv => ControlGroupIsClean
  BY DEF Typed, TypeOK, IInv, OnRecord, Shown, Talked, ControlGroupIsClean
<1> QED
  BY <1>1, <1>2, InitTyped, StepTyped, StepClean, PTL DEF Spec
=============================================================================
