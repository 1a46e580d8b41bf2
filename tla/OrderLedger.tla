----------------------------- MODULE OrderLedger -----------------------------
(***************************************************************************)
(* What the merchant may rely on of the orders in the report: each is      *)
(* entered once, under its name; who bought it, once known, is never       *)
(* changed; and its amount is one that was said of it and never falls.  It *)
(* is not said that the amount comes to be the order's price: a claim too  *)
(* large stands (Attribution!WebhookIsTheTruth).  Module Attribution       *)
(* implements it.                                                          *)
(***************************************************************************)
EXTENDS Integers

CONSTANTS Names, Parties, Nobody, Amounts

VARIABLE ledger   \* the entry of each name

NoEntry == [entered |-> FALSE, party |-> Nobody, amount |-> 0]

Init == ledger = [n \in Names |-> NoEntry]

Largest(entry, said) == IF entry.entered /\ entry.amount >= said THEN entry.amount ELSE said

(* Another report of the order, that names a party or nobody.              *)
Hear(n) ==
  \E p \in Parties \cup {Nobody}, said \in Amounts :
    ledger' = [ledger EXCEPT ![n] =
                 [entered |-> TRUE,
                  party |-> IF @.party = Nobody THEN p ELSE @.party,
                  amount |-> Largest(@, said)]]

(* The shop is redacted.                                                   *)
Forget == ledger' = [n \in Names |-> NoEntry]

Next == (\E n \in Names : Hear(n)) \/ Forget

Spec == Init /\ [][Next]_ledger
=============================================================================
