------------------------------ MODULE Policies ------------------------------
(***************************************************************************)
(* A shop's policy pages, as the tool get_policy reads them:               *)
(* shopify/policies.ts, called by tool-executor.ts.  Turns that find       *)
(* nothing cached fetch each for themselves, and the last one to finish    *)
(* leaves its answer, an absence or a failure too, for the TTL.            *)
(***************************************************************************)
EXTENDS Integers

CONSTANTS
  Readers,     \* bound: turns reading a page at once
  PolicyTtl,   \* ttlMs, in ticks
  Slow,        \* bound: ticks a page takes to arrive
  MaxEdition   \* bound: changes of the page

ASSUME PoliciesAssumption == PolicyTtl \in Nat \ {0} /\ Slow \in Nat /\ MaxEdition \in Nat

VARIABLES
  cached,    \* the entry of shop|handle: [known, text, age]
  readers,   \* turns: [step, text, age] of the fetch, and what they were told
  edition,   \* the page as the merchant has it
  editions   \* history: its editions of the last PolicyTtl + Slow ticks, the oldest last

policyVars == <<cached, readers, edition, editions>>

Unavailable == -1
Horizon == PolicyTtl + Slow
NoReader == [step |-> "idle", text |-> Unavailable, age |-> 0]

PoliciesInit ==
  /\ cached = [known |-> FALSE, text |-> Unavailable, age |-> 0]
  /\ readers = [r \in Readers |-> NoReader]
  /\ edition = 0 /\ editions = [k \in 1..Horizon |-> 0]

Tell(r, text) == readers' = [readers EXCEPT ![r] = [step |-> "told", text |-> text, age |-> 0]]

(* A hit leaves the entry's age alone.                                     *)
Hit(r) == Tell(r, cached.text) /\ UNCHANGED cached

Cached == cached.known /\ cached.age < PolicyTtl

GetCached(r) ==
  /\ readers[r].step = "idle" /\ Cached
  /\ Hit(r)
  /\ UNCHANGED <<edition, editions>>

Fetch(r) ==
  /\ readers[r].step = "idle" /\ ~Cached
  /\ readers' = [readers EXCEPT ![r] = [step |-> "asked", text |-> Unavailable, age |-> 0]]
  /\ UNCHANGED <<cached, edition, editions>>

(* The storefront answers: the page as it is, or a redirect to its         *)
(* password, which is not followed; the four seconds are over once it did. *)
PageAnswers(r) ==
  /\ readers[r].step = "asked"
  /\ \E text \in {edition, Unavailable} :
       readers' = [readers EXCEPT ![r].step = "body", ![r].text = text]
  /\ UNCHANGED <<cached, edition, editions>>

Keep(r, text) ==
  /\ cached' = [known |-> TRUE, text |-> text, age |-> 0]
  /\ Tell(r, text)
  /\ UNCHANGED <<edition, editions>>

PageRead(r) == readers[r].step = "body" /\ Keep(r, readers[r].text)

(* The timeout, the network, or the shopper who leaves.                    *)
FetchFails(r) == readers[r].step \in {"asked", "body"} /\ Keep(r, Unavailable)

NextQuestion(r) ==
  /\ readers[r].step = "told"
  /\ readers' = [readers EXCEPT ![r] = NoReader]
  /\ UNCHANGED <<cached, edition, editions>>

MerchantRewrites ==
  /\ edition < MaxEdition /\ edition' = edition + 1
  /\ UNCHANGED <<cached, readers, editions>>

PolicyTick ==
  /\ \A r \in Readers : readers[r].step = "body" => readers[r].age < Slow
  /\ cached' = [cached EXCEPT !.age = IF @ = PolicyTtl THEN @ ELSE @ + 1]
  /\ readers' = [r \in Readers |->
       [readers[r] EXCEPT !.age = IF readers[r].step = "body" THEN @ + 1 ELSE @,
                          !.step = IF @ = "told" THEN "idle" ELSE @,
                          !.text = IF readers[r].step = "told" THEN Unavailable ELSE @]]
  /\ editions' = [k \in 1..Horizon |-> IF k = 1 THEN edition ELSE editions[k - 1]]
  /\ UNCHANGED edition

PoliciesNext ==
  \/ \E r \in Readers : \/ GetCached(r) \/ Fetch(r) \/ PageAnswers(r) \/ PageRead(r)
                        \/ FetchFails(r) \/ NextQuestion(r)
  \/ MerchantRewrites \/ PolicyTick

-----------------------------------------------------------------------------
(* A shopper is never read a policy the merchant replaced longer ago than  *)
(* the TTL and the time the page took: concurrent fetches may overwrite    *)
(* one another, but none keeps an old answer alive.                        *)
PolicyIsRecent ==
  \A r \in Readers :
    readers[r].step = "told" /\ readers[r].text # Unavailable
      => readers[r].text >= editions[Horizon]
=============================================================================
