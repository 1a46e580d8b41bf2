-------------------------------- MODULE Search --------------------------------
(***************************************************************************)
(* A turn's searches of one shop's catalog: the one started ahead of the   *)
(* model (orchestrator/src/speculate.ts), the one the model calls for and  *)
(* may take the first one's result for (loop.ts), and what search_catalog  *)
(* of tool-executor.ts does for either: by wording, by meaning, by meaning *)
(* again over a rebuilt index, and more broadly, against a catalog that    *)
(* changes meanwhile.  How the index is kept is Catalog's; here it is the  *)
(* products it was built from.                                             *)
(*                                                                         *)
(* A query is the set of its words.                                        *)
(***************************************************************************)
EXTENDS Integers, Sequences, FiniteSets

CONSTANTS
  Products,
  Text,       \* for each product, the words a search by wording finds it by
  Meaning,    \* for each product, the words that come near it in meaning
  Noise,      \* words that name no product
  Stopwords,  \* words the prefetch drops
  Filler,     \* words of comparison, and those that point at the page
  Asked,      \* bound: [words, intent], what the shopper may ask
  PageTitles, \* bound: the title of the product page, {} for another page
  Queries,    \* bound: what the model may search for
  Subjects,   \* bound: the words of what the shopper said before
  MaxChanges, \* bound: products put up or taken down
  NoBuild     \* no set of products

ASSUME SearchAssumption ==
  /\ DOMAIN Text = Products /\ DOMAIN Meaning = Products /\ MaxChanges \in Nat
  /\ \A S \in SUBSET Products : S # NoBuild

Searches == {"ahead", "call"}

VARIABLES
  live,     \* the catalog of the store
  changes,  \* how often it has changed
  index,    \* [seen, stale]: the products it was built from
  build,    \* the products a build under way is of, or NoBuild
  refused,  \* the storefront refused us a short while ago
  forced,   \* a miss has rebuilt the index not long ago
  subject,  \* the words of what the shopper said before
  plan,     \* the query of the prefetch, {} without one
  search,   \* for each search: see Started
  answered  \* the search whose result the model got, "none", or "no turn" yet

searchVars == <<live, changes, index, build, refused, forced, subject, plan, search, answered>>
shop == <<live, changes>>

-----------------------------------------------------------------------------
catalogTerms(q) == q \ Noise

(* A follow-up that names nothing is about what was named before.          *)
carryForward(q, before) == IF catalogTerms(q) = {} /\ before # {} THEN before ELSE q

(* planSpeculation: the shopper's own words, with the page's title when    *)
(* they point at it.                                                       *)
planSpeculation(m, t) ==
  LET keywords == m.words \ Stopwords IN
  IF ~m.intent /\ Cardinality(keywords) < 2 THEN {}
  ELSE IF "this" \in m.words /\ t # {} THEN (keywords \ Filler) \cup t
  ELSE IF keywords # {} THEN keywords ELSE t

(* Half the words of the shorter one.                                      *)
speculationMatches(a, b) ==
  LET least == IF Cardinality(a) < Cardinality(b) THEN Cardinality(a) ELSE Cardinality(b)
  IN  a # {} /\ b # {} /\ 2 * Cardinality(a \cap b) >= least

ByWording(q) == {p \in live : q \subseteq Text[p]}
ByMeaning(q, seen) == {p \in seen : q \cap Meaning[p] # {}}

(* searchBroadening: the query once more, its terms, the whole catalog.    *)
Attempts(q) ==
  LET terms == catalogTerms(q)
  IN  IF terms = {} \/ terms = q THEN <<q, {}>> ELSE <<q, terms, {}>>

(* A search: its step, the attempt it is at, the hits to be looked up, the *)
(* products it hands over and the note with them; and, of its history, the *)
(* products live all along and at some time, whether the index it asked    *)
(* last was built from its own fetch, and whether a failure was swallowed. *)
Started(q) ==
  [at |-> "keyword", query |-> q, attempt |-> 1, hits |-> {}, products |-> {}, note |-> "",
   always |-> live, ever |-> live, own |-> FALSE, swallowed |-> FALSE]
NoSearch == [Started({}) EXCEPT !.at = "idle", !.always = {}, !.ever = {}]

SearchInit ==
  /\ live = {} /\ changes = 0 /\ index = [seen |-> {}, stale |-> TRUE]
  /\ build = NoBuild /\ refused = FALSE /\ forced = FALSE
  /\ subject = {} /\ plan = {} /\ search = [s \in Searches |-> NoSearch] /\ answered = "no turn"

(* A turn begins, its prefetch with it, at a store with an index.          *)
TurnBegins ==
  /\ answered = "no turn" /\ answered' = "none"
  /\ live' \in SUBSET Products
  /\ index' = [seen |-> live', stale |-> FALSE]
  /\ subject' \in Subjects
  /\ \E m \in Asked, t \in PageTitles : plan' = planSpeculation(m, t)
  /\ search' = IF plan' = {} THEN search
               ELSE [search EXCEPT !["ahead"] =
                       [Started(carryForward(plan', subject')) EXCEPT !.always = live', !.ever = live']]
  /\ UNCHANGED <<changes, build, refused, forced>>

-----------------------------------------------------------------------------
(* The turn                                                                *)

Turn == UNCHANGED <<shop, index, build, refused, forced, subject>>

(* The model searches: a prefetch near enough is waited for.               *)
ModelSearches ==
  /\ search["call"].at = "idle" /\ answered = "none"
  /\ \E q \in Queries :
       search' = [search EXCEPT !["call"] =
         IF speculationMatches(plan, q) THEN [Started(carryForward(q, subject)) EXCEPT !.at = "waiting"]
         ELSE Started(carryForward(q, subject))]
  /\ UNCHANGED <<plan, answered>> /\ Turn

TakePrefetch ==
  /\ search["call"].at = "waiting" /\ UNCHANGED plan /\ Turn
  /\ \/ /\ search["ahead"].at = "done" /\ answered' = "ahead"
        /\ search' = [search EXCEPT !["call"].at = "idle"]
     \/ /\ search["ahead"].at = "failed" /\ UNCHANGED answered
        /\ search' = [search EXCEPT !["call"] = Started(search["call"].query)]

TakeOwn ==
  /\ search["call"].at = "done" /\ answered = "none" /\ answered' = "call"
  /\ UNCHANGED <<plan, search>> /\ Turn

-----------------------------------------------------------------------------
(* search_catalog                                                          *)

Others == UNCHANGED <<shop, subject, plan, answered>>
Goes(s, rec) == search' = [search EXCEPT ![s] = rec]
Hand(s, found, note) ==
  Goes(s, [search[s] EXCEPT !.at = "done", !.products = found, !.note = note])

Keyword(s) ==
  /\ search[s].at = "keyword" /\ UNCHANGED <<index, build, forced>> /\ Others
  /\ \/ /\ UNCHANGED refused
        /\ LET found == ByWording(search[s].query)
           IN  IF found # {} THEN Hand(s, found, "words")
               ELSE Goes(s, [search[s] EXCEPT !.at = "meaning"])
     \/ \E refusal \in BOOLEAN :
          /\ refused' = (refused \/ refusal)
          /\ Goes(s, [search[s] EXCEPT !.at = "failed"])

(* By meaning, in the index as it is: to a lookup of the hits, or a miss.  *)
AskIndex(rec, idx, next, miss) ==
  LET hits == ByMeaning(rec.query, idx.seen)
  IN  IF idx.stale \/ rec.query = {} \/ hits = {} THEN [rec EXCEPT !.at = miss]
      ELSE [rec EXCEPT !.at = next, !.hits = hits]

Semantic(s) ==
  /\ search[s].at = "meaning"
  /\ Goes(s, AskIndex(search[s], index, "lookup", "refresh"))
  /\ UNCHANGED <<index, build, refused, forced>> /\ Others

(* The hits, as the catalog has them now.                                  *)
Resolve(hits) == hits \cap live

(* What fails on the way is a miss.                                        *)
Lookup(s) ==
  /\ search[s].at \in {"lookup", "last lookup"}
  /\ LET miss == IF search[s].at = "lookup" THEN "refresh" ELSE "broaden"
         found == Resolve(search[s].hits)
     IN  \/ IF found # {} THEN Hand(s, found, "meaning")
            ELSE Goes(s, [search[s] EXCEPT !.at = miss])
         \/ Goes(s, [search[s] EXCEPT !.at = miss, !.swallowed = TRUE])
  /\ UNCHANGED <<index, build, refused, forced>> /\ Others

(* refreshedAfterMiss: not while we are refused, nor a second time.        *)
Refresh(s) ==
  /\ search[s].at = "refresh"
  /\ forced' = (forced \/ ~refused)
  /\ Goes(s, [search[s] EXCEPT !.at = IF refused \/ forced THEN "broaden" ELSE "fetch"])
  /\ UNCHANGED <<index, build, refused>> /\ Others

(* The catalog is fetched; a build under way is joined.                    *)
FetchCatalog(s) ==
  /\ search[s].at = "fetch" /\ UNCHANGED <<index, refused, forced>> /\ Others
  /\ \/ /\ build' = IF build = NoBuild THEN live ELSE build
        /\ Goes(s, [search[s] EXCEPT !.at = "build", !.own = build = NoBuild])
     \/ UNCHANGED build /\ Goes(s, [search[s] EXCEPT !.at = "broaden"])

(* Fault: the miss stands, whatever the new index has.                     *)
MissStands(rec, idx) == [rec EXCEPT !.at = "broaden"]

AskAgain(rec, idx) == AskIndex(rec, idx, "last lookup", "broaden")

(* The build ends for everyone who waits for it: they ask again at once.   *)
(* A catalog with nothing in it leaves the index as it was.                *)
BuildEnds ==
  /\ build # NoBuild /\ build' = NoBuild /\ UNCHANGED <<refused, forced>> /\ Others
  /\ LET built == IF build = {} THEN index ELSE [seen |-> build, stale |-> FALSE]
         Waiters(Next(_)) ==
           search' = [s \in Searches |-> IF search[s].at = "build" THEN Next(search[s]) ELSE search[s]]
     IN  \/ index' = built /\ Waiters(LAMBDA rec : AskAgain(rec, built))
         \/ UNCHANGED index /\ Waiters(LAMBDA rec : [rec EXCEPT !.at = "broaden", !.own = FALSE])

(* What the note says of products found by another query.                  *)
Note(q, attempt) ==
  CASE attempt = q -> "words"
    [] attempt # q /\ attempt # {} -> "broader"
    [] OTHER -> IF catalogTerms(q) = {} THEN "the catalog" ELSE "not there, closest"

Broaden(s) ==
  /\ search[s].at = "broaden" /\ UNCHANGED <<index, build, refused, forced>> /\ Others
  /\ LET q == search[s].query
         attempt == Attempts(q)[search[s].attempt]
         found == ByWording(attempt)
     IN  IF found # {} THEN Hand(s, found, Note(q, attempt))
         ELSE IF search[s].attempt = Len(Attempts(q)) THEN Hand(s, {}, "nothing")
         ELSE Goes(s, [search[s] EXCEPT !.attempt = @ + 1])

BroadenFails(s) ==
  /\ search[s].at = "broaden" /\ UNCHANGED <<index, build, refused, forced>> /\ Others
  /\ Goes(s, [search[s] EXCEPT !.at = "failed"])

-----------------------------------------------------------------------------
(* The rest of the world                                                   *)

(* A product is put up or taken down.                                      *)
Merchant ==
  /\ changes < MaxChanges /\ changes' = changes + 1
  /\ \E p \in Products : live' = IF p \in live THEN live \ {p} ELSE live \cup {p}
  /\ search' = [s \in Searches |->
       [search[s] EXCEPT !.always = @ \cap live', !.ever = @ \cup live']]
  /\ UNCHANGED <<index, build, refused, forced, subject, plan, answered>>

(* A search that found the index stale, or a webhook, has it rebuilt.      *)
OthersBuild ==
  /\ build = NoBuild /\ build' = live
  /\ UNCHANGED <<shop, index, refused, forced, subject, plan, search, answered>>

TimePasses ==
  /\ \/ refused /\ refused' = FALSE /\ UNCHANGED <<index, forced>>
     \/ forced /\ forced' = FALSE /\ UNCHANGED <<index, refused>>
     \/ ~index.stale /\ index' = [index EXCEPT !.stale = TRUE] /\ UNCHANGED <<refused, forced>>
  /\ UNCHANGED <<shop, build, subject, plan, search, answered>>

SearchNext ==
  \/ TurnBegins \/ ModelSearches \/ TakePrefetch \/ TakeOwn
  \/ \E s \in Searches :
       \/ Keyword(s) \/ Semantic(s) \/ Lookup(s) \/ Refresh(s) \/ FetchCatalog(s)
       \/ Broaden(s) \/ BroadenFails(s)
  \/ BuildEnds \/ (answered # "no turn" /\ (Merchant \/ OthersBuild \/ TimePasses))

SearchSpec == SearchInit /\ [][SearchNext]_searchVars

-----------------------------------------------------------------------------
(* What a search hands over was on sale while it ran, however old the      *)
(* index that found it; and a shopper is told that a thing is not there    *)
(* only when no product that was there all along answers to their words,   *)
(* nor to their meaning when the search has itself had the index rebuilt   *)
(* and no failure was swallowed on the way.                                *)
SearchIsHonest ==
  \A s \in Searches : search[s].at = "done" =>
    LET rec == search[s] IN
    /\ rec.products \subseteq rec.ever
    /\ rec.note \in {"not there, closest", "nothing"} =>
         \A p \in rec.always :
           /\ ~(rec.query \subseteq Text[p]) /\ ~(catalogTerms(rec.query) \subseteq Text[p])
           /\ rec.own /\ ~rec.swallowed /\ rec.query # {} => rec.query \cap Meaning[p] = {}
=============================================================================
