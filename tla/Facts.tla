-------------------------------- MODULE Facts --------------------------------
(***************************************************************************)
(* The three questions answered without the model: the price, the stock or *)
(* the choices of the product on the page.  The lane of server.ts looks    *)
(* the product up through get_product of tool-executor.ts (the store's own *)
(* lookup behind a breaker, then a browse, then a search by name), and     *)
(* page-facts.ts makes the sentence.                                       *)
(*                                                                         *)
(* A question is its kind; the words it may be made of are not modelled.   *)
(* A sentence is what it states.  Beside the sentence stand the prices a   *)
(* tool result puts before the model (Prices).                             *)
(***************************************************************************)
EXTENDS Prices

CONSTANTS
  Shelf,   \* bound: what the page's product may be, a sequence of variants
  Another, \* a product with a similar name
  Pages    \* bound: what the widget may report of the page

(* A variant is [title, options, amount, currency, display, available]:    *)
(* "none" is a name not given, 0 a figure not given.                       *)
Named(x) == x # "none"

(* As the store has it: what a variant's title is joined of are its        *)
(* choices, and no two variants have the same; display is of the amount.   *)
ASSUME FactsAssumption ==
  \A p \in Shelf :
    /\ p \in Seq(Range(p))
    /\ \A v \in Range(p) :
         /\ {v.amount, v.display} \subseteq Nat
         /\ v.amount = 0 \/ v.display \in {0, v.amount}
         /\ v.available \in {"yes", "no", "unknown"}
         /\ DOMAIN v.options # {} => Named(v.title)
    /\ \A i, j \in DOMAIN p :
         i # j /\ Named(p[i].title) => p[i].title \notin {p[j].title} \cup Range(p[j].options)

VARIABLES
  product,  \* the product of the page, as the store has it
  listed,   \* where the catalog lists it: "browse", "search", "recreated" or "gone"
  lookup,   \* productLookupBreaker: "closed", "open" or, once it may probe, "half"
  viewed,   \* [spelling, handle, title, variantName] the widget reports
  ask,      \* the question: [kind, axis]
  lane,     \* "away", "idle", "direct", "browse", "name", "read", "said" or "declined"
  got,      \* the product get_product returned
  said      \* the sentence

factVars == <<product, listed, lookup, viewed, ask, lane, got, said>>

Questions == {[kind |-> "price", axis |-> "none"], [kind |-> "stock", axis |-> "none"]}
             \cup {[kind |-> "options", axis |-> a] : a \in {"none", "Color", "Size"}}
Nothing == [states |-> "nothing"]

-----------------------------------------------------------------------------
(* page-facts.ts                                                           *)

(* The position of the first that passes a test, or 0.                     *)
FirstOf(s, Test(_)) == SelectInSeq(s, Test)

(* selectedVariant: the one the page names, by its title or by a choice.   *)
selectedVariant(p, name) ==
  IF Named(name) THEN FirstOf(p, LAMBDA v : v.title = name \/ name \in Range(v.options)) ELSE 0

(* priceText: the store's own figure before ours.                          *)
priceText(v) == IF v.display # 0 THEN v.display ELSE v.amount

Costs(low, high) == [states |-> "price", low |-> low, high |-> high]

(* The range is spoken of the first currency only.                         *)
answerPrice(p, name) ==
  LET chosen == selectedVariant(p, name)
      priced == {i \in DOMAIN p : p[i].amount # 0}
      same == {i \in priced : p[i].currency = p[Min(priced)].currency}
      amounts == {p[i].amount : i \in same}
      Said(a) == priceText(p[Min({i \in same : p[i].amount = a})])
      only == IF Len(p) = 1 THEN priceText(p[1]) ELSE 0
  IN  IF chosen # 0 /\ priceText(p[chosen]) # 0
        THEN Costs(priceText(p[chosen]), priceText(p[chosen]))
      ELSE IF priced # {} THEN Costs(Said(Min(amounts)), Said(Max(amounts)))
      ELSE IF only # 0 THEN Costs(only, only) ELSE Nothing

Stock(available, titles) == [states |-> "stock", available |-> available, titles |-> titles]

(* Titles are named only when some are in stock and some are not.          *)
answerStock(p, name) ==
  LET known == {v \in Range(p) : v.available # "unknown"}
      chosen == selectedVariant(p, name)
      inStock == {v \in known : v.available = "yes"}
      titles == {v.title : v \in inStock} \ {"none"}
  IN  IF known = {} THEN Nothing
      ELSE IF chosen # 0 /\ p[chosen].available # "unknown"
        THEN Stock(p[chosen].available = "yes", {p[chosen].title} \ {"none"})
      ELSE IF inStock = {} THEN Stock(FALSE, {})
      ELSE Stock(TRUE, IF inStock = known THEN {} ELSE titles)

(* axesOf: the values of each axis, or the titles on an axis without name. *)
TitlesOf(p) == {p[i].title : i \in DOMAIN p} \ {"none"}
axesOf(p) ==
  LET names == UNION {DOMAIN p[i].options : i \in DOMAIN p}
      values == [a \in names |-> {p[i].options[a] : i \in {i \in DOMAIN p : a \in DOMAIN p[i].options}}]
  IN  IF names = {} /\ TitlesOf(p) # {} THEN [a \in {""} |-> TitlesOf(p)] ELSE values

(* A sentence on the choices: of the axis asked for there is one value     *)
(* only, or these; and what there is to choose.                            *)
Choice(one, axes) == [states |-> "choice", only |-> one, axes |-> axes]

answerOptions(p, axis) ==
  LET axes == axesOf(p) IN
  CASE DOMAIN axes = {} -> Nothing
    [] DOMAIN axes # {} /\ axis = "none" -> Choice("none", axes)
    [] DOMAIN axes # {} /\ axis \in DOMAIN axes -> Choice("none", [a \in {axis} |-> axes[a]])
    [] OTHER -> Choice(axis, [a \in DOMAIN axes \ {""} |-> axes[a]])

answerPageFact(p) ==
  CASE ask.kind = "price" -> answerPrice(p, viewed.variantName)
    [] ask.kind = "stock" -> answerStock(p, viewed.variantName)
    [] ask.kind = "options" -> answerOptions(p, ask.axis)

-----------------------------------------------------------------------------
(* The lane                                                                *)

FactsInit ==
  /\ product = <<>> /\ listed = "gone"
  /\ viewed = [spelling |-> "opaque", handle |-> FALSE, title |-> FALSE, variantName |-> "none"]
  /\ ask = [kind |-> "price", axis |-> "none"]
  /\ lookup = "closed" /\ lane = "away" /\ got = <<>> /\ said = Nothing

(* The shopper stands on a product page, and asks something about it.      *)
OpenPage ==
  /\ lane = "away" /\ lane' = "idle"
  /\ product' \in Shelf /\ listed' \in {"browse", "search", "recreated", "gone"}
  /\ viewed' \in Pages /\ ask' \in Questions
  /\ UNCHANGED <<lookup, got, said>>

Store == UNCHANGED <<product, listed, viewed>>
Go(step) == lane' = step /\ UNCHANGED <<ask, got, said>> /\ Store

(* classifyPageFact recognised the question.                               *)
AskFact ==
  /\ lane = "idle"
  /\ Go(IF lookup = "open" THEN "browse" ELSE "direct")
  /\ UNCHANGED lookup

Return(p) == lane' = "read" /\ got' = p /\ UNCHANGED <<ask, said>> /\ Store

(* The store's own lookup: most do not have it.                            *)
DirectAnswers ==
  /\ lane = "direct" /\ listed \in {"browse", "search"}
  /\ lookup' = "closed" /\ Return(product)

DirectFails == lane = "direct" /\ lookup' = "open" /\ Go("browse")

(* sameProductId: the page's number and the catalog's gid are one product; *)
(* a product created again under its old address has another id.           *)
sameProductId(p) == p = "page" /\ listed # "recreated" /\ viewed.spelling # "opaque"

ProductOf(p) == IF p = "page" THEN product ELSE Another

(* One page of the catalog, browsed or as the snapshot has it.             *)
BrowseFinds ==
  /\ lane = "browse" /\ listed = "browse" /\ sameProductId("page")
  /\ Return(product) /\ UNCHANGED lookup

BrowseMisses ==
  /\ lane = "browse" /\ ~(listed = "browse" /\ sameProductId("page"))
  /\ Go(IF viewed.title THEN "name" ELSE "declined") /\ UNCHANGED lookup

(* A browse or a search that fails leaves the question to the model.       *)
LookupFails == lane \in {"browse", "name"} /\ Go("declined") /\ UNCHANGED lookup

NameMatches == {<<>>, <<"other">>} \cup (IF listed = "gone" THEN {} ELSE {<<"page">>, <<"other", "page">>})

(* Fault: the best match of the search is taken.                           *)
BestMatch(candidates) == IF candidates = <<>> THEN 0 ELSE 1

(* The same id, or the same address.                                       *)
Resolved(candidates) ==
  LET byId == FirstOf(candidates, sameProductId)
      byHandle == FirstOf(candidates, LAMBDA p : p = "page")
  IN  IF byId # 0 THEN byId ELSE IF viewed.handle THEN byHandle ELSE 0

resolveByName ==
  /\ lane = "name" /\ UNCHANGED lookup
  /\ \E candidates \in NameMatches :
       LET found == Resolved(candidates)
       IN  IF found = 0 THEN Go("declined") ELSE Return(ProductOf(candidates[found]))

Answer ==
  /\ lane = "read"
  /\ said' = answerPageFact(got)
  /\ lane' = IF said' = Nothing THEN "declined" ELSE "said"
  /\ UNCHANGED <<lookup, ask, got>> /\ Store

(* Another question, from the same page; half an hour may have passed.     *)
NextFact ==
  /\ lane \in {"said", "declined"}
  /\ lane' = "idle" /\ got' = <<>> /\ said' = Nothing
  /\ ask' \in Questions
  /\ lookup' \in {lookup} \cup (IF lookup = "open" THEN {"half"} ELSE {})
  /\ Store

FactsNext ==
  \/ OpenPage \/ AskFact \/ DirectAnswers \/ DirectFails \/ BrowseFinds \/ BrowseMisses
  \/ LookupFails \/ resolveByName \/ Answer \/ NextFact

-----------------------------------------------------------------------------
(* What a sentence says of the product on the page, against the variants   *)
(* themselves: the figure of the variant that is meant, or the whole range *)
(* of one money when one that is meant has no figure; nothing in stock     *)
(* that is not known to be, nothing sold out that is known to be there;    *)
(* and every value of an axis it lists.                                    *)
Titled == {v \in Range(product) : Named(v.title) /\ v.title = viewed.variantName}

(* The variants the page may mean: by their title, or else by a choice.    *)
Meant ==
  IF Titled # {} THEN Titled
  ELSE {v \in Range(product) : Named(viewed.variantName) /\ viewed.variantName \in Range(v.options)}

PriceIsTrue ==
  LET InMoney(c) == {priceText(v) : v \in {v \in Range(product) : v.currency = c /\ (v.amount # 0 \/ Len(product) = 1)}}
  IN  \/ \E v \in Meant : priceText(v) # 0 /\ said.low = priceText(v) /\ said.high = priceText(v)
      \/ /\ Meant = {} \/ \E v \in Meant : priceText(v) = 0
         /\ \E c \in {v.currency : v \in Range(product)} :
              /\ {said.low, said.high} \subseteq InMoney(c) /\ 0 \notin InMoney(c)
              /\ \A f \in InMoney(c) : said.low <= f /\ f <= said.high

StockIsTrue ==
  LET Sold(vs) == \A v \in vs : v.available # "yes"
      Known(vs) == \E v \in vs : v.available # "unknown"
      Of(title) == {v \in Range(product) : v.title = title}
  IN  CASE said.available -> /\ \A t \in said.titles : ~Sold(Of(t))
                             /\ ~Sold(Range(product))
                             /\ Titled # {} /\ Known(Titled) => ~Sold(Titled)
        [] OTHER -> IF said.titles = {} THEN Known(Range(product)) /\ Sold(Range(product))
                    ELSE \A t \in said.titles : Known(Of(t)) /\ Sold(Of(t))

ChoicesAreTrue ==
  \A a \in DOMAIN said.axes \ {""} :
    said.axes[a] = {v.options[a] : v \in {v \in Range(product) : a \in DOMAIN v.options}}

(* However the product was found, a store without its own lookup or a      *)
(* catalog longer than a page, the sentence is about the product on the    *)
(* page, and true of it.                                                   *)
FactsAreTrue ==
  lane = "said" =>
    /\ got = product
    /\ CASE said.states = "price" -> PriceIsTrue
         [] said.states = "stock" -> StockIsTrue
         [] said.states = "choice" -> ChoicesAreTrue

-----------------------------------------------------------------------------
(* Beside one another.                                                     *)
QuotesSpec ==
  /\ FactsInit /\ PricesInit
  /\ [][\/ FactsNext /\ UNCHANGED priceVars
        \/ PricesNext /\ UNCHANGED factVars]_<<factVars, priceVars>>

(* What is said of the catalog in place of a model, and what a model is    *)
(* given to say of it, is what the catalog says: answerPageFact and        *)
(* withDisplayPrices.                                                      *)
CatalogIsQuoted == FactsAreTrue /\ PriceLinesAreTrue
=============================================================================
