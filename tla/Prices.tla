------------------------------- MODULE Prices -------------------------------
(***************************************************************************)
(* The prices a tool result puts before the model: tool-executor.ts writes *)
(* the string to quote beside each amount and one line for each product,   *)
(* loop.ts takes the amounts out of the model's copy, and money.ts reads   *)
(* the whole of the result again when it judges what the model wrote.      *)
(*                                                                         *)
(* A coin is an object { amount, currency }, wherever it is in a payload;  *)
(* a figure is a string with an amount in it.                              *)
(***************************************************************************)
EXTENDS Integers, Sequences, SequencesExt, FiniteSetsExt

CONSTANTS
  Wares,  \* bound: what the catalog may answer, a sequence of products
  Signs,  \* CURRENCY_SYMBOL, for the currencies it has
  Hidden  \* an amount that was left out

(* A product has the coins of its variants and of its price_range, which   *)
(* has two or none.  A display is the figures in it; a variant without a   *)
(* price has a coin of currency "none".                                    *)
Sign == STRING \cup Range(Signs) \cup {""}
Coined == [amount : Nat, currency : STRING, display : Seq([sign : Sign, amount : Nat])]
Priceable == [variants : Seq(Coined), range : Seq(Coined)]

ASSUME PricesAssumption == Wares \subseteq Seq(Priceable)

VARIABLES
  payload,   \* the result as the turn keeps it: [products, lines], or <<>>
  quotable   \* as the model reads it

priceVars == <<payload, quotable>>

NoFigure == <<>>
Coins(p) == p.variants \o p.range
Figures(c) == Range(c.display)

-----------------------------------------------------------------------------
(* tool-executor.ts                                                        *)

(* A currency it has no symbol for gets the bare amount.                   *)
Shown(c) ==
  [sign |-> IF c.currency \in DOMAIN Signs THEN Signs[c.currency] ELSE "", amount |-> c.amount]

HasPrice(c) == c.currency # "none"

(* The money a product's line is made of.                                  *)
LineMoney(p) ==
  LET Priced(coins) == {c \in Range(coins) : HasPrice(c)}
  IN  IF Priced(p.variants) # {} THEN Priced(p.variants) ELSE Priced(p.range)

(* Its lowest and its highest, or nothing when currencies are mixed.       *)
withPriceSummary(p) ==
  LET money == LineMoney(p)
      amounts == {m.amount : m \in money}
      At(n) == Shown(CHOOSE m \in money : m.amount = n)
  IN  IF money = {} \/ \E m, n \in money : m.currency # n.currency THEN NoFigure
      ELSE IF Min(amounts) = Max(amounts) THEN <<At(Min(amounts))>>
           ELSE <<At(Min(amounts)), At(Max(amounts))>>

(* A display the store supplied is left as it is.                          *)
Displayed(c) ==
  IF HasPrice(c) /\ c.display = NoFigure THEN [c EXCEPT !.display = <<Shown(c)>>] ELSE c

EachCoin(p, Op(_)) ==
  [variants |-> [i \in DOMAIN p.variants |-> Op(p.variants[i])],
   range |-> [i \in DOMAIN p.range |-> Op(p.range[i])]]

withDisplayPrices(products) ==
  [products |-> [i \in DOMAIN products |-> EachCoin(products[i], Displayed)],
   lines |-> [i \in DOMAIN products |-> withPriceSummary(products[i])]]

-----------------------------------------------------------------------------
(* loop.ts                                                                 *)

Narrowed(c) == IF HasPrice(c) /\ c.display # NoFigure THEN [c EXCEPT !.amount = Hidden] ELSE c

(* Every reference gets a narrowed copy, also a second one to one object.  *)
hideComputableAmounts(p) ==
  [p EXCEPT !.products = [i \in DOMAIN @ |-> EachCoin(@[i], Narrowed)]]

-----------------------------------------------------------------------------
(* money.ts                                                                *)

(* The signs that mark money in a text.                                    *)
Extracted(figures) == {f.amount : f \in {f \in figures : f.sign \in {"dollar", "pound", "euro", "yen"}}}

(* The amounts of a payload, and what its strings mention.                 *)
collectMoneyFromResult(r) ==
  LET coins == UNION {Range(Coins(p)) : p \in Range(r.products)}
  IN  {c.amount : c \in {c \in coins : HasPrice(c)}}
      \cup Extracted((UNION {Figures(c) : c \in coins}) \cup UNION {Range(l) : l \in Range(r.lines)})

-----------------------------------------------------------------------------
PricesInit == payload = <<>> /\ quotable = <<>>

(* search_catalog and get_product.                                         *)
LookUp ==
  /\ payload = <<>>
  /\ \E products \in Wares : payload' = withDisplayPrices(products)
  /\ UNCHANGED quotable

(* add_to_cart returns the cart as the store does.                         *)
AddToCart ==
  /\ payload = <<>>
  /\ \E products \in Wares :
       payload' = [products |-> products, lines |-> [i \in DOMAIN products |-> NoFigure]]
  /\ UNCHANGED quotable

(* A product of the shared snapshot is looked up again: its objects have   *)
(* been written to already.                                                *)
LookUpAgain ==
  /\ payload # <<>> /\ quotable # <<>>
  /\ payload' = withDisplayPrices(payload.products)
  /\ quotable' = <<>>

TellModel ==
  /\ payload # <<>> /\ quotable = <<>>
  /\ quotable' = hideComputableAmounts(payload)
  /\ UNCHANGED payload

PricesNext == LookUp \/ AddToCart \/ LookUpAgain \/ TellModel

-----------------------------------------------------------------------------
(* The model need not compute and cannot be caught copying: beside a       *)
(* figure to quote it finds no amount; a product's line holds what any of  *)
(* its variants costs, in their one currency, and ends at prices somebody  *)
(* can pay; and whatever is copied is borne out by the result that is kept. *)
PriceLinesAreTrue ==
  quotable # <<>> =>
    \A i \in DOMAIN payload.products :
      LET priced == {v \in Range(payload.products[i].variants) : HasPrice(v)}
          line == quotable.lines[i]
      IN  /\ \A c \in Range(Coins(quotable.products[i])) :
               /\ c.display # NoFigure /\ HasPrice(c) => c.amount = Hidden
               /\ Extracted(Figures(c)) \subseteq collectMoneyFromResult(payload)
          /\ Extracted(Range(line)) \subseteq collectMoneyFromResult(payload)
          /\ line # NoFigure /\ priced # {} =>
               /\ \A v \in priced : /\ line[1].amount <= v.amount
                                    /\ v.amount <= line[Len(line)].amount
                                    /\ \A f \in Range(line) : f.sign = Shown(v).sign
               /\ \A f \in Range(line) : \E v \in priced : Shown(v) = f
=============================================================================
