-------------------------------- MODULE Cart --------------------------------
(***************************************************************************)
(* The cart of one browser session: the session row the gateway keeps, the *)
(* requests that work on copies of it, and the carts the storefronts hold. *)
(*                                                                         *)
(* A chat turn or a tap on a product card reads the row, adds to the cart  *)
(* the row names (or creates one), and writes the whole row back when it   *)
(* is over.  An add is a read of the cart, a merge and a write of all of   *)
(* it; each call is tried up to MaxRetries + 1 times, an answer may be     *)
(* lost, and a write that timed out may still arrive later.  The mutex of  *)
(* cart.ts lives in the SafeCart of one request, whose adds are sequential *)
(* anyway: it orders nothing between requests.                             *)
(***************************************************************************)
EXTENDS Integers, FiniteSets, Functions

CONSTANTS
  Shop,
  Variant,
  Req,        \* bound: requests at once
  MaxRetries, \* retries of a call
  MaxCarts,   \* bound on the carts created
  MaxAsks,    \* bound on the adds asked for
  None        \* undefined

CartId == 1..MaxCarts
Lines == [Variant -> Nat]

SessionRow == [shop : Shop, cart : CartId \cup {None}]
StoreCart == [shop : Shop, lines : Lines]
Request == [phase : {"ready", "creating", "reading", "writing", "added"},
            kind : {"chat", "card"}, shop : Shop, cart : CartId \cup {None},
            variant : Variant \cup {None}, read : Lines, tries : 0..MaxRetries]

ASSUME CartAssumption ==
  /\ MaxRetries \in Nat /\ MaxCarts \in Nat /\ MaxAsks \in Nat
  /\ IsFiniteSet(Req)
  /\ None \notin CartId \cup Shop \cup Variant \cup SessionRow \cup StoreCart \cup Request

VARIABLES
  row,        \* the sessions table: the row of this session
  reqs,       \* requests: their copy of the session and the add under way
  carts,      \* at the storefronts
  delayed,    \* writes that timed out and were not applied yet
  linked,     \* the cart_links table
  asked,      \* history: adds asked for
  kept,       \* history: adds acknowledged, by cart
  overlapped, \* history: carts one request read while another was adding to it
  overtaken   \* history: carts a write was delayed for

cartVars == <<row, reqs, carts, delayed, linked, asked, kept, overlapped, overtaken>>
histories == <<asked, kept, overlapped, overtaken>>

NoLines == [v \in Variant |-> 0]

CartInit ==
  /\ row = None
  /\ reqs = [q \in Req |-> None]
  /\ carts = [i \in CartId |-> None]
  /\ delayed = {}
  /\ linked = {}
  /\ asked = NoLines
  /\ kept = [i \in CartId |-> NoLines]
  /\ overlapped = {}
  /\ overtaken = {}

Set(q, r) == reqs' = [reqs EXCEPT ![q] = r]

-----------------------------------------------------------------------------
(* The session of a request: the row's, if it is of the same shop.         *)
Session(shop) ==
  IF row # None /\ row.shop = shop THEN row ELSE [shop |-> shop, cart |-> None]

(* A chat turn (which may add several times or not at all) or a card tap.  *)
BeginRequest(q, shop, kind) ==
  /\ reqs[q] = None
  /\ Set(q, [phase |-> "ready", kind |-> kind, shop |-> shop, cart |-> Session(shop).cart,
             variant |-> None, read |-> NoLines, tries |-> 0])
  /\ UNCHANGED <<row, carts, delayed, linked, histories>>

TotalAsked == FoldFunction(+, 0, asked)

(* add_to_cart: to the cart of the session, or to a new one.               *)
AskToAdd(q, v) ==
  /\ reqs[q] # None /\ reqs[q].phase = "ready"
  /\ TotalAsked < MaxAsks
  /\ Set(q, [reqs[q] EXCEPT !.phase = IF reqs[q].cart = None THEN "creating" ELSE "reading",
                            !.variant = v, !.tries = 0])
  /\ asked' = [asked EXCEPT ![v] = @ + 1]
  /\ UNCHANGED <<row, carts, delayed, linked, kept, overlapped, overtaken>>

(* What becomes of a request whose add succeeded, or failed for good.      *)
Added(r, cart) ==
  [r EXCEPT !.phase = IF r.kind = "chat" THEN "ready" ELSE "added", !.cart = cart,
            !.variant = None, !.read = NoLines, !.tries = 0]

AddFailed(r) ==
  IF r.kind = "chat" THEN [r EXCEPT !.phase = "ready", !.variant = None, !.read = NoLines, !.tries = 0]
  ELSE None

(* Another attempt, if one is left.                                        *)
Again(r) == IF r.tries < MaxRetries THEN [r EXCEPT !.tries = @ + 1] ELSE AddFailed(r)

Unused == {i \in CartId : carts[i] = None}
NewCart == CHOOSE i \in Unused : \A j \in Unused : i <= j

Creates(q) ==
  /\ reqs[q] # None /\ reqs[q].phase = "creating"
  /\ Unused # {}
  /\ carts' = [carts EXCEPT ![NewCart] = [shop |-> reqs[q].shop,
                                          lines |-> [NoLines EXCEPT ![reqs[q].variant] = 1]]]

(* Fault: a card tap does not link its cart.                               *)
CreateUnlinked(q) ==
  /\ Creates(q)
  /\ Set(q, Added(reqs[q], NewCart))
  /\ linked' = IF reqs[q].kind = "chat" THEN linked \cup {NewCart} ELSE linked
  /\ kept' = [kept EXCEPT ![NewCart] = [NoLines EXCEPT ![reqs[q].variant] = 1]]
  /\ UNCHANGED <<row, delayed, asked, overlapped, overtaken>>

(* The cart is made, named by the session and linked to it.                *)
CreateAnswered(q) ==
  /\ Creates(q)
  /\ Set(q, Added(reqs[q], NewCart))
  /\ linked' = linked \cup {NewCart}
  /\ kept' = [kept EXCEPT ![NewCart] = [NoLines EXCEPT ![reqs[q].variant] = 1]]
  /\ UNCHANGED <<row, delayed, asked, overlapped, overtaken>>

(* The cart is made and nobody is told: create_cart carries no key.        *)
CreateLost(q) ==
  /\ Creates(q)
  /\ Set(q, Again(reqs[q]))
  /\ UNCHANGED <<row, delayed, linked, histories>>

-----------------------------------------------------------------------------
Adding(q, i) == reqs[q] # None /\ reqs[q].phase = "writing" /\ reqs[q].cart = i

(* The storefront knows its own carts.                                     *)
Read(q) ==
  LET i == reqs[q].cart
  IN  /\ reqs[q] # None /\ reqs[q].phase = "reading"
      /\ carts[i].shop = reqs[q].shop
      /\ Set(q, [reqs[q] EXCEPT !.phase = "writing", !.read = carts[i].lines, !.tries = 0])
      /\ overlapped' = IF \E p \in Req \ {q} : Adding(p, i) THEN overlapped \cup {i} ELSE overlapped
      /\ UNCHANGED <<row, carts, delayed, linked, asked, kept, overtaken>>

(* Fault: the write holds the new line only.                               *)
LineAlone(r) == [NoLines EXCEPT ![r.variant] = 1]

(* The lines read, with one more of the variant.                           *)
mergeLine(r) == [r.read EXCEPT ![r.variant] = @ + 1]

Writing(q) == reqs[q] # None /\ reqs[q].phase = "writing"
Write(q) == carts' = [carts EXCEPT ![reqs[q].cart].lines = mergeLine(reqs[q])]

WriteAnswered(q) ==
  /\ Writing(q)
  /\ Write(q)
  /\ Set(q, Added(reqs[q], reqs[q].cart))
  /\ kept' = [kept EXCEPT ![reqs[q].cart][reqs[q].variant] = @ + 1]
  /\ UNCHANGED <<row, delayed, linked, asked, overlapped, overtaken>>

(* Fault: the retry starts over from the read.                             *)
WriteLostReread(q) ==
  /\ Writing(q)
  /\ Write(q)
  /\ Set(q, IF reqs[q].tries < MaxRetries
            THEN [reqs[q] EXCEPT !.phase = "reading", !.tries = @ + 1] ELSE AddFailed(reqs[q]))
  /\ UNCHANGED <<row, delayed, linked, histories>>

(* The write is applied and its answer lost.                               *)
WriteLost(q) ==
  /\ Writing(q)
  /\ Write(q)
  /\ Set(q, Again(reqs[q]))
  /\ UNCHANGED <<row, delayed, linked, histories>>

(* The write times out on its way.                                         *)
WriteDelayed(q) ==
  /\ Writing(q)
  /\ delayed' = delayed \cup {[cart |-> reqs[q].cart, lines |-> mergeLine(reqs[q])]}
  /\ overtaken' = overtaken \cup {reqs[q].cart}
  /\ Set(q, Again(reqs[q]))
  /\ UNCHANGED <<row, carts, linked, asked, kept, overlapped>>

Arrive(w) ==
  /\ w \in delayed
  /\ delayed' = delayed \ {w}
  /\ carts' = [carts EXCEPT ![w.cart].lines = w.lines]
  /\ UNCHANGED <<row, reqs, linked, histories>>

(* A call is refused, or fails with nothing done, to the last attempt.     *)
CallFails(q) ==
  /\ reqs[q] # None /\ reqs[q].phase \in {"creating", "reading", "writing"}
  /\ Set(q, AddFailed(reqs[q]))
  /\ UNCHANGED <<row, carts, delayed, linked, histories>>

-----------------------------------------------------------------------------
(* The copy is written back.  The statement updates the cart of a row that *)
(* exists, and not its shop.                                               *)
Put(q) ==
  row' = IF row = None THEN [shop |-> reqs[q].shop, cart |-> reqs[q].cart]
         ELSE [row EXCEPT !.cart = reqs[q].cart]

Finish(q) ==
  /\ reqs[q] # None
  /\ reqs[q].phase = IF reqs[q].kind = "chat" THEN "ready" ELSE "added"
  /\ Put(q)
  /\ Set(q, None)
  /\ UNCHANGED <<carts, delayed, linked, histories>>

(* A turn that throws, or a process that dies, saves nothing.              *)
Drop(q) ==
  /\ reqs[q] # None
  /\ Set(q, None)
  /\ UNCHANGED <<row, carts, delayed, linked, histories>>

(* Half an hour without a request.                                         *)
Expire ==
  /\ row # None
  /\ row' = None
  /\ UNCHANGED <<reqs, carts, delayed, linked, histories>>

CartNext ==
  \/ \E q \in Req, shop \in Shop, kind \in {"chat", "card"} : BeginRequest(q, shop, kind)
  \/ \E q \in Req, v \in Variant : AskToAdd(q, v)
  \/ \E q \in Req : CreateAnswered(q)
  \/ \E q \in Req : CreateLost(q)
  \/ \E q \in Req : Read(q)
  \/ \E q \in Req : WriteAnswered(q)
  \/ \E q \in Req : WriteLost(q)
  \/ \E q \in Req : WriteDelayed(q)
  \/ \E w \in delayed : Arrive(w)
  \/ \E q \in Req : CallFails(q)
  \/ \E q \in Req : Finish(q)
  \/ \E q \in Req : Drop(q)
  \/ Expire

CartSpec == CartInit /\ [][CartNext]_cartVars

-----------------------------------------------------------------------------
CartTypeOK ==
  /\ row \in SessionRow \cup {None}
  /\ reqs \in [Req -> Request \cup {None}]
  /\ carts \in [CartId -> StoreCart \cup {None}]
  /\ delayed \subseteq [cart : CartId, lines : Lines]
  /\ linked \subseteq CartId
  /\ asked \in Lines
  /\ kept \in [CartId -> Lines]
  /\ overlapped \subseteq CartId /\ overtaken \subseteq CartId
  /\ row # None /\ row.cart # None => carts[row.cart] # None

(* No cart ever holds more of a variant than the shopper asked for, however *)
(* often a call was retried and however late a write arrives.              *)
NeverMoreThanAsked ==
  \A i \in CartId, v \in Variant : carts[i] # None => carts[i].lines[v] <= asked[v]

(* What was acknowledged stays in its cart, as long as no two requests     *)
(* added to it at once and no write to it was overtaken by another.        *)
AddsAreKept ==
  \A i \in CartId \ (overlapped \cup overtaken), v \in Variant :
    carts[i] # None => carts[i].lines[v] >= kept[i][v]

(* Every cart with an acknowledged line can be traced to its session when  *)
(* its order comes, whatever became of the request that made it.           *)
SalesAreTraceable ==
  \A i \in CartId : (\E v \in Variant : kept[i][v] > 0) => i \in linked
=============================================================================
