----------------------------- MODULE WidgetProofs -----------------------------
(***************************************************************************)
(* Theorems about one shopper's browser, for any number of requests,       *)
(* variants, retries and adds, of presses, turns and sentences, and for    *)
(* any loudness and times of a recording.                                  *)
(*                                                                         *)
(* Cart.  That no cart holds more than was asked for counts the asks: one  *)
(* that has not read its cart yet (Reading) is still free to add its line, *)
(* one that has read is part of the lines it is about to write.  So the    *)
(* lines of a cart, those about to be written and those delayed, together  *)
(* with the asks that have still to read, are within what was asked        *)
(* (Enough); a retry writes what was read before and adds to neither side. *)
(*                                                                         *)
(* Widget.  The playback is one chain (OneChain): a sentence in it is      *)
(* being opened, being fetched, about to begin or sounding, and busy says  *)
(* so; what may still be heard (Audible) only grows by an announcement.    *)
(* The recordings are one per press (Single), from the press to its turn.  *)
(* The microphone is held by the voice turn alone (Held), and a voice turn *)
(* that is on has something left that will end it (Going) - which a chain  *)
(* supplies only because what is said to play is being opened or sounds    *)
(* (Heeded).  Page is all of it together.                                  *)
(*                                                                         *)
(* Endpoint.  As far as the room was gauged, the floor and the peak tell   *)
(* it from the shopper (Tuned: the floor has climbed once in a frame at    *)
(* most), so a frame is judged rightly; and what the loop has counted,     *)
(* together with what it still holds back, is what the shopper said        *)
(* (Follows).  The times are sums over the frames held, of which only that *)
(* they grow, and by what, is needed (DurationIs and what follows it).     *)
(*                                                                         *)
(* The functions of the chunk are operators from voice to voice.  So first *)
(* what each does to the fields (... Is), then what it does to the chain   *)
(* (... Plays) or to the recordings (... Keeps), then the actions.         *)
(***************************************************************************)
EXTENDS Endpoint, Cart, FiniteSetTheorems, WellFoundedInduction, TLAPS

(* What the phases of a request tell of it.                                *)
Shaped ==
  \A q \in Req : reqs[q] # None =>
    /\ reqs[q].phase \in {"creating", "reading", "writing"} => reqs[q].variant \in Variant
    /\ reqs[q].phase \in {"reading", "writing"} => reqs[q].cart \in CartId

(* Every cart somebody knows of is linked and exists.                      *)
Traced ==
  /\ \A i \in linked : carts[i] # None
  /\ row # None /\ row.cart # None => row.cart \in linked
  /\ \A q \in Req : reqs[q] # None /\ reqs[q].cart # None => reqs[q].cart \in linked
  /\ \A w \in delayed : w.cart \in linked

CartTyped == CartTypeOK /\ Shaped /\ Traced

(* The requests that asked for v and have not read, or not created.        *)
In(q, phases, v) == reqs[q] # None /\ reqs[q].phase \in phases /\ reqs[q].variant = v
Reading(v) == {q \in Req : In(q, {"reading"}, v)}
Owing(v) == {q \in Req : In(q, {"reading", "creating"}, v)}
Fits(lines) == \A v \in Variant : lines[v] + Cardinality(Reading(v)) <= asked[v]

Enough ==
  /\ \A v \in Variant : Cardinality(Owing(v)) <= asked[v]
  /\ \A i \in CartId : carts[i] # None => Fits(carts[i].lines)
  /\ \A q \in Req : Writing(q) => Fits(mergeLine(reqs[q]))
  /\ \A w \in delayed : Fits(w.lines)

(* What was acknowledged is in the cart and in what is about to be written *)
(* to it, by one request at a time.                                        *)
Holds(lines, i) == \A v \in Variant : lines[v] >= kept[i][v]

Kept ==
  /\ \A i \in CartId \ (overlapped \cup overtaken) : carts[i] # None => Holds(carts[i].lines, i)
  /\ \A q \in Req : Writing(q) /\ reqs[q].cart \notin overlapped \cup overtaken =>
       Holds(reqs[q].read, reqs[q].cart)
  /\ \A p, q \in Req : Writing(p) /\ Writing(q) /\ reqs[p].cart = reqs[q].cart =>
       p = q \/ reqs[p].cart \in overlapped
  /\ \A w \in delayed : w.cart \in overtaken

-----------------------------------------------------------------------------
(* Every set of naturals that is not empty has a least member.             *)
Below == {pair \in Nat \X Nat : pair[1] < pair[2]}

LEMMA Smallest ==
  ASSUME NEW T \in SUBSET Nat, T # {}
  PROVE  \E m \in T : \A n \in T : m <= n
<1>1. IsWellFoundedOn(Below, Nat)
  BY NatLessThanWellFounded DEF OpToRel, Below
<1>2. PICK m \in T : \A n \in T : ~(<<n, m>> \in Below)
  BY <1>1, WFMin
<1>3. ASSUME NEW n \in T PROVE m <= n
  <2>1. m \in Nat /\ n \in Nat /\ ~(<<n, m>> \in Below)
    BY <1>2
  <2> QED BY <2>1 DEF Below
<1> QED BY <1>3

(* There is a next cart as long as one is unused.                          *)
LEMMA NewCartIsUnused ==
  ASSUME Unused # {}
  PROVE  NewCart \in CartId /\ carts[NewCart] = None
<1>1. Unused \in SUBSET Nat
  BY CartAssumption DEF Unused, CartId
<1>2. \E i \in Unused : \A j \in Unused : i <= j
  BY <1>1, Smallest
<1>3. NewCart \in Unused
  BY <1>2 DEF NewCart
<1> QED BY <1>3 DEF Unused

LEMMA NoneIsNoValue ==
  None \notin CartId /\ None \notin Shop /\ None \notin Variant /\ None \notin SessionRow
  /\ None \notin StoreCart /\ None \notin Request
BY CartAssumption

-----------------------------------------------------------------------------
(* What the helpers make of a request.                                     *)
LEMMA FailedTyped ==
  ASSUME NEW r \in Request
  PROVE  \/ AddFailed(r) = None
         \/ /\ AddFailed(r) \in Request
            /\ AddFailed(r).phase = "ready" /\ AddFailed(r).cart = r.cart
<1>1. NoLines \in Lines
  BY DEF NoLines, Lines
<1>2. 0 \in 0..MaxRetries
  BY CartAssumption
<1>3. [r EXCEPT !.phase = "ready", !.variant = None, !.read = NoLines, !.tries = 0] \in Request
  BY <1>1, <1>2 DEF Request
<1> QED BY <1>3 DEF AddFailed, Request

LEMMA AgainTyped ==
  ASSUME NEW r \in Request
  PROVE  \/ Again(r) = AddFailed(r)
         \/ /\ Again(r) \in Request
            /\ Again(r).phase = r.phase /\ Again(r).cart = r.cart
            /\ Again(r).variant = r.variant /\ Again(r).read = r.read
            /\ Again(r).shop = r.shop
<1>1. ASSUME r.tries < MaxRetries PROVE [r EXCEPT !.tries = @ + 1] \in Request
  <2>1. r.tries + 1 \in 0..MaxRetries
    BY <1>1, CartAssumption DEF Request
  <2> QED BY <2>1 DEF Request
<1> QED BY <1>1 DEF Again, Request

LEMMA AddedTyped ==
  ASSUME NEW r \in Request, NEW i \in CartId
  PROVE  /\ Added(r, i) \in Request
         /\ Added(r, i).phase \in {"ready", "added"} /\ Added(r, i).cart = i
<1>1. NoLines \in Lines
  BY DEF NoLines, Lines
<1>2. 0 \in 0..MaxRetries
  BY CartAssumption
<1> QED BY <1>1, <1>2 DEF Added, Request

LEMMA MergeTyped ==
  ASSUME NEW r \in Request, r.variant \in Variant
  PROVE  /\ mergeLine(r) \in Lines
         /\ mergeLine(r)[r.variant] = r.read[r.variant] + 1
         /\ \A v \in Variant \ {r.variant} : mergeLine(r)[v] = r.read[v]
BY DEF mergeLine, Request, Lines

LEMMA OneLine ==
  ASSUME NEW u \in Variant
  PROVE  /\ [NoLines EXCEPT ![u] = 1] \in Lines
         /\ \A v \in Variant : [NoLines EXCEPT ![u] = 1][v] = IF v = u THEN 1 ELSE 0
BY DEF NoLines, Lines

-----------------------------------------------------------------------------
(* Types.                                                                  *)

(* A step of one request keeps what is known of the others.                *)
LEMMA SetTyped ==
  ASSUME CartTyped, NEW q \in Req, NEW r \in Request \cup {None}, Set(q, r)
  PROVE  /\ reqs' \in [Req -> Request \cup {None}]
         /\ reqs'[q] = r
         /\ \A p \in Req \ {q} : reqs'[p] = reqs[p]
BY DEF CartTyped, CartTypeOK, Set

ShapedOf(r) ==
  r # None => /\ r.phase \in {"creating", "reading", "writing"} => r.variant \in Variant
              /\ r.phase \in {"reading", "writing"} => r.cart \in CartId

LEMMA RequestKeeps ==
  ASSUME CartTyped, NEW q \in Req, NEW r \in Request \cup {None}, Set(q, r), ShapedOf(r),
         linked \subseteq linked', linked' \subseteq CartId,
         r # None /\ r.cart # None => r.cart \in linked',
         carts' \in [CartId -> StoreCart \cup {None}],
         \A i \in linked' : carts'[i] # None,
         \A i \in CartId : carts[i] # None => carts'[i] # None,
         row' \in SessionRow \cup {None},
         row' # None /\ row'.cart # None => row'.cart \in linked',
         delayed' \subseteq [cart : CartId, lines : Lines],
         \A w \in delayed' : w.cart \in linked',
         asked' \in Lines, kept' \in [CartId -> Lines],
         overlapped' \subseteq CartId, overtaken' \subseteq CartId
  PROVE  CartTyped'
<1>1. /\ reqs' \in [Req -> Request \cup {None}] /\ reqs'[q] = r
      /\ \A p \in Req \ {q} : reqs'[p] = reqs[p]
  BY SetTyped
<1>2. Shaped'
  BY <1>1 DEF CartTyped, Shaped, ShapedOf
<1>3. Traced'
  BY <1>1 DEF CartTyped, Traced
<1>4. row' # None /\ row'.cart # None => carts'[row'.cart] # None
  OBVIOUS
<1>5. CartTypeOK'
  BY <1>1, <1>4 DEF CartTypeOK
<1> QED BY <1>2, <1>3, <1>5 DEF CartTyped

(* The same, when only the request and the histories change.               *)
LEMMA OnlyRequestKeeps ==
  ASSUME CartTyped, NEW q \in Req, NEW r \in Request \cup {None}, Set(q, r), ShapedOf(r),
         r # None /\ r.cart # None => r.cart \in linked,
         UNCHANGED <<row, carts, delayed, linked>>,
         asked' \in Lines, kept' \in [CartId -> Lines],
         overlapped' \subseteq CartId, overtaken' \subseteq CartId
  PROVE  CartTyped'
<1>1. /\ linked' \subseteq CartId /\ carts' \in [CartId -> StoreCart \cup {None}]
      /\ row' \in SessionRow \cup {None} /\ delayed' \subseteq [cart : CartId, lines : Lines]
  BY DEF CartTyped, CartTypeOK
<1>2. /\ \A i \in linked' : carts'[i] # None
      /\ row' # None /\ row'.cart # None => row'.cart \in linked'
      /\ \A w \in delayed' : w.cart \in linked'
  BY DEF CartTyped, Traced
<1> QED BY <1>1, <1>2, RequestKeeps

LEMMA CartInitTyped == CartInit => CartTyped
BY NoneIsNoValue DEF CartInit, CartTyped, CartTypeOK, Shaped, Traced, NoLines, Lines

(* A request in a busy phase is one, with what its phase needs.            *)
LEMMA BusyTyped ==
  ASSUME CartTyped, NEW q \in Req, reqs[q] # None
  PROVE  /\ reqs[q] \in Request /\ ShapedOf(reqs[q])
         /\ reqs[q].cart # None => reqs[q].cart \in linked
BY DEF CartTyped, CartTypeOK, Shaped, ShapedOf, Traced

LEMMA HistoriesTyped ==
  ASSUME CartTyped
  PROVE  /\ asked \in Lines /\ kept \in [CartId -> Lines]
         /\ overlapped \subseteq CartId /\ overtaken \subseteq CartId
BY DEF CartTyped, CartTypeOK

(* The write of a request is typed and leaves every cart there is.         *)
LEMMA WriteTyped ==
  ASSUME CartTyped, NEW q \in Req, Writing(q)
  PROVE  /\ reqs[q] \in Request /\ reqs[q].variant \in Variant /\ reqs[q].cart \in CartId
         /\ reqs[q].cart \in linked /\ carts[reqs[q].cart] \in StoreCart
         /\ mergeLine(reqs[q]) \in Lines
<1>1. /\ reqs[q] \in Request /\ reqs[q].variant \in Variant /\ reqs[q].cart \in CartId
  BY BusyTyped DEF Writing, ShapedOf
<1>2. reqs[q].cart \in linked
  BY <1>1, BusyTyped, NoneIsNoValue DEF Writing
<1>3. carts[reqs[q].cart] \in StoreCart
  BY <1>1, <1>2 DEF CartTyped, CartTypeOK, Traced
<1> QED BY <1>1, <1>2, <1>3, MergeTyped

LEMMA PutLinesTyped ==
  ASSUME CartTyped, NEW i \in CartId, carts[i] # None, NEW lines \in Lines,
         carts' = [carts EXCEPT ![i].lines = lines]
  PROVE  /\ carts' \in [CartId -> StoreCart \cup {None}]
         /\ carts'[i] # None /\ carts'[i].lines = lines
         /\ \A j \in CartId \ {i} : carts'[j] = carts[j]
<1>1. carts \in [CartId -> StoreCart \cup {None}] /\ carts[i] \in StoreCart
  BY DEF CartTyped, CartTypeOK
<1>2. [carts[i] EXCEPT !.lines = lines] \in StoreCart /\ [carts[i] EXCEPT !.lines = lines].lines = lines
  BY <1>1 DEF StoreCart
<1>3. carts'[i] = [carts[i] EXCEPT !.lines = lines] /\ \A j \in CartId \ {i} : carts'[j] = carts[j]
  BY <1>1
<1> QED BY <1>1, <1>2, <1>3, NoneIsNoValue

LEMMA CartStepTyped == CartTyped /\ [CartNext]_cartVars => CartTyped'
<1> SUFFICES ASSUME CartTyped, [CartNext]_cartVars PROVE CartTyped'
  OBVIOUS
<1> USE DEF histories
<1>1. ASSUME NEW q \in Req, NEW shop \in Shop, NEW kind \in {"chat", "card"}, BeginRequest(q, shop, kind)
      PROVE  CartTyped'
  <2> DEFINE r == [phase |-> "ready", kind |-> kind, shop |-> shop, cart |-> Session(shop).cart,
                   variant |-> None, read |-> NoLines, tries |-> 0]
  <2>1. Session(shop).cart \in CartId \cup {None}
        /\ (Session(shop).cart # None => Session(shop).cart \in linked)
    BY DEF CartTyped, CartTypeOK, Traced, Session, SessionRow
  <2>2. r \in Request /\ ShapedOf(r) /\ (r.cart # None => r.cart \in linked)
    BY <2>1, CartAssumption DEF Request, NoLines, Lines, ShapedOf
  <2>3. Set(q, r) /\ UNCHANGED <<row, carts, delayed, linked, histories>>
    BY <1>1 DEF BeginRequest
  <2> HIDE DEF r
  <2> QED BY <2>2, <2>3, HistoriesTyped, OnlyRequestKeeps
<1>2. ASSUME NEW q \in Req, NEW v \in Variant, AskToAdd(q, v) PROVE CartTyped'
  <2> DEFINE phase == IF reqs[q].cart = None THEN "creating" ELSE "reading"
             r == [reqs[q] EXCEPT !.phase = phase, !.variant = v, !.tries = 0]
  <2>1. /\ reqs[q] \in Request /\ reqs[q].cart \in CartId \cup {None}
        /\ reqs[q].cart # None => reqs[q].cart \in linked
    BY <1>2, BusyTyped DEF AskToAdd, Request
  <2>2. phase \in {"creating", "reading"} /\ (phase = "reading" => reqs[q].cart \in CartId)
        /\ 0 \in 0..MaxRetries
    BY <2>1, CartAssumption
  <2>3. Set(q, r) /\ UNCHANGED <<row, carts, delayed, linked, kept, overlapped, overtaken>>
    BY <1>2 DEF AskToAdd
  <2> HIDE DEF phase
  <2>4. r \in Request /\ r.phase = phase /\ r.cart = reqs[q].cart /\ r.variant = v
    BY <2>1, <2>2 DEF Request
  <2> HIDE DEF r
  <2>5. ShapedOf(r) /\ (r.cart # None => r.cart \in linked)
    BY <2>1, <2>2, <2>4 DEF ShapedOf
  <2>6. asked' \in Lines
    BY <1>2, HistoriesTyped DEF AskToAdd, Lines
  <2> QED BY <2>3, <2>4, <2>5, <2>6, HistoriesTyped, OnlyRequestKeeps
<1>3. ASSUME NEW q \in Req, Creates(q), NEW r \in Request \cup {None}, Set(q, r), ShapedOf(r),
             linked' \in {linked, linked \cup {NewCart}},
             r # None /\ r.cart # None => r.cart \in linked',
             kept' \in [CartId -> Lines], UNCHANGED <<row, delayed, asked, overlapped, overtaken>>
      PROVE  CartTyped'
  <2>1. NewCart \in CartId /\ carts[NewCart] = None
    BY <1>3, NewCartIsUnused DEF Creates
  <2>2. [shop |-> reqs[q].shop, lines |-> [NoLines EXCEPT ![reqs[q].variant] = 1]] \in StoreCart
    BY <1>3, BusyTyped, OneLine DEF Creates, ShapedOf, StoreCart, Request
  <2>3. carts \in [CartId -> StoreCart \cup {None}]
    BY DEF CartTyped, CartTypeOK
  <2>4. /\ carts' \in [CartId -> StoreCart \cup {None}]
        /\ carts'[NewCart] # None
        /\ \A i \in CartId \ {NewCart} : carts'[i] = carts[i]
    BY <1>3, <2>1, <2>2, <2>3, NoneIsNoValue DEF Creates
  <2>5. linked \subseteq CartId /\ \A i \in linked : carts[i] # None
    BY DEF CartTyped, CartTypeOK, Traced
  <2>6. linked' \subseteq CartId /\ \A i \in linked' : carts'[i] # None
    BY <1>3, <2>1, <2>4, <2>5
  <2>7. \A i \in CartId : carts[i] # None => carts'[i] # None
    BY <2>1, <2>4
  <2>8. /\ row' \in SessionRow \cup {None} /\ delayed' \subseteq [cart : CartId, lines : Lines]
        /\ row' # None /\ row'.cart # None => row'.cart \in linked'
        /\ \A w \in delayed' : w.cart \in linked'
    BY <1>3 DEF CartTyped, CartTypeOK, Traced
  <2> QED BY <1>3, <2>4, <2>6, <2>7, <2>8, HistoriesTyped, RequestKeeps
<1>4. ASSUME NEW q \in Req, CreateAnswered(q) PROVE CartTyped'
  <2>1. NewCart \in CartId
    BY <1>4, NewCartIsUnused DEF CreateAnswered, Creates
  <2>2. reqs[q] \in Request /\ reqs[q].variant \in Variant
    BY <1>4, BusyTyped DEF CreateAnswered, Creates, ShapedOf
  <2>3. /\ Added(reqs[q], NewCart) \in Request /\ ShapedOf(Added(reqs[q], NewCart))
        /\ Added(reqs[q], NewCart).cart = NewCart
    BY <2>1, <2>2, AddedTyped DEF ShapedOf
  <2>4. kept' \in [CartId -> Lines]
    BY <1>4, <2>2, OneLine, HistoriesTyped DEF CreateAnswered
  <2>5. /\ Creates(q) /\ Set(q, Added(reqs[q], NewCart)) /\ linked' = linked \cup {NewCart}
        /\ UNCHANGED <<row, delayed, asked, overlapped, overtaken>>
    BY <1>4 DEF CreateAnswered
  <2> QED BY <1>3, <2>3, <2>4, <2>5
<1>5. ASSUME NEW q \in Req, reqs[q] # None
      PROVE  \A r \in {Again(reqs[q]), AddFailed(reqs[q])} :
               r \in Request \cup {None} /\ ShapedOf(r) /\ (r # None /\ r.cart # None => r.cart \in linked)
  BY <1>5, BusyTyped, AgainTyped, FailedTyped DEF ShapedOf
<1>6. ASSUME NEW q \in Req, CreateLost(q) PROVE CartTyped'
  <2>1. /\ Creates(q) /\ reqs[q] # None /\ Set(q, Again(reqs[q]))
        /\ UNCHANGED <<row, delayed, linked, histories>>
    BY <1>6 DEF CreateLost, Creates
  <2> QED BY <1>3, <1>5, <2>1, HistoriesTyped
<1>7. ASSUME NEW q \in Req, Read(q) PROVE CartTyped'
  <2> DEFINE i == reqs[q].cart
             r == [reqs[q] EXCEPT !.phase = "writing", !.read = carts[i].lines, !.tries = 0]
  <2>1. reqs[q] \in Request /\ reqs[q].variant \in Variant /\ i \in CartId /\ i \in linked
    BY <1>7, BusyTyped, NoneIsNoValue DEF Read, ShapedOf
  <2>2. carts[i] \in StoreCart
    BY <2>1 DEF CartTyped, CartTypeOK, Traced
  <2>3. carts[i].lines \in Lines /\ 0 \in 0..MaxRetries
    BY <2>2, CartAssumption DEF StoreCart
  <2>4. r \in Request /\ r.phase = "writing" /\ r.variant = reqs[q].variant /\ r.cart = i
    BY <2>1, <2>3 DEF Request
  <2>5. overlapped' \subseteq CartId
    BY <1>7, <2>1, HistoriesTyped DEF Read
  <2>6. Set(q, r) /\ UNCHANGED <<row, carts, delayed, linked, asked, kept, overtaken>>
    BY <1>7 DEF Read
  <2>7. ShapedOf(r)
    BY <2>1, <2>4 DEF ShapedOf
  <2> HIDE DEF r
  <2> QED BY <2>1, <2>4, <2>5, <2>6, <2>7, HistoriesTyped, OnlyRequestKeeps
<1>8. ASSUME NEW q \in Req, Writing(q), Write(q), NEW r \in Request \cup {None}, Set(q, r), ShapedOf(r),
             r # None /\ r.cart # None => r.cart \in linked,
             kept' \in [CartId -> Lines], UNCHANGED <<row, delayed, linked, asked, overlapped, overtaken>>
      PROVE  CartTyped'
  <2>1. /\ reqs[q].cart \in CartId /\ carts[reqs[q].cart] # None /\ mergeLine(reqs[q]) \in Lines
    BY <1>8, WriteTyped, NoneIsNoValue
  <2>2. /\ carts' \in [CartId -> StoreCart \cup {None}]
        /\ \A i \in CartId : carts[i] # None => carts'[i] # None
    BY <1>8, <2>1, PutLinesTyped DEF Write
  <2>3. /\ row' \in SessionRow \cup {None} /\ delayed' \subseteq [cart : CartId, lines : Lines]
        /\ linked' \subseteq CartId
        /\ row' # None /\ row'.cart # None => row'.cart \in linked'
        /\ \A w \in delayed' : w.cart \in linked'
        /\ \A i \in linked' : carts[i] # None
    BY <1>8 DEF CartTyped, CartTypeOK, Traced
  <2>4. \A i \in linked' : carts'[i] # None
    BY <2>2, <2>3
  <2> QED BY <1>8, <2>2, <2>3, <2>4, HistoriesTyped, RequestKeeps
<1>9. ASSUME NEW q \in Req, WriteAnswered(q) PROVE CartTyped'
  <2> DEFINE i == reqs[q].cart
  <2>1. /\ Writing(q) /\ Write(q) /\ Set(q, Added(reqs[q], i))
        /\ kept' = [kept EXCEPT ![i][reqs[q].variant] = @ + 1]
        /\ UNCHANGED <<row, delayed, linked, asked, overlapped, overtaken>>
    BY <1>9 DEF WriteAnswered
  <2>2. reqs[q] \in Request /\ reqs[q].variant \in Variant /\ i \in CartId /\ i \in linked
    BY <2>1, WriteTyped
  <2>3. /\ Added(reqs[q], i) \in Request /\ ShapedOf(Added(reqs[q], i)) /\ Added(reqs[q], i).cart = i
    BY <2>2, AddedTyped DEF ShapedOf
  <2>4. kept' \in [CartId -> Lines]
    BY <2>1, <2>2, HistoriesTyped DEF Lines
  <2> QED BY <1>8, <2>1, <2>2, <2>3, <2>4
<1>10. ASSUME NEW q \in Req, WriteLost(q) PROVE CartTyped'
  <2>1. /\ Writing(q) /\ Write(q) /\ Set(q, Again(reqs[q])) /\ reqs[q] # None
        /\ UNCHANGED <<row, delayed, linked, histories>>
    BY <1>10 DEF WriteLost, Writing
  <2> QED BY <1>5, <1>8, <2>1, HistoriesTyped
<1>11. ASSUME NEW q \in Req, WriteDelayed(q) PROVE CartTyped'
  <2> DEFINE w == [cart |-> reqs[q].cart, lines |-> mergeLine(reqs[q])]
  <2>1. /\ Writing(q) /\ Set(q, Again(reqs[q])) /\ reqs[q] # None
        /\ delayed' = delayed \cup {w} /\ overtaken' = overtaken \cup {reqs[q].cart}
        /\ UNCHANGED <<row, carts, linked, asked, kept, overlapped>>
    BY <1>11 DEF WriteDelayed, Writing
  <2>2. reqs[q].cart \in CartId /\ w \in [cart : CartId, lines : Lines] /\ w.cart \in linked
    BY <2>1, WriteTyped
  <2>3. /\ delayed' \subseteq [cart : CartId, lines : Lines] /\ \A x \in delayed' : x.cart \in linked'
        /\ overtaken' \subseteq CartId
    BY <2>1, <2>2 DEF CartTyped, CartTypeOK, Traced
  <2>4. /\ row' \in SessionRow \cup {None} /\ carts' \in [CartId -> StoreCart \cup {None}]
        /\ linked' \subseteq CartId
        /\ row' # None /\ row'.cart # None => row'.cart \in linked'
        /\ \A i \in linked' : carts'[i] # None
    BY <2>1 DEF CartTyped, CartTypeOK, Traced
  <2> QED BY <1>5, <2>1, <2>3, <2>4, HistoriesTyped, RequestKeeps
<1>12. ASSUME NEW w \in delayed, Arrive(w) PROVE CartTyped'
  <2>1. w.cart \in CartId /\ w.lines \in Lines /\ w.cart \in linked /\ carts[w.cart] # None
    BY DEF CartTyped, CartTypeOK, Traced
  <2>2. /\ carts' \in [CartId -> StoreCart \cup {None}]
        /\ \A i \in CartId : carts[i] # None => carts'[i] # None
    BY <1>12, <2>1, PutLinesTyped DEF Arrive
  <2>3. delayed' \subseteq delayed /\ UNCHANGED <<row, reqs, linked, histories>>
    BY <1>12 DEF Arrive
  <2>4. CartTypeOK'
    BY <2>2, <2>3 DEF CartTyped, CartTypeOK, Traced
  <2>5. Traced'
    BY <2>2, <2>3 DEF CartTyped, CartTypeOK, Traced
  <2> QED BY <2>3, <2>4, <2>5 DEF CartTyped, Shaped
<1>13. ASSUME NEW q \in Req, CallFails(q) PROVE CartTyped'
  <2>1. reqs[q] # None /\ Set(q, AddFailed(reqs[q])) /\ UNCHANGED <<row, carts, delayed, linked, histories>>
    BY <1>13 DEF CallFails
  <2> QED BY <1>5, <2>1, HistoriesTyped, OnlyRequestKeeps
<1>14. ASSUME NEW q \in Req, Finish(q) PROVE CartTyped'
  <2>1. reqs[q] \in Request /\ (reqs[q].cart # None => reqs[q].cart \in linked)
    BY <1>14, BusyTyped DEF Finish
  <2>2. row' \in SessionRow /\ row'.cart = reqs[q].cart
    <3>1. CASE row = None
      BY <1>14, <2>1, <3>1 DEF Finish, Put, SessionRow, Request
    <3>2. CASE row # None
      <4>1. row \in SessionRow
        BY <3>2 DEF CartTyped, CartTypeOK
      <4> QED BY <1>14, <2>1, <3>2, <4>1 DEF Finish, Put, SessionRow, Request
    <3> QED BY <3>1, <3>2
  <2>3. Set(q, None) /\ UNCHANGED <<carts, delayed, linked, histories>>
    BY <1>14 DEF Finish
  <2>4. /\ carts' \in [CartId -> StoreCart \cup {None}] /\ linked' \subseteq CartId
        /\ delayed' \subseteq [cart : CartId, lines : Lines] /\ \A w \in delayed' : w.cart \in linked'
        /\ \A i \in linked' : carts'[i] # None
    BY <2>3 DEF CartTyped, CartTypeOK, Traced
  <2>5. ShapedOf(None)
    BY DEF ShapedOf
  <2> QED BY <2>1, <2>2, <2>3, <2>4, <2>5, HistoriesTyped, RequestKeeps
<1>15. ASSUME NEW q \in Req, Drop(q) PROVE CartTyped'
  BY <1>15, HistoriesTyped, OnlyRequestKeeps DEF Drop, ShapedOf
<1>16. CASE Expire
  BY <1>16 DEF Expire, CartTyped, CartTypeOK, Shaped, Traced
<1>17. CASE UNCHANGED cartVars
  BY <1>17 DEF cartVars, CartTyped, CartTypeOK, Shaped, Traced
<1> QED
  BY <1>1, <1>2, <1>4, <1>6, <1>7, <1>9, <1>10, <1>11, <1>12, <1>13, <1>14, <1>15, <1>16, <1>17
  DEF CartNext

(* The session row, the copies requests work on and the carts keep their   *)
(* types, and every cart that is named anywhere exists and is linked to    *)
(* its session.                                                            *)
THEOREM CartTypeCorrect == CartSpec => [](CartTypeOK /\ Shaped /\ Traced)
BY CartInitTyped, CartStepTyped, PTL DEF CartSpec, CartTyped

-----------------------------------------------------------------------------
(* Nothing is added twice.                                                 *)

LEMMA CountsAreNat ==
  ASSUME NEW v
  PROVE  /\ IsFiniteSet(Reading(v)) /\ Cardinality(Reading(v)) \in Nat
         /\ IsFiniteSet(Owing(v)) /\ Cardinality(Owing(v)) \in Nat
         /\ Reading(v) \subseteq Owing(v)
         /\ Cardinality(Reading(v)) <= Cardinality(Owing(v))
<1>1. Owing(v) \in SUBSET Req /\ Reading(v) \in SUBSET Owing(v)
  BY DEF Owing, Reading, In
<1>2. IsFiniteSet(Owing(v))
  BY <1>1, CartAssumption, FS_Subset
<1>3. IsFiniteSet(Reading(v)) /\ Cardinality(Reading(v)) <= Cardinality(Owing(v))
  BY <1>1, <1>2, FS_Subset
<1> QED BY <1>1, <1>2, <1>3, FS_CardinalityType

(* A step of a request that does not begin to owe leaves no more that do.  *)
LEMMA NoMoreOwing ==
  ASSUME CartTyped, NEW q \in Req, NEW r \in Request \cup {None}, Set(q, r),
         \/ r = None \/ r.phase \notin {"reading", "creating"}
         \/ /\ reqs[q] # None /\ r.phase = reqs[q].phase /\ r.variant = reqs[q].variant,
         NEW v
  PROVE  /\ Reading(v)' \subseteq Reading(v) /\ Owing(v)' \subseteq Owing(v)
         /\ Cardinality(Reading(v)') \in Nat /\ Cardinality(Owing(v)') \in Nat
         /\ Cardinality(Reading(v)') <= Cardinality(Reading(v))
         /\ Cardinality(Owing(v)') <= Cardinality(Owing(v))
<1>1. /\ reqs'[q] = r /\ \A p \in Req \ {q} : reqs'[p] = reqs[p]
  BY SetTyped
<1>2. Reading(v)' \subseteq Reading(v) /\ Owing(v)' \subseteq Owing(v)
  BY <1>1 DEF Reading, Owing, In
<1>3. Reading(v)' \in SUBSET Reading(v) /\ Owing(v)' \in SUBSET Owing(v)
  BY <1>2
<1> QED BY <1>2, <1>3, CountsAreNat, FS_Subset, FS_CardinalityType

(* What fits after a step.                                                 *)
FitsNext(lines) == \A v \in Variant : lines[v] + Cardinality(Reading(v)') <= asked'[v]
StillFits == \A lines \in Lines : Fits(lines) => FitsNext(lines)
OwingNext == \A v \in Variant : Cardinality(Owing(v)') <= asked'[v]

LEMMA FitsStill ==
  ASSUME CartTyped, Enough, NEW q \in Req, NEW r \in Request \cup {None}, Set(q, r),
         \/ r = None \/ r.phase \notin {"reading", "creating"}
         \/ /\ reqs[q] # None /\ r.phase = reqs[q].phase /\ r.variant = reqs[q].variant,
         asked' = asked
  PROVE  StillFits /\ OwingNext
<1>1. asked \in Lines
  BY HistoriesTyped
<1>2. ASSUME NEW v \in Variant
      PROVE  /\ Cardinality(Reading(v)') \in Nat /\ Cardinality(Reading(v)) \in Nat
             /\ Cardinality(Reading(v)') <= Cardinality(Reading(v))
             /\ Cardinality(Owing(v)') \in Nat /\ Cardinality(Owing(v)) \in Nat
             /\ Cardinality(Owing(v)') <= Cardinality(Owing(v))
             /\ Cardinality(Owing(v)) <= asked[v] /\ asked[v] \in Nat /\ asked'[v] = asked[v]
  BY <1>1, NoMoreOwing, CountsAreNat DEF Enough, Lines
<1>3. ASSUME NEW lines \in Lines, Fits(lines), NEW v \in Variant
      PROVE  lines[v] + Cardinality(Reading(v)') <= asked'[v]
  <2>1. lines[v] \in Nat /\ lines[v] + Cardinality(Reading(v)) <= asked[v]
    BY <1>3 DEF Fits, Lines
  <2> QED BY <1>2, <2>1
<1>4. StillFits
  BY <1>3 DEF StillFits, FitsNext
<1>5. ASSUME NEW v \in Variant PROVE Cardinality(Owing(v)') <= asked'[v]
  BY <1>2
<1> QED BY <1>4, <1>5 DEF OwingNext

(* A step of one request keeps the count if what it writes, delays or is   *)
(* about to write fits.                                                    *)
LEMMA EnoughKeeps ==
  ASSUME CartTyped, Enough, NEW q \in Req, NEW r \in Request \cup {None}, Set(q, r),
         StillFits, OwingNext,
         \A i \in CartId : carts'[i] # None =>
           \/ carts[i] # None /\ carts'[i].lines = carts[i].lines
           \/ Writing(q) /\ carts'[i].lines = mergeLine(reqs[q])
           \/ FitsNext(carts'[i].lines),
         r # None /\ r.phase = "writing" =>
           \/ Writing(q) /\ r.read = reqs[q].read /\ r.variant = reqs[q].variant
           \/ FitsNext(mergeLine(r)),
         \A w \in delayed' : w \in delayed \/ (Writing(q) /\ w.lines = mergeLine(reqs[q]))
  PROVE  Enough'
<1>1. /\ reqs'[q] = r /\ \A p \in Req \ {q} : reqs'[p] = reqs[p]
  BY SetTyped
<1>2. ASSUME NEW p \in Req, Writing(p) PROVE FitsNext(mergeLine(reqs[p]))
  BY <1>2, WriteTyped DEF Enough, StillFits
<1>3. ASSUME NEW i \in CartId, carts'[i] # None PROVE FitsNext(carts'[i].lines)
  <2>1. ASSUME carts[i] # None PROVE FitsNext(carts[i].lines)
    <3>1. carts[i] \in StoreCart /\ Fits(carts[i].lines)
      BY <2>1 DEF CartTyped, CartTypeOK, Enough
    <3> QED BY <3>1 DEF StoreCart, StillFits
  <2> QED BY <1>2, <1>3, <2>1
<1>4. ASSUME NEW p \in Req, Writing(p)' PROVE FitsNext(mergeLine(reqs'[p]))
  <2>1. CASE p # q
    BY <1>1, <1>2, <1>4, <2>1 DEF Writing
  <2>2. CASE p = q
    <3>1. r # None /\ r.phase = "writing" /\ reqs'[p] = r
      BY <1>1, <1>4, <2>2 DEF Writing
    <3>2. CASE Writing(q) /\ r.read = reqs[q].read /\ r.variant = reqs[q].variant
      <4>1. mergeLine(r) = mergeLine(reqs[q])
        BY <3>2 DEF mergeLine
      <4> QED BY <1>2, <3>1, <3>2, <4>1
    <3> QED BY <3>1, <3>2
  <2> QED BY <2>1, <2>2
<1>5. ASSUME NEW w \in delayed' PROVE FitsNext(w.lines)
  <2>1. ASSUME w \in delayed PROVE FitsNext(w.lines)
    BY <2>1 DEF CartTyped, CartTypeOK, Enough, StillFits
  <2> QED BY <1>2, <1>5, <2>1
<1> QED BY <1>3, <1>4, <1>5 DEF Enough, Fits, FitsNext, OwingNext, mergeLine

LEMMA CartInitEnough == CartInit => Enough
<1> SUFFICES ASSUME CartInit PROVE Enough
  OBVIOUS
<1>1. ASSUME NEW v \in Variant PROVE Owing(v) = {} /\ asked[v] = 0
  BY NoneIsNoValue DEF CartInit, Owing, In, NoLines
<1>2. \A v \in Variant : Cardinality(Owing(v)) <= asked[v]
  BY <1>1, FS_EmptySet
<1> QED BY <1>2 DEF CartInit, Enough, Writing

LEMMA CartStepEnough == CartTyped /\ Enough /\ [CartNext]_cartVars => Enough'
<1> SUFFICES ASSUME CartTyped, Enough, [CartNext]_cartVars PROVE Enough'
  OBVIOUS
<1> USE DEF histories
<1>q. ASSUME NEW q \in Req, reqs[q] # None
      PROVE  \A r \in {Again(reqs[q]), AddFailed(reqs[q])} :
               /\ r \in Request \cup {None}
               /\ \/ r = None \/ r.phase \notin {"reading", "creating"}
                  \/ r.phase = reqs[q].phase /\ r.variant = reqs[q].variant
               /\ r # None /\ r.phase = "writing" =>
                    Writing(q) /\ r.read = reqs[q].read /\ r.variant = reqs[q].variant
  BY <1>q, BusyTyped, AgainTyped, FailedTyped DEF Writing
<1>1. ASSUME NEW q \in Req, NEW r \in Request \cup {None}, Set(q, r),
             \/ r = None \/ r.phase \notin {"reading", "creating", "writing"}
             \/ reqs[q] # None /\ r \in {Again(reqs[q]), AddFailed(reqs[q])},
             asked' = asked, carts' = carts, delayed' = delayed
      PROVE  Enough'
  <2>1. \/ r = None \/ r.phase \notin {"reading", "creating"}
        \/ reqs[q] # None /\ r.phase = reqs[q].phase /\ r.variant = reqs[q].variant
    BY <1>1, <1>q
  <2>2. r # None /\ r.phase = "writing" =>
          Writing(q) /\ r.read = reqs[q].read /\ r.variant = reqs[q].variant
    BY <1>1, <1>q
  <2>3. StillFits /\ OwingNext
    BY <1>1, <2>1, FitsStill
  <2> QED BY <1>1, <2>2, <2>3, EnoughKeeps
<1>2. ASSUME NEW q \in Req, NEW v \in Variant, AskToAdd(q, v) PROVE Enough'
  <2> DEFINE phase == IF reqs[q].cart = None THEN "creating" ELSE "reading"
             r == [reqs[q] EXCEPT !.phase = phase, !.variant = v, !.tries = 0]
  <2>1. reqs[q] \in Request /\ 0 \in 0..MaxRetries /\ Set(q, r)
    BY <1>2, BusyTyped, CartAssumption DEF AskToAdd
  <2>2. phase \in {"creating", "reading"}
    OBVIOUS
  <2> HIDE DEF phase
  <2>3. r \in Request /\ r.phase = phase /\ r.variant = v
    BY <2>1, <2>2 DEF Request
  <2> HIDE DEF r
  <2>4. /\ reqs'[q] = r /\ \A p \in Req \ {q} : reqs'[p] = reqs[p]
    BY <2>1, <2>3, SetTyped
  <2>5. /\ asked \in Lines /\ asked'[v] = asked[v] + 1
        /\ \A u \in Variant \ {v} : asked'[u] = asked[u]
    BY <1>2, HistoriesTyped DEF AskToAdd, Lines
  <2>6. ASSUME NEW u \in Variant \ {v}
        PROVE  Reading(u)' \in SUBSET Reading(u) /\ Owing(u)' \in SUBSET Owing(u)
    BY <2>3, <2>4 DEF Reading, Owing, In
  <2>7. Reading(v)' \in SUBSET (Reading(v) \cup {q}) /\ Owing(v)' \in SUBSET (Owing(v) \cup {q})
    BY <2>3, <2>4 DEF Reading, Owing, In
  <2>8. ASSUME NEW u \in Variant
        PROVE  /\ Cardinality(Reading(u)) \in Nat /\ Cardinality(Owing(u)) \in Nat
               /\ Cardinality(Owing(u)) <= asked[u] /\ asked[u] \in Nat
               /\ IsFiniteSet(Reading(u)) /\ IsFiniteSet(Owing(u))
    BY <2>5, CountsAreNat DEF Enough, Lines
  <2>9. ASSUME NEW u \in Variant \ {v}
        PROVE  /\ Cardinality(Reading(u)') \in Nat /\ Cardinality(Reading(u)') <= Cardinality(Reading(u))
               /\ Cardinality(Owing(u)') \in Nat /\ Cardinality(Owing(u)') <= Cardinality(Owing(u))
    BY <2>6, <2>8, FS_Subset, FS_CardinalityType
  <2>10. /\ Cardinality(Reading(v)') \in Nat /\ Cardinality(Reading(v)') <= Cardinality(Reading(v)) + 1
         /\ Cardinality(Owing(v)') \in Nat /\ Cardinality(Owing(v)') <= Cardinality(Owing(v)) + 1
    <3>1. ASSUME NEW S, IsFiniteSet(S)
          PROVE  IsFiniteSet(S \cup {q}) /\ Cardinality(S \cup {q}) <= Cardinality(S) + 1
                 /\ Cardinality(S) \in Nat /\ Cardinality(S \cup {q}) \in Nat
      <4>1. Cardinality(S) \in Nat
        BY <3>1, FS_CardinalityType
      <4>2. CASE q \in S
        <5>1. S \cup {q} = S
          BY <4>2
        <5> QED BY <3>1, <4>1, <5>1
      <4>3. CASE q \notin S
        BY <3>1, <4>1, <4>3, FS_AddElement
      <4> QED BY <4>2, <4>3
    <3>2. ASSUME NEW S, NEW T \in SUBSET (S \cup {q}), IsFiniteSet(S)
          PROVE  Cardinality(T) \in Nat /\ Cardinality(T) <= Cardinality(S) + 1
      <4>1. /\ IsFiniteSet(S \cup {q}) /\ Cardinality(S \cup {q}) <= Cardinality(S) + 1
            /\ Cardinality(S) \in Nat /\ Cardinality(S \cup {q}) \in Nat
        BY <3>1, <3>2
      <4>2. IsFiniteSet(T) /\ Cardinality(T) <= Cardinality(S \cup {q})
        BY <3>2, <4>1, FS_Subset
      <4> QED BY <4>1, <4>2, FS_CardinalityType
    <3> QED BY <2>7, <2>8, <3>2
  <2>11. ASSUME NEW lines \in Lines, Fits(lines), NEW u \in Variant
         PROVE  lines[u] + Cardinality(Reading(u)') <= asked'[u]
    <3>1. lines[u] \in Nat /\ lines[u] + Cardinality(Reading(u)) <= asked[u]
      BY <2>11 DEF Fits, Lines
    <3>2. CASE u = v
      BY <2>5, <2>8, <2>10, <3>1, <3>2
    <3>3. CASE u # v
      BY <2>5, <2>8, <2>9, <3>1, <3>3
    <3> QED BY <3>2, <3>3
  <2>12. ASSUME NEW u \in Variant PROVE Cardinality(Owing(u)') <= asked'[u]
    <3>1. CASE u = v
      BY <2>5, <2>8, <2>10, <3>1
    <3>2. CASE u # v
      BY <2>5, <2>8, <2>9, <3>2
    <3> QED BY <3>1, <3>2
  <2>13. StillFits /\ OwingNext
    BY <2>11, <2>12 DEF StillFits, FitsNext, OwingNext
  <2>14. carts' = carts /\ delayed' = delayed /\ r.phase # "writing"
    BY <1>2, <2>2, <2>3 DEF AskToAdd
  <2> QED BY <2>1, <2>3, <2>13, <2>14, EnoughKeeps
<1>3. ASSUME NEW q \in Req, Creates(q), NEW r \in Request \cup {None}, Set(q, r),
             \/ r = None \/ r.phase \notin {"reading", "creating"}
             \/ r.phase = reqs[q].phase /\ r.variant = reqs[q].variant,
             r = None \/ r.phase # "writing",
             asked' = asked, delayed' = delayed
      PROVE  Enough'
  <2> DEFINE u == reqs[q].variant
  <2>1. NewCart \in CartId /\ reqs[q] # None /\ reqs[q].phase = "creating" /\ u \in Variant
    BY <1>3, NewCartIsUnused, BusyTyped DEF Creates, ShapedOf
  <2>2. StillFits /\ OwingNext
    BY <1>3, <2>1, FitsStill
  <2>3. /\ carts'[NewCart].lines = [NoLines EXCEPT ![u] = 1]
        /\ \A i \in CartId \ {NewCart} : carts'[i] = carts[i]
    BY <1>3, <2>1 DEF Creates, CartTyped, CartTypeOK
  <2>4. q \in Owing(u) /\ q \notin Reading(u)
    BY <2>1 DEF Owing, Reading, In
  <2>5. Cardinality(Reading(u)) + 1 <= Cardinality(Owing(u))
    <3>1. /\ IsFiniteSet(Reading(u)) /\ IsFiniteSet(Owing(u)) /\ Cardinality(Reading(u)) \in Nat
          /\ Reading(u) \cup {q} \in SUBSET Owing(u)
      BY <2>4, CountsAreNat
    <3>2. Cardinality(Reading(u) \cup {q}) = Cardinality(Reading(u)) + 1
      BY <2>4, <3>1, FS_AddElement
    <3> QED BY <3>1, <3>2, FS_Subset
  <2>6. ASSUME NEW v \in Variant
        PROVE  [NoLines EXCEPT ![u] = 1][v] + Cardinality(Reading(v)') <= asked'[v]
    <3>1. /\ Cardinality(Reading(v)') \in Nat /\ Cardinality(Reading(v)) \in Nat
          /\ Cardinality(Reading(v)') <= Cardinality(Reading(v))
          /\ Cardinality(Owing(v)) \in Nat /\ Cardinality(Reading(v)) <= Cardinality(Owing(v))
      BY <1>3, <2>1, NoMoreOwing, CountsAreNat
    <3>2. Cardinality(Owing(v)) <= asked[v] /\ asked[v] \in Nat /\ asked'[v] = asked[v]
      BY <1>3, HistoriesTyped DEF Enough, Lines
    <3>3. [NoLines EXCEPT ![u] = 1][v] = IF v = u THEN 1 ELSE 0
      BY <2>1, OneLine
    <3>4. CASE v = u
      BY <2>5, <3>1, <3>2, <3>3, <3>4
    <3>5. CASE v # u
      BY <3>1, <3>2, <3>3, <3>5
    <3> QED BY <3>4, <3>5
  <2>7. FitsNext(carts'[NewCart].lines)
    BY <2>3, <2>6 DEF FitsNext
  <2>8. \A i \in CartId : carts'[i] # None =>
          \/ carts[i] # None /\ carts'[i].lines = carts[i].lines
          \/ FitsNext(carts'[i].lines)
    BY <2>3, <2>7
  <2> HIDE DEF u
  <2> QED BY <1>3, <2>2, <2>8, EnoughKeeps
<1>4. ASSUME NEW q \in Req, Read(q) PROVE Enough'
  <2> DEFINE i == reqs[q].cart
             r == [reqs[q] EXCEPT !.phase = "writing", !.read = carts[i].lines, !.tries = 0]
  <2>0. PICK u \in Variant : u = reqs[q].variant
    BY <1>4, BusyTyped DEF Read, ShapedOf
  <2>1. reqs[q] \in Request /\ i \in CartId /\ i \in linked
        /\ reqs[q] # None /\ reqs[q].phase = "reading" /\ Set(q, r)
        /\ asked' = asked /\ carts' = carts /\ delayed' = delayed
    BY <1>4, BusyTyped, NoneIsNoValue DEF Read, ShapedOf
  <2>2. carts[i] \in StoreCart /\ carts[i] # None
    BY <2>1 DEF CartTyped, CartTypeOK, Traced
  <2>3. carts[i].lines \in Lines /\ 0 \in 0..MaxRetries /\ Fits(carts[i].lines)
    BY <2>1, <2>2, CartAssumption DEF StoreCart, Enough
  <2>4. r \in Request /\ r.phase = "writing" /\ r.variant = u /\ r.read = carts[i].lines
    BY <2>0, <2>1, <2>3 DEF Request
  <2> HIDE DEF r
  <2>5. StillFits /\ OwingNext
    BY <2>1, <2>4, FitsStill
  <2>6. /\ reqs'[q] = r /\ \A p \in Req \ {q} : reqs'[p] = reqs[p]
    BY <2>1, <2>4, SetTyped
  <2>7. q \in Reading(u) /\ Reading(u)' = Reading(u) \ {q}
    BY <2>0, <2>1, <2>4, <2>6 DEF Reading, In
  <2>8. /\ Cardinality(Reading(u)') = Cardinality(Reading(u)) - 1
        /\ Cardinality(Reading(u)) \in Nat
    BY <2>7, CountsAreNat, FS_RemoveElement
  <2>9. ASSUME NEW v \in Variant PROVE mergeLine(r)[v] + Cardinality(Reading(v)') <= asked'[v]
    <3>1. /\ carts[i].lines[v] \in Nat /\ asked[v] \in Nat /\ asked'[v] = asked[v]
          /\ carts[i].lines[v] + Cardinality(Reading(v)) <= asked[v]
      BY <2>1, <2>3, HistoriesTyped DEF Fits, Lines
    <3>2. mergeLine(r)[v] = IF v = u THEN carts[i].lines[v] + 1 ELSE carts[i].lines[v]
      BY <2>1, <2>4, MergeTyped
    <3>3. CASE v = u
      BY <2>8, <3>1, <3>2, <3>3
    <3>4. CASE v # u
      <4>1. /\ Cardinality(Reading(v)') \in Nat /\ Cardinality(Reading(v)) \in Nat
            /\ Cardinality(Reading(v)') <= Cardinality(Reading(v))
        BY <2>1, <2>4, NoMoreOwing, CountsAreNat
      <4> QED BY <3>1, <3>2, <3>4, <4>1
    <3> QED BY <3>3, <3>4
  <2>10. FitsNext(mergeLine(r))
    BY <2>9 DEF FitsNext
  <2> QED BY <2>1, <2>4, <2>5, <2>10, EnoughKeeps
<1>5. ASSUME NEW q \in Req, Writing(q), carts' = carts \/ Write(q),
             NEW r \in Request \cup {None}, Set(q, r),
             \/ r = None \/ r.phase \notin {"reading", "creating", "writing"}
             \/ r \in {Again(reqs[q]), AddFailed(reqs[q])},
             asked' = asked,
             \A w \in delayed' : w \in delayed \/ w.lines = mergeLine(reqs[q])
      PROVE  Enough'
  <2>1. reqs[q] # None
    BY <1>5 DEF Writing
  <2>2. \/ r = None \/ r.phase \notin {"reading", "creating"}
        \/ reqs[q] # None /\ r.phase = reqs[q].phase /\ r.variant = reqs[q].variant
    BY <1>5, <1>q, <2>1
  <2>3. StillFits /\ OwingNext
    BY <1>5, <2>2, FitsStill
  <2>4. r # None /\ r.phase = "writing" =>
          Writing(q) /\ r.read = reqs[q].read /\ r.variant = reqs[q].variant
    BY <1>5, <1>q, <2>1
  <2>5. \A i \in CartId : carts'[i] # None =>
          \/ carts[i] # None /\ carts'[i].lines = carts[i].lines
          \/ carts'[i].lines = mergeLine(reqs[q])
    <3>1. CASE carts' = carts
      BY <3>1
    <3>2. CASE Write(q)
      BY <1>5, <3>2, WriteTyped, NoneIsNoValue, PutLinesTyped DEF Write
    <3> QED BY <1>5, <3>1, <3>2
  <2> QED BY <1>5, <2>3, <2>4, <2>5, EnoughKeeps
<1>6. ASSUME UNCHANGED <<reqs, asked>>,
             \A i \in CartId : carts'[i] # None =>
               (carts[i] # None /\ carts'[i].lines = carts[i].lines) \/ Fits(carts'[i].lines),
             delayed' \subseteq delayed
      PROVE  Enough'
  <2>1. /\ \A v : Reading(v)' = Reading(v) /\ Owing(v)' = Owing(v)
        /\ \A q \in Req : Writing(q)' <=> Writing(q)
    BY <1>6 DEF Reading, Owing, In, Writing
  <2>2. \A lines : FitsNext(lines) <=> Fits(lines)
    BY <1>6, <2>1 DEF FitsNext, Fits
  <2>3. \A i \in CartId : carts'[i] # None => FitsNext(carts'[i].lines)
    BY <1>6, <2>2 DEF Enough
  <2>4. \A q \in Req : Writing(q)' => FitsNext(mergeLine(reqs'[q]))
    BY <1>6, <2>1, <2>2 DEF Enough
  <2>5. \A w \in delayed' : FitsNext(w.lines)
    BY <1>6, <2>2 DEF Enough
  <2>6. OwingNext
    BY <1>6, <2>1 DEF OwingNext, Enough
  <2> QED BY <2>3, <2>4, <2>5, <2>6 DEF Enough, Fits, FitsNext, OwingNext, mergeLine
<1>7. ASSUME NEW q \in Req, NEW shop \in Shop, NEW kind \in {"chat", "card"}, BeginRequest(q, shop, kind)
      PROVE  Enough'
  <2>1. [phase |-> "ready", kind |-> kind, shop |-> shop, cart |-> Session(shop).cart,
         variant |-> None, read |-> NoLines, tries |-> 0] \in Request
    <3>1. Session(shop).cart \in CartId \cup {None}
      BY DEF CartTyped, CartTypeOK, Session, SessionRow
    <3> QED BY <3>1, CartAssumption DEF Request, NoLines, Lines
  <2> QED BY <1>1, <1>7, <2>1 DEF BeginRequest
<1>8. ASSUME NEW q \in Req, CreateAnswered(q) PROVE Enough'
  <2>1. NewCart \in CartId /\ reqs[q] \in Request
    BY <1>8, NewCartIsUnused, BusyTyped DEF CreateAnswered, Creates
  <2>2. Added(reqs[q], NewCart) \in Request /\ Added(reqs[q], NewCart).phase \in {"ready", "added"}
    BY <2>1, AddedTyped
  <2> QED BY <1>3, <1>8, <2>2 DEF CreateAnswered
<1>9. ASSUME NEW q \in Req, CreateLost(q) PROVE Enough'
  <2>1. /\ Creates(q) /\ reqs[q] # None /\ reqs[q].phase = "creating" /\ Set(q, Again(reqs[q]))
        /\ asked' = asked /\ delayed' = delayed
    BY <1>9 DEF CreateLost, Creates
  <2>2. ~Writing(q)
    BY <2>1 DEF Writing
  <2> QED BY <1>3, <1>q, <2>1, <2>2
<1>10. ASSUME NEW q \in Req, WriteAnswered(q) PROVE Enough'
  <2>1. /\ Added(reqs[q], reqs[q].cart) \in Request
        /\ Added(reqs[q], reqs[q].cart).phase \in {"ready", "added"}
    BY <1>10, WriteTyped, AddedTyped DEF WriteAnswered
  <2> QED BY <1>5, <1>10, <2>1 DEF WriteAnswered
<1>11. ASSUME NEW q \in Req, WriteLost(q) PROVE Enough'
  BY <1>5, <1>q, <1>11 DEF WriteLost, Writing
<1>12. ASSUME NEW q \in Req, WriteDelayed(q) PROVE Enough'
  BY <1>5, <1>q, <1>12 DEF WriteDelayed, Writing
<1>13. ASSUME NEW w \in delayed, Arrive(w) PROVE Enough'
  <2>1. w.cart \in CartId /\ w.lines \in Lines /\ carts[w.cart] # None /\ Fits(w.lines)
    BY DEF CartTyped, CartTypeOK, Traced, Enough
  <2>2. \A i \in CartId : carts'[i] # None =>
          (carts[i] # None /\ carts'[i].lines = carts[i].lines) \/ Fits(carts'[i].lines)
    BY <1>13, <2>1, PutLinesTyped DEF Arrive
  <2> QED BY <1>6, <1>13, <2>2 DEF Arrive
<1>14. ASSUME NEW q \in Req, CallFails(q) PROVE Enough'
  BY <1>1, <1>q, <1>14 DEF CallFails
<1>15. ASSUME NEW q \in Req, Finish(q) \/ Drop(q) PROVE Enough'
  BY <1>1, <1>15 DEF Finish, Drop
<1>16. CASE Expire \/ UNCHANGED cartVars
  BY <1>6, <1>16 DEF Expire, cartVars
<1> QED BY <1>2, <1>4, <1>7, <1>8, <1>9, <1>10, <1>11, <1>12, <1>13, <1>14, <1>15, <1>16 DEF CartNext

(* No cart ever holds more of a variant than was asked for: what the carts *)
(* hold, what is on its way to them and what has still to be read stay     *)
(* within the asks, through every retry, lost answer and late write.       *)
THEOREM CartHoldsWhatWasAsked == CartSpec => []NeverMoreThanAsked
<1>1. CartInit => CartTyped /\ Enough
  BY CartInitTyped, CartInitEnough
<1>2. CartTyped /\ Enough /\ [CartNext]_cartVars => (CartTyped /\ Enough)'
  BY CartStepTyped, CartStepEnough
<1>3. CartTyped /\ Enough => NeverMoreThanAsked
  <2> SUFFICES ASSUME CartTyped, Enough, NEW i \in CartId, NEW v \in Variant, carts[i] # None
               PROVE  carts[i].lines[v] <= asked[v]
    BY DEF NeverMoreThanAsked
  <2>1. carts[i].lines[v] \in Nat /\ asked[v] \in Nat
    BY DEF CartTyped, CartTypeOK, StoreCart, Lines
  <2>2. carts[i].lines[v] + Cardinality(Reading(v)) <= asked[v]
    BY DEF Enough, Fits
  <2> QED BY <2>1, <2>2, CountsAreNat
<1> QED BY <1>1, <1>2, <1>3, PTL DEF CartSpec

-----------------------------------------------------------------------------
(* Every sale is traceable.                                                *)

LEMMA CartStepTraceable ==
  CartTyped /\ SalesAreTraceable /\ [CartNext]_cartVars => SalesAreTraceable'
<1> SUFFICES ASSUME CartTyped, SalesAreTraceable, [CartNext]_cartVars,
                    NEW i \in CartId, NEW v \in Variant, kept'[i][v] > 0
             PROVE  i \in linked'
  BY DEF SalesAreTraceable
<1> USE DEF histories
<1>1. kept \in [CartId -> Lines]
  BY HistoriesTyped
<1>2. linked \subseteq linked'
  BY DEF CartNext, cartVars, BeginRequest, AskToAdd, CreateAnswered, CreateLost, Read, WriteAnswered,
         WriteLost, WriteDelayed, Arrive, CallFails, Finish, Drop, Expire
<1>3. CASE kept' = kept
  BY <1>2, <1>3 DEF SalesAreTraceable
<1>4. ASSUME NEW q \in Req, CreateAnswered(q) PROVE i \in linked'
  BY <1>1, <1>2, <1>4 DEF CreateAnswered, SalesAreTraceable
<1>5. ASSUME NEW q \in Req, WriteAnswered(q) PROVE i \in linked'
  <2>1. reqs[q].cart \in linked /\ kept' = [kept EXCEPT ![reqs[q].cart][reqs[q].variant] = @ + 1]
    BY <1>5, WriteTyped DEF WriteAnswered
  <2> QED BY <1>1, <1>2, <2>1 DEF SalesAreTraceable
<1> QED BY <1>3, <1>4, <1>5 DEF CartNext, cartVars, BeginRequest, AskToAdd, CreateLost, Read,
         WriteLost, WriteDelayed, Arrive, CallFails, Finish, Drop, Expire

(* The cart of an acknowledged line is linked to its session, whatever     *)
(* became of the request, of the row and of the answers since.             *)
THEOREM CartSalesAreTraceable == CartSpec => []SalesAreTraceable
<1>1. CartInit => CartTyped /\ SalesAreTraceable
  BY CartInitTyped DEF CartInit, SalesAreTraceable, NoLines
<1>2. CartTyped /\ SalesAreTraceable /\ [CartNext]_cartVars => (CartTyped /\ SalesAreTraceable)'
  BY CartStepTyped, CartStepTraceable
<1> QED BY <1>1, <1>2, PTL DEF CartSpec

-----------------------------------------------------------------------------
(* What was acknowledged is kept.                                          *)

(* What is in a cart whose acknowledged lines are those of the next state. *)
HoldsNext(lines, i) == \A v \in Variant : lines[v] >= kept'[i][v]

LEMMA KeptKeeps ==
  ASSUME CartTyped, Kept, NEW q \in Req, NEW r \in Request \cup {None}, Set(q, r),
         overlapped \subseteq overlapped', overtaken \subseteq overtaken',
         \A i \in CartId \ (overlapped' \cup overtaken') :
           carts'[i] # None => HoldsNext(carts'[i].lines, i),
         \A p \in Req \ {q} :
           Writing(p) /\ reqs[p].cart \notin overlapped' \cup overtaken' =>
             HoldsNext(reqs[p].read, reqs[p].cart),
         r # None /\ r.phase = "writing" =>
           /\ r.cart \notin overlapped' \cup overtaken' => HoldsNext(r.read, r.cart)
           /\ \A p \in Req \ {q} : Writing(p) /\ reqs[p].cart = r.cart => r.cart \in overlapped',
         \A w \in delayed' : w.cart \in overtaken'
  PROVE  Kept'
<1>1. /\ reqs'[q] = r /\ \A p \in Req \ {q} : reqs'[p] = reqs[p]
  BY SetTyped
<1>2. ASSUME NEW p \in Req, Writing(p)', reqs'[p].cart \notin overlapped' \cup overtaken'
      PROVE  HoldsNext(reqs'[p].read, reqs'[p].cart)
  BY <1>1, <1>2 DEF Writing
<1>3. ASSUME NEW p \in Req, NEW o \in Req, Writing(p)', Writing(o)', reqs'[p].cart = reqs'[o].cart, p # o
      PROVE  reqs'[p].cart \in overlapped'
  <2>1. CASE p = q
    BY <1>1, <1>3, <2>1 DEF Writing
  <2>2. CASE o = q
    BY <1>1, <1>3, <2>2 DEF Writing
  <2>3. CASE p # q /\ o # q
    <3>1. Writing(p) /\ Writing(o) /\ reqs[p].cart = reqs[o].cart /\ reqs'[p] = reqs[p]
      BY <1>1, <1>3, <2>3 DEF Writing
    <3> QED BY <1>3, <3>1 DEF Kept
  <2> QED BY <2>1, <2>2, <2>3
<1> QED BY <1>2, <1>3 DEF Kept, Holds, HoldsNext

LEMMA CartStepKept ==
  CartTyped /\ SalesAreTraceable /\ Kept /\ [CartNext]_cartVars => Kept'
<1> SUFFICES ASSUME CartTyped, SalesAreTraceable, Kept, [CartNext]_cartVars PROVE Kept'
  OBVIOUS
<1> USE DEF histories
<1> DEFINE Off == overlapped \cup overtaken
<1>k. /\ \A i \in CartId \ Off : carts[i] # None => Holds(carts[i].lines, i)
      /\ \A q \in Req : Writing(q) /\ reqs[q].cart \notin Off => Holds(reqs[q].read, reqs[q].cart)
      /\ \A p, q \in Req : Writing(p) /\ Writing(q) /\ reqs[p].cart = reqs[q].cart =>
           p = q \/ reqs[p].cart \in overlapped
      /\ \A w \in delayed : w.cart \in overtaken
  BY DEF Kept
<1>h. ASSUME kept' = kept PROVE \A lines, i : HoldsNext(lines, i) <=> Holds(lines, i)
  BY <1>h DEF Holds, HoldsNext
<1>q. ASSUME NEW q \in Req, reqs[q] # None
      PROVE  \A r \in {Again(reqs[q]), AddFailed(reqs[q])} :
               /\ r \in Request \cup {None}
               /\ r # None /\ r.phase = "writing" =>
                    Writing(q) /\ r.read = reqs[q].read /\ r.cart = reqs[q].cart
  BY <1>q, BusyTyped, AgainTyped, FailedTyped DEF Writing
(* A request that writes or stops writing, its carts as they were or lost. *)
<1>1. ASSUME NEW q \in Req, NEW r \in Request \cup {None}, Set(q, r),
             r # None /\ r.phase = "writing" =>
               Writing(q) /\ r.read = reqs[q].read /\ r.cart = reqs[q].cart,
             kept' = kept, overlapped' = overlapped, overtaken \subseteq overtaken',
             \A i \in CartId \ (overlapped' \cup overtaken') :
               carts'[i] # None => carts'[i] = carts[i] \/ HoldsNext(carts'[i].lines, i),
             \A w \in delayed' : w \in delayed \/ w.cart \in overtaken'
      PROVE  Kept'
  <2>1. \A i \in CartId \ (overlapped' \cup overtaken') :
          carts'[i] # None => HoldsNext(carts'[i].lines, i)
    BY <1>1, <1>h, <1>k
  <2>2. \A p \in Req :
          Writing(p) /\ reqs[p].cart \notin overlapped' \cup overtaken' =>
            HoldsNext(reqs[p].read, reqs[p].cart)
    BY <1>1, <1>h, <1>k
  <2>3. r # None /\ r.phase = "writing" =>
          /\ r.cart \notin overlapped' \cup overtaken' => HoldsNext(r.read, r.cart)
          /\ \A p \in Req \ {q} : Writing(p) /\ reqs[p].cart = r.cart => r.cart \in overlapped'
    BY <1>1, <1>k, <2>2
  <2>4. \A w \in delayed' : w.cart \in overtaken'
    BY <1>1, <1>k
  <2> QED BY <1>1, <2>1, <2>2, <2>3, <2>4, KeptKeeps
<1>2. ASSUME NEW q \in Req, NEW shop \in Shop, NEW kind \in {"chat", "card"}, BeginRequest(q, shop, kind)
      PROVE  Kept'
  <2>1. [phase |-> "ready", kind |-> kind, shop |-> shop, cart |-> Session(shop).cart,
         variant |-> None, read |-> NoLines, tries |-> 0] \in Request
    <3>1. Session(shop).cart \in CartId \cup {None}
      BY DEF CartTyped, CartTypeOK, Session, SessionRow
    <3> QED BY <3>1, CartAssumption DEF Request, NoLines, Lines
  <2> QED BY <1>1, <1>2, <2>1 DEF BeginRequest
<1>3. ASSUME NEW q \in Req, NEW v \in Variant, AskToAdd(q, v) PROVE Kept'
  <2> DEFINE phase == IF reqs[q].cart = None THEN "creating" ELSE "reading"
             r == [reqs[q] EXCEPT !.phase = phase, !.variant = v, !.tries = 0]
  <2>1. /\ reqs[q] \in Request /\ 0 \in 0..MaxRetries /\ Set(q, r)
        /\ UNCHANGED <<carts, delayed, kept, overlapped, overtaken>>
    BY <1>3, BusyTyped, CartAssumption DEF AskToAdd
  <2>2. phase \in {"creating", "reading"}
    OBVIOUS
  <2> HIDE DEF phase
  <2>3. r \in Request /\ r.phase # "writing"
    BY <2>1, <2>2 DEF Request
  <2> HIDE DEF r
  <2> QED BY <1>1, <2>1, <2>3
<1>4. ASSUME NEW q \in Req, Creates(q)
      PROVE  /\ NewCart \in CartId \ linked /\ reqs[q].variant \in Variant
             /\ carts'[NewCart].lines = [NoLines EXCEPT ![reqs[q].variant] = 1]
             /\ \A i \in CartId \ {NewCart} : carts'[i] = carts[i]
             /\ \A p \in Req : Writing(p) => reqs[p].cart # NewCart
  <2>1. NewCart \in CartId \ linked /\ reqs[q].variant \in Variant
    BY <1>4, NewCartIsUnused, BusyTyped DEF Creates, ShapedOf, CartTyped, Traced
  <2>2. /\ carts'[NewCart].lines = [NoLines EXCEPT ![reqs[q].variant] = 1]
        /\ \A i \in CartId \ {NewCart} : carts'[i] = carts[i]
    BY <1>4, <2>1 DEF Creates, CartTyped, CartTypeOK
  <2>3. \A p \in Req : Writing(p) => reqs[p].cart # NewCart
    BY <2>1, WriteTyped
  <2> QED BY <2>1, <2>2, <2>3
<1>5. ASSUME NEW q \in Req, CreateAnswered(q) PROVE Kept'
  <2> DEFINE r == Added(reqs[q], NewCart)
  <2>1. /\ Creates(q) /\ Set(q, r) /\ kept' = [kept EXCEPT ![NewCart] = [NoLines EXCEPT ![reqs[q].variant] = 1]]
        /\ UNCHANGED <<delayed, overlapped, overtaken>>
    BY <1>5 DEF CreateAnswered
  <2>2. r \in Request /\ r.phase # "writing"
    BY <1>4, <2>1, BusyTyped, AddedTyped DEF Creates
  <2> HIDE DEF r
  <2>3. /\ kept'[NewCart] = [NoLines EXCEPT ![reqs[q].variant] = 1]
        /\ \A i \in CartId \ {NewCart} : kept'[i] = kept[i]
    BY <1>4, <2>1, HistoriesTyped
  <2>4. \A i \in CartId \ {NewCart} : \A lines : HoldsNext(lines, i) <=> Holds(lines, i)
    BY <2>3 DEF Holds, HoldsNext
  <2>5. HoldsNext(carts'[NewCart].lines, NewCart)
    <3>1. PICK u \in Variant : u = reqs[q].variant
      BY <1>4, <2>1
    <3>2. \A v \in Variant : [NoLines EXCEPT ![u] = 1][v] \in {0, 1}
      BY OneLine
    <3>3. carts'[NewCart].lines = [NoLines EXCEPT ![u] = 1] /\ kept'[NewCart] = [NoLines EXCEPT ![u] = 1]
      BY <1>4, <2>1, <2>3, <3>1
    <3>4. \A v \in Variant : carts'[NewCart].lines[v] >= kept'[NewCart][v]
      BY <3>2, <3>3
    <3> QED BY <3>4 DEF HoldsNext
  <2>6. \A i \in CartId \ (overlapped' \cup overtaken') :
          carts'[i] # None => HoldsNext(carts'[i].lines, i)
    BY <1>4, <1>k, <2>1, <2>4, <2>5
  <2>7. \A p \in Req :
          Writing(p) /\ reqs[p].cart \notin overlapped' \cup overtaken' =>
            HoldsNext(reqs[p].read, reqs[p].cart)
    BY <1>4, <1>k, <2>1, <2>4, WriteTyped
  <2> QED BY <1>k, <2>1, <2>2, <2>6, <2>7, KeptKeeps
<1>6. ASSUME NEW q \in Req, CreateLost(q) PROVE Kept'
  <2>1. /\ Creates(q) /\ Set(q, Again(reqs[q])) /\ reqs[q] # None
        /\ UNCHANGED <<delayed, kept, overlapped, overtaken>>
    BY <1>6 DEF CreateLost, Creates
  <2>2. ASSUME NEW v \in Variant PROVE carts'[NewCart].lines[v] >= kept'[NewCart][v]
    <3>1. kept[NewCart][v] \in Nat /\ ~(kept[NewCart][v] > 0)
      BY <1>4, <2>1, HistoriesTyped DEF SalesAreTraceable, Lines
    <3>2. carts'[NewCart].lines[v] \in {0, 1}
      <4>1. PICK u \in Variant : u = reqs[q].variant
        BY <1>4, <2>1
      <4>2. [NoLines EXCEPT ![u] = 1][v] \in {0, 1}
        BY OneLine
      <4> QED BY <1>4, <2>1, <4>1, <4>2
    <3> QED BY <2>1, <3>1, <3>2
  <2>3. HoldsNext(carts'[NewCart].lines, NewCart)
    BY <2>2 DEF HoldsNext
  <2>4. \A i \in CartId : carts'[i] # None => carts'[i] = carts[i] \/ HoldsNext(carts'[i].lines, i)
    BY <1>4, <2>1, <2>3
  <2> QED BY <1>1, <1>q, <2>1, <2>4
<1>7. ASSUME NEW q \in Req, Read(q) PROVE Kept'
  <2> DEFINE r == [reqs[q] EXCEPT !.phase = "writing", !.read = carts[reqs[q].cart].lines, !.tries = 0]
  <2>1. PICK i \in CartId : i = reqs[q].cart
    BY <1>7, BusyTyped DEF Read, ShapedOf
  <2>2. /\ Set(q, r) /\ UNCHANGED <<carts, delayed, kept, overtaken>>
        /\ overlapped' = IF \E p \in Req \ {q} : Adding(p, i) THEN overlapped \cup {i} ELSE overlapped
    BY <1>7, <2>1 DEF Read
  <2>3. reqs[q] \in Request /\ carts[i] \in StoreCart /\ carts[i] # None /\ 0 \in 0..MaxRetries
    BY <1>7, <2>1, BusyTyped, NoneIsNoValue, CartAssumption DEF Read, CartTyped, CartTypeOK, Traced
  <2>4. r \in Request /\ r.read = carts[i].lines /\ r.cart = i
    BY <2>1, <2>3 DEF Request, StoreCart
  <2> HIDE DEF r
  <2>5. overlapped \subseteq overlapped' /\ overtaken \subseteq overtaken'
    BY <2>2
  <2>6. \A p \in Req \ {q} : Writing(p) /\ reqs[p].cart = i => i \in overlapped'
    BY <2>2 DEF Adding, Writing
  <2>7. \A j \in CartId \ (overlapped' \cup overtaken') :
          carts'[j] # None => HoldsNext(carts'[j].lines, j)
    BY <1>h, <1>k, <2>2, <2>5
  <2>8. \A p \in Req :
          Writing(p) /\ reqs[p].cart \notin overlapped' \cup overtaken' =>
            HoldsNext(reqs[p].read, reqs[p].cart)
    BY <1>h, <1>k, <2>2, <2>5
  <2>9. i \notin overlapped' \cup overtaken' => HoldsNext(r.read, i)
    BY <2>2, <2>3, <2>4, <2>7
  <2>10. \A w \in delayed' : w.cart \in overtaken'
    BY <1>k, <2>2
  <2> QED BY <2>2, <2>4, <2>5, <2>6, <2>7, <2>8, <2>9, <2>10, KeptKeeps
<1>8. ASSUME NEW q \in Req, Writing(q), Write(q)
      PROVE  /\ reqs[q].cart \in CartId /\ carts'[reqs[q].cart].lines = mergeLine(reqs[q])
             /\ \A i \in CartId \ {reqs[q].cart} : carts'[i] = carts[i]
             /\ reqs[q] \in Request /\ reqs[q].variant \in Variant
  BY <1>8, WriteTyped, NoneIsNoValue, PutLinesTyped DEF Write
<1>9. ASSUME NEW q \in Req, WriteAnswered(q) PROVE Kept'
  <2> DEFINE r == Added(reqs[q], reqs[q].cart)
  <2>1. PICK i \in CartId : i = reqs[q].cart
    BY <1>8, <1>9 DEF WriteAnswered
  <2>2. /\ Writing(q) /\ Write(q) /\ Set(q, r)
        /\ kept' = [kept EXCEPT ![i][reqs[q].variant] = @ + 1]
        /\ UNCHANGED <<delayed, overlapped, overtaken>>
    BY <1>9, <2>1 DEF WriteAnswered
  <2>3. r \in Request /\ r.phase # "writing" /\ reqs[q] \in Request /\ reqs[q].variant \in Variant
    BY <1>8, <2>2, AddedTyped
  <2> HIDE DEF r
  <2>4. kept \in [CartId -> Lines]
    BY HistoriesTyped
  <2>5. /\ kept'[i] = [kept[i] EXCEPT ![reqs[q].variant] = @ + 1]
        /\ \A j \in CartId \ {i} : kept'[j] = kept[j]
    BY <2>2, <2>4
  <2>6. \A j \in CartId \ {i} : \A lines : HoldsNext(lines, j) <=> Holds(lines, j)
    BY <2>5 DEF Holds, HoldsNext
  <2>7. ASSUME i \notin Off, NEW v \in Variant PROVE mergeLine(reqs[q])[v] >= kept'[i][v]
    <3>1. reqs[q].read[v] >= kept[i][v] /\ reqs[q].read[v] \in Nat /\ kept[i][v] \in Nat
      BY <1>k, <2>1, <2>2, <2>3, <2>4, <2>7 DEF Holds, Request, Lines
    <3>2. mergeLine(reqs[q])[v] = IF v = reqs[q].variant THEN reqs[q].read[v] + 1 ELSE reqs[q].read[v]
      BY <2>3, MergeTyped
    <3>3. kept'[i][v] = IF v = reqs[q].variant THEN kept[i][v] + 1 ELSE kept[i][v]
      BY <2>3, <2>4, <2>5 DEF Lines
    <3> QED BY <3>1, <3>2, <3>3
  <2>8. i \notin Off => HoldsNext(carts'[i].lines, i)
    BY <1>8, <2>1, <2>2, <2>7 DEF HoldsNext
  <2>9. \A j \in CartId \ (overlapped' \cup overtaken') :
          carts'[j] # None => HoldsNext(carts'[j].lines, j)
    BY <1>8, <1>k, <2>1, <2>2, <2>6, <2>8
  <2>10. \A p \in Req \ {q} :
          Writing(p) /\ reqs[p].cart \notin overlapped' \cup overtaken' =>
            HoldsNext(reqs[p].read, reqs[p].cart)
    BY <1>k, <2>1, <2>2, <2>6, WriteTyped
  <2> QED BY <1>k, <2>2, <2>3, <2>9, <2>10, KeptKeeps
<1>10. ASSUME NEW q \in Req, WriteLost(q) PROVE Kept'
  <2>1. /\ Writing(q) /\ Write(q) /\ Set(q, Again(reqs[q])) /\ reqs[q] # None
        /\ UNCHANGED <<delayed, kept, overlapped, overtaken>>
    BY <1>10 DEF WriteLost, Writing
  <2>2. PICK i \in CartId : i = reqs[q].cart
    BY <1>8, <2>1
  <2>3. ASSUME i \notin Off, NEW v \in Variant PROVE mergeLine(reqs[q])[v] >= kept'[i][v]
    <3>1. reqs[q].read[v] >= kept[i][v] /\ reqs[q].read[v] \in Nat /\ kept[i][v] \in Nat
      BY <1>8, <1>k, <2>1, <2>2, <2>3, HistoriesTyped DEF Holds, Request, Lines
    <3>2. mergeLine(reqs[q])[v] = IF v = reqs[q].variant THEN reqs[q].read[v] + 1 ELSE reqs[q].read[v]
      BY <1>8, <2>1, MergeTyped
    <3> QED BY <2>1, <3>1, <3>2
  <2>4. i \notin Off => HoldsNext(carts'[i].lines, i)
    BY <1>8, <2>1, <2>2, <2>3 DEF HoldsNext
  <2>5. \A j \in CartId \ (overlapped' \cup overtaken') :
          carts'[j] # None => carts'[j] = carts[j] \/ HoldsNext(carts'[j].lines, j)
    BY <1>8, <2>1, <2>2, <2>4
  <2> QED BY <1>1, <1>q, <2>1, <2>5
<1>11. ASSUME NEW q \in Req, WriteDelayed(q) PROVE Kept'
  BY <1>1, <1>q, <1>11 DEF WriteDelayed, Writing
<1>12. ASSUME NEW w \in delayed, Arrive(w) PROVE Kept'
  <2>1. w.cart \in CartId /\ w.lines \in Lines /\ carts[w.cart] # None /\ w.cart \in overtaken
    BY <1>k DEF CartTyped, CartTypeOK, Traced
  <2>2. \A i \in CartId \ {w.cart} : carts'[i] = carts[i]
    BY <1>12, <2>1, PutLinesTyped DEF Arrive
  <2>3. UNCHANGED <<reqs, kept, overlapped, overtaken>> /\ delayed' \subseteq delayed
    BY <1>12 DEF Arrive
  <2> QED BY <2>1, <2>2, <2>3 DEF Kept, Holds, Writing
<1>13. ASSUME NEW q \in Req, CallFails(q) PROVE Kept'
  BY <1>1, <1>q, <1>13 DEF CallFails
<1>14. ASSUME NEW q \in Req, Finish(q) \/ Drop(q) PROVE Kept'
  BY <1>1, <1>14 DEF Finish, Drop
<1>15. CASE Expire \/ UNCHANGED cartVars
  BY <1>15 DEF Expire, cartVars, Kept, Holds, Writing
<1> QED BY <1>2, <1>3, <1>5, <1>6, <1>7, <1>9, <1>10, <1>11, <1>12, <1>13, <1>14, <1>15 DEF CartNext

(* An acknowledged line stays in its cart, as long as no two requests      *)
(* added to it at once and no write to it was overtaken: the lines a       *)
(* request has read are still those of the cart when it writes.            *)
THEOREM CartKeepsItsAdds == CartSpec => []AddsAreKept
<1>1. CartInit => CartTyped /\ SalesAreTraceable /\ Kept
  BY CartInitTyped DEF CartInit, SalesAreTraceable, NoLines, Kept, Writing
<1>2. CartTyped /\ SalesAreTraceable /\ Kept /\ [CartNext]_cartVars
        => (CartTyped /\ SalesAreTraceable /\ Kept)'
  BY CartStepTyped, CartStepTraceable, CartStepKept
<1>3. Kept => AddsAreKept
  BY DEF Kept, Holds, AddsAreKept
<1> QED BY <1>1, <1>2, <1>3, PTL DEF CartSpec

-----------------------------------------------------------------------------
(* The voice object.                                                       *)
VoiceFields ==
  {"on", "presses", "stream", "mics", "capture", "recognition", "leaked", "ticks", "queue",
   "busy", "playing", "sounding", "tasks", "raced", "garbled", "hurried", "cancelled"}

Recordings(v) == Tasks(v, {"press", "start", "onstop", "upload"})
Speech(v) == Tasks(v, {"open", "fetch", "begin", "paused"})
VoiceTask == [kind : TaskKind, n : Nat, stale : BOOLEAN]

Form(v) ==
  /\ DOMAIN v = VoiceFields
  /\ v.on \in BOOLEAN /\ v.busy \in BOOLEAN /\ v.recognition \in BOOLEAN
  /\ v.leaked \in BOOLEAN /\ v.raced \in BOOLEAN /\ v.garbled \in BOOLEAN
  /\ v.hurried \in BOOLEAN
  /\ v.presses \in Nat /\ v.ticks \in Int /\ v.queue \in Seq(Nat)
  /\ v.capture \in [kind : {"none", "pcm", "recorder"}, press : Nat]
  /\ v.capture.kind = "none" => v.capture = NoCapture
  /\ v.tasks \subseteq VoiceTask
  /\ \A t \in Recordings(v) : ~t.stale
  /\ \A t \in Tasks(v, {"paused"}) : t.stale

(* What of the playback is on its way and has not been stopped.            *)
Live(v) == {t \in Loading(v) : ~t.stale}

SameRecording(v, w) ==
  /\ w.on = v.on /\ w.presses = v.presses /\ w.stream = v.stream /\ w.mics = v.mics
  /\ w.capture = v.capture /\ w.recognition = v.recognition /\ w.leaked = v.leaked
  /\ w.ticks = v.ticks /\ w.hurried = v.hurried /\ w.cancelled = v.cancelled
  /\ Recordings(w) = Recordings(v)

SamePlayback(v, w) ==
  /\ w.queue = v.queue /\ w.busy = v.busy /\ w.playing = v.playing
  /\ w.sounding = v.sounding /\ w.raced = v.raced /\ w.garbled = v.garbled
  /\ Speech(w) = Speech(v)

(* stopPlayback().                                                         *)
Hushed(v, w) ==
  /\ w.queue = <<>> /\ w.busy = FALSE /\ w.playing = 0
  /\ w.sounding = v.sounding \ {v.playing}
  /\ w.raced = v.raced /\ w.garbled = v.garbled /\ Live(w) = {}
  /\ \A t \in Tasks(w, {"begin"}) : \E u \in Tasks(v, {"begin"}) : u.n = t.n /\ u.n # v.playing

(* stopVoice(), but for the playback.                                      *)
Released(v, w) ==
  /\ w.on = FALSE /\ w.stream = 0 /\ w.mics = v.mics \ {v.stream} /\ w.ticks = 0
  /\ w.recognition = FALSE /\ w.capture = NoCapture
  /\ w.presses = v.presses /\ w.leaked = v.leaked
  /\ w.hurried = (v.hurried \/ Tasks(v, {"start"}) # {})
  /\ w.cancelled = IF v.capture.kind = "none" THEN v.cancelled
                   ELSE v.cancelled \cup {v.capture.press}
  /\ Recordings(w) = Recordings(v)

LEMMA StopPlayback ==
  ASSUME NEW v, Form(v)
  PROVE  /\ Form(stopPlayback(v)) /\ Hushed(v, stopPlayback(v))
         /\ SameRecording(v, stopPlayback(v))
<1> DEFINE w == stopPlayback(v)
           Now(t) == IF t \notin Loading(v) THEN t
                     ELSE IF t.kind = "begin" /\ t.n = v.playing
                     THEN [t EXCEPT !.kind = "paused", !.stale = TRUE]
                     ELSE [t EXCEPT !.stale = TRUE]
<1>1. /\ DOMAIN w = VoiceFields /\ w.tasks = {Now(t) : t \in v.tasks}
      /\ w.queue = <<>> /\ w.playing = 0 /\ w.sounding = v.sounding \ {v.playing}
      /\ w.presses = v.presses /\ w.stream = v.stream /\ w.mics = v.mics
      /\ w.capture = v.capture /\ w.ticks = v.ticks /\ w.cancelled = v.cancelled
  BY DEF stopPlayback, Form, VoiceFields
<1>2. /\ w.busy = FALSE /\ w.raced = v.raced /\ w.garbled = v.garbled /\ w.on = v.on
      /\ w.recognition = v.recognition /\ w.leaked = v.leaked /\ w.hurried = v.hurried
  BY DEF stopPlayback, Form, VoiceFields
<1> HIDE DEF w
<1>3. ASSUME NEW t \in v.tasks
      PROVE  /\ Now(t) \in VoiceTask
             /\ t \notin Loading(v) => Now(t) = t
             /\ t \in Loading(v) =>
                  /\ Now(t).stale /\ Now(t).n = t.n
                  /\ Now(t).kind = IF t.kind = "begin" /\ t.n = v.playing THEN "paused" ELSE t.kind
  <2>1. t \in VoiceTask
    BY DEF Form
  <2> QED BY <2>1 DEF VoiceTask, TaskKind
<1> HIDE DEF Now
<1>4. Recordings(w) = Recordings(v)
  BY <1>1, <1>3 DEF Recordings, Tasks, Loading
<1>5. \A t \in Tasks(w, {"paused"}) : t.stale
  BY <1>1, <1>3 DEF Tasks, Loading, Form
<1>6. Live(w) = {}
  BY <1>1, <1>3 DEF Tasks, Loading, Live
<1>7. \A t \in Tasks(w, {"begin"}) : \E u \in Tasks(v, {"begin"}) : u.n = t.n /\ u.n # v.playing
  BY <1>1, <1>3 DEF Tasks, Loading
<1>8. w.tasks \subseteq VoiceTask
  BY <1>1, <1>3
<1>9. Form(w)
  <2>1. w.on \in BOOLEAN /\ w.busy \in BOOLEAN /\ w.recognition \in BOOLEAN
        /\ w.leaked \in BOOLEAN /\ w.raced \in BOOLEAN /\ w.garbled \in BOOLEAN
        /\ w.hurried \in BOOLEAN
    BY <1>2, Zenon DEF Form
  <2>2. /\ w.presses \in Nat /\ w.ticks \in Int /\ w.queue \in Seq(Nat)
        /\ w.capture \in [kind : {"none", "pcm", "recorder"}, press : Nat]
        /\ w.capture.kind = "none" => w.capture = NoCapture
    BY <1>1 DEF Form
  <2>3. \A t \in Recordings(w) : ~t.stale
    BY <1>4 DEF Form
  <2> QED BY <1>1, <1>5, <1>8, <2>1, <2>2, <2>3, Zenon DEF Form
<1>10. Hushed(v, w) /\ SameRecording(v, w)
  BY <1>1, <1>2, <1>4, <1>6, <1>7 DEF Hushed, SameRecording
<1> QED BY <1>9, <1>10 DEF w

LEMMA Discarded ==
  ASSUME NEW v, Form(v)
  PROVE  LET w == Discard(stopRecognition(v))
         IN  /\ Form(w) /\ w.tasks = v.tasks /\ SamePlayback(v, w)
             /\ w.on = v.on /\ w.presses = v.presses /\ w.stream = v.stream /\ w.mics = v.mics
             /\ w.leaked = v.leaked /\ w.ticks = v.ticks /\ w.hurried = v.hurried
             /\ w.recognition = FALSE /\ w.capture = NoCapture
             /\ w.cancelled = IF v.capture.kind = "none" THEN v.cancelled
                              ELSE v.cancelled \cup {v.capture.press}
<1> DEFINE r == stopRecognition(v)
           w == Discard(r)
           Rest(x) == /\ DOMAIN x = VoiceFields /\ x.tasks = v.tasks /\ x.queue = v.queue
                      /\ x.playing = v.playing /\ x.sounding = v.sounding
                      /\ x.presses = v.presses /\ x.stream = v.stream /\ x.mics = v.mics
                      /\ x.ticks = v.ticks
           Flags(x) == /\ x.busy = v.busy /\ x.raced = v.raced /\ x.garbled = v.garbled
                       /\ x.on = v.on /\ x.leaked = v.leaked /\ x.hurried = v.hurried
                       /\ x.recognition = FALSE
<1>1. Rest(r) /\ r.capture = v.capture /\ r.cancelled = v.cancelled
  BY DEF stopRecognition, Form, VoiceFields
<1>2. Flags(r)
  BY DEF stopRecognition, Form, VoiceFields
<1> HIDE DEF r
<1>3. /\ Rest(w) /\ Flags(w) /\ w.capture = NoCapture
      /\ w.cancelled = IF v.capture.kind = "none" THEN v.cancelled
                       ELSE v.cancelled \cup {v.capture.press}
  <2>1. CASE v.capture.kind = "none"
    <3>1. w = r
      BY <1>1, <2>1 DEF Discard
    <3>2. v.capture = NoCapture
      BY <2>1 DEF Form
    <3> QED BY <1>1, <1>2, <2>1, <3>1, <3>2
  <2>2. CASE v.capture.kind # "none"
    <3>1. w = [r EXCEPT !.capture = NoCapture, !.cancelled = @ \cup {r.capture.press}]
      BY <1>1, <2>2 DEF Discard
    <3> HIDE DEF w
    <3>2. /\ Rest(w) /\ w.capture = NoCapture
          /\ w.cancelled = v.cancelled \cup {v.capture.press}
      BY <1>1, <3>1 DEF VoiceFields
    <3>3. Flags(w)
      BY <1>1, <1>2, <3>1 DEF VoiceFields
    <3> QED BY <2>2, <3>2, <3>3
  <2> QED BY <2>1, <2>2
<1> HIDE DEF w
<1>4. Form(w)
  <2>1. w.on \in BOOLEAN /\ w.busy \in BOOLEAN /\ w.recognition \in BOOLEAN
        /\ w.leaked \in BOOLEAN /\ w.raced \in BOOLEAN /\ w.garbled \in BOOLEAN
        /\ w.hurried \in BOOLEAN
    BY <1>3, Zenon DEF Form
  <2>2. /\ w.presses \in Nat /\ w.ticks \in Int /\ w.queue \in Seq(Nat)
        /\ w.capture \in [kind : {"none", "pcm", "recorder"}, press : Nat]
        /\ w.capture.kind = "none" => w.capture = NoCapture
        /\ w.tasks \subseteq VoiceTask
    BY <1>3 DEF Form, NoCapture
  <2>3. (\A t \in Recordings(w) : ~t.stale) /\ \A t \in Tasks(w, {"paused"}) : t.stale
    BY <1>3 DEF Form, Recordings, Tasks
  <2> QED BY <1>3, <2>1, <2>2, <2>3, Zenon DEF Form
<1>5. SamePlayback(v, w)
  BY <1>3 DEF SamePlayback, Speech, Tasks
<1> QED BY <1>3, <1>4, <1>5, Zenon DEF w, r

LEMMA StopVoice ==
  ASSUME NEW v, Form(v)
  PROVE  /\ Form(stopVoice(v)) /\ Hushed(v, stopVoice(v)) /\ Released(v, stopVoice(v))
<1> DEFINE d == Discard(stopRecognition(v))
           q == stopPlayback(d)
           w == stopVoice(v)
<1>1. /\ Form(d) /\ d.tasks = v.tasks /\ SamePlayback(v, d)
      /\ d.on = v.on /\ d.presses = v.presses /\ d.stream = v.stream /\ d.mics = v.mics
      /\ d.leaked = v.leaked /\ d.ticks = v.ticks /\ d.hurried = v.hurried
      /\ d.recognition = FALSE /\ d.capture = NoCapture
      /\ d.cancelled = IF v.capture.kind = "none" THEN v.cancelled
                       ELSE v.cancelled \cup {v.capture.press}
  BY Discarded
<1> HIDE DEF d
<1>2. Form(q) /\ Hushed(d, q) /\ SameRecording(d, q)
  BY <1>1, StopPlayback
<1> HIDE DEF q
<1> DEFINE rushed == v.hurried \/ Tasks(v, {"start"}) # {}
<1>3. rushed \in BOOLEAN
  BY DEF Form
<1>4. w = [q EXCEPT !.on = FALSE, !.stream = 0, !.mics = @ \ {v.stream}, !.ticks = 0,
                    !.hurried = q.hurried \/ Tasks(v, {"start"}) # {}]
  BY DEF stopVoice, q, d
<1>5. w = [q EXCEPT !.on = FALSE, !.stream = 0, !.mics = @ \ {v.stream}, !.ticks = 0,
                    !.hurried = rushed]
  BY <1>1, <1>2, <1>4, Zenon DEF SameRecording
<1> HIDE DEF rushed
<1> HIDE DEF w
<1>6. /\ DOMAIN w = VoiceFields /\ w.tasks = q.tasks /\ w.queue = <<>> /\ w.playing = 0
      /\ w.sounding = v.sounding \ {v.playing} /\ w.presses = v.presses /\ w.stream = 0
      /\ w.mics = v.mics \ {v.stream} /\ w.ticks = 0 /\ w.capture = NoCapture
      /\ w.cancelled = IF v.capture.kind = "none" THEN v.cancelled
                       ELSE v.cancelled \cup {v.capture.press}
  BY <1>1, <1>2, <1>5 DEF VoiceFields, Form, Hushed, SameRecording, SamePlayback
<1>7. /\ w.busy = q.busy /\ w.raced = q.raced /\ w.garbled = q.garbled /\ w.on = FALSE
      /\ w.leaked = q.leaked /\ w.hurried = rushed /\ w.recognition = q.recognition
  BY <1>2, <1>5 DEF VoiceFields, Form
<1>8. /\ w.busy = FALSE /\ w.raced = v.raced /\ w.garbled = v.garbled /\ w.leaked = v.leaked
      /\ w.recognition = FALSE
  BY <1>1, <1>2, <1>7, Zenon DEF Hushed, SameRecording, SamePlayback
<1>9. Recordings(w) = Recordings(v)
  BY <1>1, <1>2, <1>6 DEF SameRecording, Recordings, Tasks
<1>10. Form(w)
  <2>1. w.on \in BOOLEAN /\ w.busy \in BOOLEAN /\ w.recognition \in BOOLEAN
        /\ w.leaked \in BOOLEAN /\ w.raced \in BOOLEAN /\ w.garbled \in BOOLEAN
        /\ w.hurried \in BOOLEAN
    BY <1>3, <1>7, <1>8, Zenon DEF Form
  <2>2. /\ w.presses \in Nat /\ w.ticks \in Int /\ w.queue \in Seq(Nat)
        /\ w.capture \in [kind : {"none", "pcm", "recorder"}, press : Nat]
        /\ w.capture.kind = "none" => w.capture = NoCapture
        /\ w.tasks \subseteq VoiceTask
    BY <1>2, <1>6 DEF Form, NoCapture
  <2>3. (\A t \in Recordings(w) : ~t.stale) /\ \A t \in Tasks(w, {"paused"}) : t.stale
    BY <1>2, <1>6 DEF Form, Recordings, Tasks
  <2> QED BY <1>6, <2>1, <2>2, <2>3, Zenon DEF Form
<1>11. Hushed(v, w)
  <2>1. Live(w) = {}
    BY <1>2, <1>6 DEF Hushed, Live, Loading, Tasks
  <2>2. \A t \in Tasks(w, {"begin"}) : \E u \in Tasks(v, {"begin"}) : u.n = t.n /\ u.n # v.playing
    BY <1>1, <1>2, <1>6 DEF Hushed, SamePlayback, Tasks
  <2> QED BY <1>6, <1>8, <2>1, <2>2 DEF Hushed
<1>12. w.hurried = (v.hurried \/ Tasks(v, {"start"}) # {})
  BY <1>7 DEF rushed
<1>13. Released(v, w)
  BY <1>6, <1>7, <1>8, <1>9, <1>12, Zenon DEF Released
<1> QED BY <1>10, <1>11, <1>13 DEF w

(* endVoiceTurn() of a page whose chain is empty.                          *)
Over(v, w) == Hushed(v, w) /\ Released(v, w)

LEMMA EndVoiceTurn ==
  ASSUME NEW v, Form(v)
  PROVE  /\ Form(endVoiceTurn(v))
         /\ v.on => Over(v, endVoiceTurn(v))
         /\ ~v.on => endVoiceTurn(v) = v
BY StopVoice DEF endVoiceTurn, Over

(* playNext(): the turn ends, or the next sentence is opened.              *)
Rested(v, w) ==
  /\ w.queue = <<>> /\ w.busy = FALSE /\ w.playing = 0 /\ w.sounding \subseteq v.sounding
  /\ w.raced = v.raced /\ w.garbled = v.garbled /\ Live(w) \subseteq Live(v)
  /\ \A t \in Tasks(w, {"begin"}) : \E u \in Tasks(v, {"begin"}) : u.n = t.n
  /\ w.on = FALSE
  /\ IF v.on THEN Released(v, w) ELSE SameRecording(v, w)

Waiting(kind, n) == [kind |-> kind, n |-> n, stale |-> FALSE]

Opening(v, w) ==
  /\ w.queue = Tail(v.queue) /\ w.busy = TRUE /\ w.playing = v.playing
  /\ w.sounding = v.sounding /\ w.raced = v.raced /\ w.garbled = v.garbled
  /\ w.tasks = v.tasks \cup {Waiting("open", Head(v.queue))}
  /\ SameRecording(v, w)

LEMMA PlayNext ==
  ASSUME NEW v, Form(v)
  PROVE  /\ Form(playNext(v))
         /\ v.queue = <<>> => Rested(v, playNext(v))
         /\ v.queue # <<>> => Opening(v, playNext(v))
<1>1. CASE v.queue = <<>>
  <2> DEFINE u == [v EXCEPT !.playing = 0, !.busy = FALSE]
             w == playNext(v)
  <2>1. w = endVoiceTurn(u)
    BY <1>1 DEF playNext
  <2>2. /\ DOMAIN u = VoiceFields /\ u.tasks = v.tasks /\ u.queue = <<>> /\ u.playing = 0
        /\ u.sounding = v.sounding /\ u.presses = v.presses /\ u.stream = v.stream
        /\ u.mics = v.mics /\ u.ticks = v.ticks /\ u.capture = v.capture
        /\ u.cancelled = v.cancelled
    BY <1>1 DEF Form, VoiceFields
  <2>3. /\ u.busy = FALSE /\ u.raced = v.raced /\ u.garbled = v.garbled /\ u.on = v.on
        /\ u.recognition = v.recognition /\ u.leaked = v.leaked /\ u.hurried = v.hurried
    BY DEF Form, VoiceFields
  <2> HIDE DEF u
  <2>4. Form(u)
    <3>1. u.on \in BOOLEAN /\ u.busy \in BOOLEAN /\ u.recognition \in BOOLEAN
          /\ u.leaked \in BOOLEAN /\ u.raced \in BOOLEAN /\ u.garbled \in BOOLEAN
          /\ u.hurried \in BOOLEAN
      BY <2>3, Zenon DEF Form
    <3>2. /\ u.presses \in Nat /\ u.ticks \in Int /\ u.queue \in Seq(Nat)
          /\ u.capture \in [kind : {"none", "pcm", "recorder"}, press : Nat]
          /\ u.capture.kind = "none" => u.capture = NoCapture
          /\ u.tasks \subseteq VoiceTask
      BY <2>2 DEF Form
    <3>3. (\A t \in Recordings(u) : ~t.stale) /\ \A t \in Tasks(u, {"paused"}) : t.stale
      BY <2>2 DEF Form, Recordings, Tasks
    <3> QED BY <2>2, <3>1, <3>2, <3>3, Zenon DEF Form
  <2>5. SameRecording(v, u) /\ Live(u) = Live(v) /\ Tasks(u, {"begin"}) = Tasks(v, {"begin"})
        /\ Tasks(u, {"start"}) = Tasks(v, {"start"})
    BY <2>2, <2>3 DEF SameRecording, Recordings, Live, Loading, Tasks
  <2>6. CASE v.on
    <3>1. Form(w) /\ Over(u, w)
      BY <2>1, <2>3, <2>4, <2>6, EndVoiceTurn
    <3> HIDE DEF w
    <3>2. Released(v, w)
      BY <2>5, <3>1 DEF Over, Released, SameRecording
    <3>3. /\ w.queue = <<>> /\ w.playing = 0 /\ w.sounding \subseteq v.sounding
          /\ Live(w) \subseteq Live(v)
          /\ \A t \in Tasks(w, {"begin"}) : \E x \in Tasks(v, {"begin"}) : x.n = t.n
      BY <2>2, <2>5, <3>1 DEF Over, Hushed
    <3>4. w.busy = FALSE /\ w.raced = v.raced /\ w.garbled = v.garbled /\ w.on = FALSE
      BY <2>3, <3>1, <3>2, Zenon DEF Over, Hushed, Released
    <3>5. Rested(v, w)
      BY <2>6, <3>2, <3>3, <3>4 DEF Rested
    <3> QED BY <1>1, <3>1, <3>5 DEF w
  <2>7. CASE ~v.on
    <3>1. w = u
      BY <2>1, <2>3, <2>4, <2>7, EndVoiceTurn
    <3> HIDE DEF w
    <3>2. u.on = FALSE
      BY <2>3, <2>7 DEF Form
    <3>3. Rested(v, w)
      BY <2>2, <2>3, <2>5, <2>7, <3>1, <3>2 DEF Rested
    <3> QED BY <1>1, <2>4, <3>1, <3>3 DEF w
  <2> QED BY <2>6, <2>7
<1>2. CASE v.queue # <<>>
  <2> DEFINE u == [v EXCEPT !.busy = TRUE, !.queue = Tail(@)]
             t == Waiting("open", Head(v.queue))
             w == playNext(v)
  <2>1. w = [u EXCEPT !.tasks = @ \cup {t}]
    BY <1>2 DEF playNext, Await, Waiting
  <2>2. /\ DOMAIN w = VoiceFields /\ w.tasks = v.tasks \cup {t} /\ w.queue = Tail(v.queue)
        /\ w.playing = v.playing
        /\ w.sounding = v.sounding /\ w.presses = v.presses /\ w.stream = v.stream
        /\ w.mics = v.mics /\ w.ticks = v.ticks /\ w.capture = v.capture
        /\ w.cancelled = v.cancelled
    BY <2>1 DEF Form, VoiceFields
  <2>3. /\ w.busy = TRUE /\ w.raced = v.raced /\ w.garbled = v.garbled /\ w.on = v.on
        /\ w.recognition = v.recognition /\ w.leaked = v.leaked /\ w.hurried = v.hurried
    BY <2>1 DEF Form, VoiceFields
  <2> HIDE DEF w
  <2>4. /\ Head(v.queue) \in Nat /\ Tail(v.queue) \in Seq(Nat)
        /\ t \in VoiceTask /\ t.kind = "open" /\ t.stale = FALSE
    BY <1>2 DEF Form, Waiting, VoiceTask, TaskKind
  <2>5. Recordings(w) = Recordings(v) /\ Tasks(w, {"paused"}) = Tasks(v, {"paused"})
    BY <2>2, <2>4 DEF Recordings, Tasks
  <2>6. Form(w)
    <3>1. w.on \in BOOLEAN /\ w.busy \in BOOLEAN /\ w.recognition \in BOOLEAN
          /\ w.leaked \in BOOLEAN /\ w.raced \in BOOLEAN /\ w.garbled \in BOOLEAN
          /\ w.hurried \in BOOLEAN
      BY <2>3, Zenon DEF Form
    <3>2. /\ w.presses \in Nat /\ w.ticks \in Int /\ w.queue \in Seq(Nat)
          /\ w.capture \in [kind : {"none", "pcm", "recorder"}, press : Nat]
          /\ w.capture.kind = "none" => w.capture = NoCapture
          /\ w.tasks \subseteq VoiceTask
      BY <2>2, <2>4 DEF Form
    <3>3. (\A x \in Recordings(w) : ~x.stale) /\ \A x \in Tasks(w, {"paused"}) : x.stale
      BY <2>5 DEF Form
    <3> QED BY <2>2, <3>1, <3>2, <3>3, Zenon DEF Form
  <2>7. Opening(v, w)
    BY <2>2, <2>3, <2>5 DEF Opening, SameRecording
  <2> QED BY <1>2, <2>6, <2>7 DEF w
<1> QED BY <1>1, <1>2

(* One task taken up again.                                                *)
LEMMA Resumed ==
  ASSUME NEW v, Form(v), NEW t \in v.tasks
  PROVE  LET w == Resume(v, t)
         IN  /\ Form(w) /\ w.tasks = v.tasks \ {t}
             /\ w.queue = v.queue /\ w.busy = v.busy /\ w.playing = v.playing
             /\ w.sounding = v.sounding /\ w.raced = v.raced /\ w.garbled = v.garbled
             /\ t \in Speech(v) => SameRecording(v, w)
             /\ w.on = v.on /\ w.presses = v.presses /\ w.stream = v.stream /\ w.mics = v.mics
             /\ w.capture = v.capture /\ w.recognition = v.recognition
             /\ w.leaked = v.leaked /\ w.ticks = v.ticks /\ w.hurried = v.hurried
             /\ w.cancelled = v.cancelled
<1> DEFINE w == Resume(v, t)
<1>1. /\ DOMAIN w = VoiceFields /\ w.tasks = v.tasks \ {t} /\ w.queue = v.queue
      /\ w.playing = v.playing
      /\ w.sounding = v.sounding /\ w.presses = v.presses /\ w.stream = v.stream
      /\ w.mics = v.mics /\ w.ticks = v.ticks /\ w.capture = v.capture
      /\ w.cancelled = v.cancelled
  BY DEF Form, VoiceFields, Resume
<1>2. /\ w.busy = v.busy /\ w.raced = v.raced /\ w.garbled = v.garbled /\ w.on = v.on
      /\ w.recognition = v.recognition /\ w.leaked = v.leaked /\ w.hurried = v.hurried
  BY DEF Form, VoiceFields, Resume
<1> HIDE DEF w
<1>3. Form(w)
  <2>1. w.on \in BOOLEAN /\ w.busy \in BOOLEAN /\ w.recognition \in BOOLEAN
        /\ w.leaked \in BOOLEAN /\ w.raced \in BOOLEAN /\ w.garbled \in BOOLEAN
        /\ w.hurried \in BOOLEAN
    BY <1>2, Zenon DEF Form
  <2>2. /\ w.presses \in Nat /\ w.ticks \in Int /\ w.queue \in Seq(Nat)
        /\ w.capture \in [kind : {"none", "pcm", "recorder"}, press : Nat]
        /\ w.capture.kind = "none" => w.capture = NoCapture
        /\ w.tasks \subseteq VoiceTask
    BY <1>1 DEF Form
  <2>3. (\A x \in Recordings(w) : ~x.stale) /\ \A x \in Tasks(w, {"paused"}) : x.stale
    BY <1>1 DEF Form, Recordings, Tasks
  <2> QED BY <1>1, <2>1, <2>2, <2>3, Zenon DEF Form
<1>4. t \in Speech(v) => Recordings(w) = Recordings(v)
  BY <1>1 DEF Speech, Recordings, Tasks
<1>5. t \in Speech(v) => SameRecording(v, w)
  BY <1>1, <1>2, <1>4 DEF SameRecording
<1> QED BY <1>1, <1>2, <1>3, <1>5, Zenon DEF w

-----------------------------------------------------------------------------
(* Playback, operator by operator.                                         *)
Apart(v, w) ==
  /\ DOMAIN w = VoiceFields
  /\ w.on = v.on /\ w.presses = v.presses /\ w.stream = v.stream /\ w.mics = v.mics
  /\ w.capture = v.capture /\ w.recognition = v.recognition /\ w.leaked = v.leaked
  /\ w.ticks = v.ticks /\ w.hurried = v.hurried /\ w.cancelled = v.cancelled

LEMMA OnlyPlayback ==
  ASSUME NEW v, NEW w, Form(v), Apart(v, w),
         w.busy \in BOOLEAN, w.raced \in BOOLEAN, w.garbled \in BOOLEAN,
         w.queue \in Seq(Nat), w.tasks \subseteq VoiceTask,
         Recordings(w) = Recordings(v), \A t \in Tasks(w, {"paused"}) : t.stale
  PROVE  Form(w) /\ SameRecording(v, w)
<1>1. w.on \in BOOLEAN /\ w.recognition \in BOOLEAN /\ w.leaked \in BOOLEAN
      /\ w.hurried \in BOOLEAN
  BY Zenon DEF Form, Apart
<1>2. /\ w.presses \in Nat /\ w.ticks \in Int
      /\ w.capture \in [kind : {"none", "pcm", "recorder"}, press : Nat]
      /\ w.capture.kind = "none" => w.capture = NoCapture
  BY DEF Form, Apart
<1>3. \A t \in Recordings(w) : ~t.stale
  BY DEF Form
<1>4. Form(w)
  BY <1>1, <1>2, <1>3, Zenon DEF Form, Apart
<1> QED BY <1>4 DEF SameRecording, Apart

LEMMA DroppedIs ==
  ASSUME NEW v, Form(v), NEW t
  PROVE  LET w == Dropped(v, t)
         IN  /\ Form(w) /\ SameRecording(v, w) /\ w.tasks = v.tasks /\ w.queue = v.queue
             /\ w.playing = v.playing /\ w.sounding = v.sounding
             /\ w.busy = FALSE /\ w.garbled = v.garbled /\ w.raced = (v.raced \/ Races(v, t))
<1> DEFINE w == Dropped(v, t)
           flag == v.raced \/ Races(v, t)
<1>1. flag \in BOOLEAN
  OBVIOUS
<1>2. w = [v EXCEPT !.busy = FALSE, !.raced = flag]
  BY Zenon DEF Dropped
<1> HIDE DEF w, flag
<1>3. Apart(v, w)
  BY <1>2 DEF Apart, Form, VoiceFields
<1>4. /\ w.tasks = v.tasks /\ w.queue = v.queue /\ w.playing = v.playing
      /\ w.sounding = v.sounding
  BY <1>2 DEF Form, VoiceFields
<1>5. w.busy = FALSE /\ w.garbled = v.garbled /\ w.raced = flag
  BY <1>2 DEF Form, VoiceFields
<1>6. w.busy \in BOOLEAN /\ w.raced \in BOOLEAN /\ w.garbled \in BOOLEAN
  BY <1>1, <1>5, Zenon DEF Form
<1>7. Form(w) /\ SameRecording(v, w)
  BY <1>3, <1>4, <1>6, OnlyPlayback DEF Form, Recordings, Tasks
<1> QED BY <1>4, <1>5, <1>7 DEF w, flag

(* What is opened or has been fetched is what plays now.                   *)
LEMMA OpenedIs ==
  ASSUME NEW v, Form(v), NEW t, ~t.stale
  PROVE  LET w == Opened(v, t)
         IN  /\ Form(w) /\ SameRecording(v, w) /\ w.tasks = v.tasks /\ w.queue = v.queue
             /\ w.playing = t.n /\ w.sounding = v.sounding \cup {t.n}
             /\ w.busy = v.busy /\ w.garbled = v.garbled /\ w.raced = v.raced
<1> DEFINE w == Opened(v, t)
<1>2. w = [v EXCEPT !.playing = t.n, !.sounding = @ \cup {t.n}]
  BY DEF Opened
<1> HIDE DEF w
<1>3. Apart(v, w)
  BY <1>2 DEF Apart, Form, VoiceFields
<1>4. /\ w.tasks = v.tasks /\ w.queue = v.queue /\ w.playing = t.n
      /\ w.sounding = v.sounding \cup {t.n}
  BY <1>2 DEF Form, VoiceFields
<1>5. w.busy = v.busy /\ w.garbled = v.garbled /\ w.raced = v.raced
  BY <1>2 DEF Form, VoiceFields
<1>6. w.busy \in BOOLEAN /\ w.raced \in BOOLEAN /\ w.garbled \in BOOLEAN
  BY <1>5, Zenon DEF Form
<1>7. Form(w) /\ SameRecording(v, w)
  BY <1>3, <1>4, <1>6, OnlyPlayback DEF Form, Recordings, Tasks
<1> QED BY <1>4, <1>5, <1>7 DEF w

LEMMA RefusedIs ==
  ASSUME NEW v, Form(v), NEW t \in VoiceTask
  PROVE  LET w == Refused(v, t)
         IN  /\ Form(w) /\ SameRecording(v, w) /\ w.queue = v.queue
             /\ w.playing = v.playing /\ w.sounding = v.sounding
             /\ w.busy = v.busy /\ w.garbled = v.garbled /\ w.raced = v.raced
             /\ \E x \in VoiceTask : /\ w.tasks = v.tasks \cup {x}
                                     /\ x.kind = "fetch" /\ x.n = t.n /\ x.stale = t.stale
<1> DEFINE w == Refused(v, t)
           x == [t EXCEPT !.kind = "fetch"]
<1>1. x \in VoiceTask /\ x.kind = "fetch" /\ x.n = t.n /\ x.stale = t.stale
  BY DEF VoiceTask, TaskKind
<1>2. w = [v EXCEPT !.tasks = @ \cup {x}]
  BY DEF Refused
<1> HIDE DEF w, x
<1>3. Apart(v, w)
  BY <1>2 DEF Apart, Form, VoiceFields
<1>4. /\ w.tasks = v.tasks \cup {x} /\ w.queue = v.queue /\ w.playing = v.playing
      /\ w.sounding = v.sounding
  BY <1>2 DEF Form, VoiceFields
<1>5. w.busy = v.busy /\ w.garbled = v.garbled /\ w.raced = v.raced
  BY <1>2 DEF Form, VoiceFields
<1>6. w.busy \in BOOLEAN /\ w.raced \in BOOLEAN /\ w.garbled \in BOOLEAN
  BY <1>5, Zenon DEF Form
<1>7. w.tasks \subseteq VoiceTask /\ w.queue \in Seq(Nat)
  BY <1>1, <1>4 DEF Form
<1>8. Recordings(w) = Recordings(v) /\ \A y \in Tasks(w, {"paused"}) : y.stale
  BY <1>1, <1>4 DEF Form, Recordings, Tasks
<1>9. Form(w) /\ SameRecording(v, w)
  BY <1>3, <1>6, <1>7, <1>8, OnlyPlayback
<1> QED BY <1>1, <1>4, <1>5, <1>9 DEF w

LEMMA FetchedIs ==
  ASSUME NEW v, Form(v), NEW t \in VoiceTask, ~t.stale
  PROVE  LET w == Fetched(v, t)
         IN  /\ Form(w) /\ SameRecording(v, w) /\ w.queue = v.queue
             /\ w.playing = t.n /\ w.sounding = v.sounding
             /\ w.busy = v.busy /\ w.garbled = v.garbled /\ w.raced = v.raced
             /\ w.tasks = v.tasks \cup {Waiting("begin", t.n)}
<1> DEFINE w == Fetched(v, t)
           x == Waiting("begin", t.n)
<1>1. x \in VoiceTask /\ x.kind = "begin" /\ x.n = t.n /\ x.stale = FALSE
  BY DEF VoiceTask, TaskKind, Waiting
<1>2. w = [[v EXCEPT !.playing = t.n] EXCEPT !.tasks = @ \cup {x}]
  BY DEF Fetched, Await, Waiting
<1> HIDE DEF w, x
<1>3. Apart(v, w)
  BY <1>2 DEF Apart, Form, VoiceFields
<1>4. /\ w.tasks = v.tasks \cup {x} /\ w.queue = v.queue /\ w.playing = t.n
      /\ w.sounding = v.sounding
  BY <1>2 DEF Form, VoiceFields
<1>5. w.busy = v.busy /\ w.garbled = v.garbled /\ w.raced = v.raced
  BY <1>2 DEF Form, VoiceFields
<1>6. w.busy \in BOOLEAN /\ w.raced \in BOOLEAN /\ w.garbled \in BOOLEAN
  BY <1>5, Zenon DEF Form
<1>7. w.tasks \subseteq VoiceTask /\ w.queue \in Seq(Nat)
  BY <1>1, <1>4 DEF Form
<1>8. Recordings(w) = Recordings(v) /\ \A y \in Tasks(w, {"paused"}) : y.stale
  BY <1>1, <1>4 DEF Form, Recordings, Tasks
<1>9. Form(w) /\ SameRecording(v, w)
  BY <1>3, <1>6, <1>7, <1>8, OnlyPlayback
<1> QED BY <1>4, <1>5, <1>9 DEF w, x

(* What comes before the next sentence: the last one failed.               *)
LEMMA RacedIs ==
  ASSUME NEW v, Form(v), NEW raced \in BOOLEAN
  PROVE  LET w == [v EXCEPT !.raced = raced]
         IN  /\ Form(w) /\ SameRecording(v, w) /\ w.tasks = v.tasks /\ w.playing = v.playing
             /\ w.queue = v.queue /\ w.sounding = v.sounding
             /\ w.busy = v.busy /\ w.garbled = v.garbled /\ w.raced = raced
<1> DEFINE w == [v EXCEPT !.raced = raced]
<1>1. Apart(v, w)
  BY DEF Apart, Form, VoiceFields
<1>2. /\ w.tasks = v.tasks /\ w.playing = v.playing
      /\ w.queue = v.queue /\ w.sounding = v.sounding
  BY DEF Form, VoiceFields
<1>3. w.busy = v.busy /\ w.garbled = v.garbled /\ w.raced = raced
  BY DEF Form, VoiceFields
<1> HIDE DEF w
<1>4. w.busy \in BOOLEAN /\ w.raced \in BOOLEAN /\ w.garbled \in BOOLEAN
  BY <1>3, Zenon DEF Form
<1>5. w.tasks \subseteq VoiceTask /\ w.queue \in Seq(Nat)
  BY <1>2 DEF Form
<1>6. Recordings(w) = Recordings(v) /\ \A t \in Tasks(w, {"paused"}) : t.stale
  BY <1>2 DEF Form, Recordings, Tasks
<1>7. Form(w) /\ SameRecording(v, w)
  BY <1>1, <1>4, <1>5, <1>6, OnlyPlayback
<1> QED BY <1>2, <1>3, <1>7 DEF w

(* It could not be decoded.                                                *)
LEMMA GarbledIs ==
  ASSUME NEW v, Form(v)
  PROVE  LET w == [v EXCEPT !.garbled = TRUE]
         IN  /\ Form(w) /\ SameRecording(v, w) /\ w.tasks = v.tasks /\ w.playing = v.playing
             /\ w.queue = v.queue /\ w.sounding = v.sounding
             /\ w.busy = v.busy /\ w.garbled = TRUE /\ w.raced = v.raced
<1> DEFINE w == [v EXCEPT !.garbled = TRUE]
<1>1. Apart(v, w)
  BY DEF Apart, Form, VoiceFields
<1>2. /\ w.tasks = v.tasks /\ w.playing = v.playing
      /\ w.queue = v.queue /\ w.sounding = v.sounding
  BY DEF Form, VoiceFields
<1>3. w.busy = v.busy /\ w.garbled = TRUE /\ w.raced = v.raced
  BY DEF Form, VoiceFields
<1> HIDE DEF w
<1>4. w.busy \in BOOLEAN /\ w.raced \in BOOLEAN /\ w.garbled \in BOOLEAN
  BY <1>3, Zenon DEF Form
<1>5. w.tasks \subseteq VoiceTask /\ w.queue \in Seq(Nat)
  BY <1>2 DEF Form
<1>6. Recordings(w) = Recordings(v) /\ \A t \in Tasks(w, {"paused"}) : t.stale
  BY <1>2 DEF Form, Recordings, Tasks
<1>7. Form(w) /\ SameRecording(v, w)
  BY <1>1, <1>4, <1>5, <1>6, OnlyPlayback
<1> QED BY <1>2, <1>3, <1>7 DEF w

(* It is over, or it begins.                                               *)
LEMMA EndedIs ==
  ASSUME NEW v, Form(v), NEW sounding
  PROVE  LET w == [v EXCEPT !.sounding = sounding]
         IN  /\ Form(w) /\ SameRecording(v, w) /\ w.tasks = v.tasks /\ w.playing = v.playing
             /\ w.queue = v.queue /\ w.sounding = sounding
             /\ w.busy = v.busy /\ w.garbled = v.garbled /\ w.raced = v.raced
<1> DEFINE w == [v EXCEPT !.sounding = sounding]
<1>1. Apart(v, w)
  BY DEF Apart, Form, VoiceFields
<1>2. /\ w.tasks = v.tasks /\ w.playing = v.playing
      /\ w.queue = v.queue /\ w.sounding = sounding
  BY DEF Form, VoiceFields
<1>3. w.busy = v.busy /\ w.garbled = v.garbled /\ w.raced = v.raced
  BY DEF Form, VoiceFields
<1> HIDE DEF w
<1>4. w.busy \in BOOLEAN /\ w.raced \in BOOLEAN /\ w.garbled \in BOOLEAN
  BY <1>3, Zenon DEF Form
<1>5. w.tasks \subseteq VoiceTask /\ w.queue \in Seq(Nat)
  BY <1>2 DEF Form
<1>6. Recordings(w) = Recordings(v) /\ \A t \in Tasks(w, {"paused"}) : t.stale
  BY <1>2 DEF Form, Recordings, Tasks
<1>7. Form(w) /\ SameRecording(v, w)
  BY <1>1, <1>4, <1>5, <1>6, OnlyPlayback
<1> QED BY <1>2, <1>3, <1>7 DEF w

(* There is one more.                                                      *)
LEMMA QueuedIs ==
  ASSUME NEW v, Form(v), NEW sentence \in Nat
  PROVE  LET w == [v EXCEPT !.queue = Append(@, sentence)]
         IN  /\ Form(w) /\ SameRecording(v, w) /\ w.tasks = v.tasks /\ w.playing = v.playing
             /\ w.queue = Append(v.queue, sentence) /\ w.sounding = v.sounding
             /\ w.busy = v.busy /\ w.garbled = v.garbled /\ w.raced = v.raced
<1> DEFINE w == [v EXCEPT !.queue = Append(@, sentence)]
<1>1. Apart(v, w)
  BY DEF Apart, Form, VoiceFields
<1>2. /\ w.tasks = v.tasks /\ w.playing = v.playing
      /\ w.queue = Append(v.queue, sentence) /\ w.sounding = v.sounding
  BY DEF Form, VoiceFields
<1>3. w.busy = v.busy /\ w.garbled = v.garbled /\ w.raced = v.raced
  BY DEF Form, VoiceFields
<1> HIDE DEF w
<1>4. w.busy \in BOOLEAN /\ w.raced \in BOOLEAN /\ w.garbled \in BOOLEAN
  BY <1>3, Zenon DEF Form
<1>5. w.tasks \subseteq VoiceTask /\ w.queue \in Seq(Nat)
  BY <1>2 DEF Form
<1>6. Recordings(w) = Recordings(v) /\ \A t \in Tasks(w, {"paused"}) : t.stale
  BY <1>2 DEF Form, Recordings, Tasks
<1>7. Form(w) /\ SameRecording(v, w)
  BY <1>1, <1>4, <1>5, <1>6, OnlyPlayback
<1> QED BY <1>2, <1>3, <1>7 DEF w

-----------------------------------------------------------------------------
(* The chain.                                                              *)
Sounds(v) == Live(v) # {} \/ v.sounding # {}
Queued(v) == {v.queue[i] : i \in DOMAIN v.queue}
Audible(v) == v.sounding \cup Queued(v) \cup {t.n : t \in Live(v)}

(* One sentence is being opened, or sounds, and busy says so.              *)
OneChain(v) ==
  /\ ~v.busy => v.queue = <<>> /\ ~Sounds(v)
  /\ v.sounding \subseteq {v.playing}
  /\ \A t, u \in Live(v) : t = u
  /\ Live(v) # {} => v.sounding = {}
  /\ \A t \in Tasks(v, {"begin"}) : ~t.stale /\ t.n = v.playing

(* What is queued or said to play is being opened or sounds.               *)
Heeded(v) == v.busy \/ v.playing # 0 \/ v.queue # <<>> => Sounds(v)

(* A step of the playback, that may add what is `more`.                    *)
Plays(v, w, more) ==
  /\ Form(w)
  /\ SameRecording(v, w) \/ (v.on /\ Released(v, w))
  /\ (v.raced => w.raced) /\ (v.garbled => w.garbled)
  /\ OneChain(v) /\ ~w.raced /\ ~w.garbled =>
       OneChain(w) /\ Audible(w) \subseteq Audible(v) \cup more
  /\ Heeded(v) => Heeded(w) /\ (Sounds(v) /\ w.on => Sounds(w))

LEMMA ReleasedLater ==
  ASSUME NEW v, NEW u, NEW w, SameRecording(v, u),
         SameRecording(u, w) \/ (u.on /\ Released(u, w))
  PROVE  SameRecording(v, w) \/ (v.on /\ Released(v, w))
<1>1. Tasks(u, {"start"}) = Tasks(v, {"start"})
  <2>1. \A x : Tasks(x, {"start"}) = {t \in Recordings(x) : t.kind = "start"}
    BY DEF Recordings, Tasks
  <2> QED BY <2>1 DEF SameRecording
<1>2. CASE SameRecording(u, w)
  BY <1>2 DEF SameRecording
<1>3. CASE u.on /\ Released(u, w)
  BY <1>1, <1>3 DEF SameRecording, Released
<1> QED BY <1>2, <1>3

(* A chain with nothing in it.                                             *)
Silent(v) == ~Sounds(v) /\ Tasks(v, {"begin"}) = {}

LEMMA NextPlays ==
  ASSUME NEW v, Form(v)
  PROVE  LET w == playNext(v)
         IN  /\ Form(w) /\ w.raced = v.raced /\ w.garbled = v.garbled
             /\ SameRecording(v, w) \/ (v.on /\ Released(v, w))
             /\ Heeded(w) /\ (w.on => Sounds(w))
             /\ Silent(v) => OneChain(w) /\ Audible(w) \subseteq Queued(v)
<1> DEFINE w == playNext(v)
<1>1. CASE v.queue = <<>>
  <2>1. Form(w) /\ Rested(v, w)
    BY <1>1, PlayNext
  <2> HIDE DEF w
  <2>2. Heeded(w) /\ ~w.on
    BY <2>1 DEF Rested, Heeded
  <2>3. ASSUME Silent(v) PROVE OneChain(w) /\ Audible(w) \subseteq Queued(v)
    <3>1. w.queue = <<>> /\ ~Sounds(w) /\ Tasks(w, {"begin"}) = {}
      BY <2>1, <2>3 DEF Rested, Silent, Sounds
    <3> QED BY <3>1 DEF OneChain, Audible, Queued, Sounds
  <2>4. SameRecording(v, w) \/ (v.on /\ Released(v, w))
    BY <2>1 DEF Rested
  <2>5. w.raced = v.raced /\ w.garbled = v.garbled
    BY <2>1 DEF Rested
  <2> QED BY <2>1, <2>2, <2>3, <2>4, <2>5 DEF w
<1>2. CASE v.queue # <<>>
  <2> DEFINE t == Waiting("open", Head(v.queue))
  <2>1. Form(w) /\ Opening(v, w)
    BY <1>2, PlayNext
  <2> HIDE DEF w
  <2>2. t.kind = "open" /\ t.n = Head(v.queue) /\ t.stale = FALSE
    BY DEF Waiting
  <2>3. w.tasks = v.tasks \cup {t} /\ w.queue = Tail(v.queue) /\ w.sounding = v.sounding
    BY <2>1 DEF Opening
  <2> HIDE DEF t
  <2>4. Live(w) = Live(v) \cup {t} /\ Tasks(w, {"begin"}) = Tasks(v, {"begin"})
    BY <2>2, <2>3 DEF Live, Loading, Tasks
  <2>5. Heeded(w) /\ Sounds(w)
    BY <2>4 DEF Heeded, Sounds
  <2>6. w.busy
    BY <2>1 DEF Opening
  <2>7. ASSUME Silent(v) PROVE OneChain(w) /\ Audible(w) \subseteq Queued(v)
    <3>1. Live(w) = {t} /\ w.sounding = {} /\ Tasks(w, {"begin"}) = {}
      BY <2>3, <2>4, <2>7 DEF Silent, Sounds
    <3>2. Queued(w) \subseteq Queued(v) /\ t.n \in Queued(v)
      <4>1. v.queue \in Seq(Nat) /\ v.queue # <<>>
        BY <1>2 DEF Form
      <4> QED BY <2>2, <2>3, <4>1 DEF Queued
    <3>3. OneChain(w)
      BY <2>6, <3>1 DEF OneChain
    <3>4. Audible(w) \subseteq Queued(v)
      BY <3>1, <3>2 DEF Audible
    <3> QED BY <3>3, <3>4
  <2>8. w.raced = v.raced /\ w.garbled = v.garbled /\ SameRecording(v, w)
    BY <2>1 DEF Opening
  <2> QED BY <2>1, <2>5, <2>7, <2>8 DEF w
<1> QED BY <1>1, <1>2

(* stopPlayback(), and what else hushes the page.                          *)
LEMMA HushedPlays ==
  ASSUME NEW v, NEW w, Form(v), Form(w), Hushed(v, w)
  PROVE  /\ w.raced = v.raced /\ w.garbled = v.garbled /\ Heeded(w)
         /\ OneChain(v) => OneChain(w) /\ Audible(w) = {}
<1>1. w.raced = v.raced /\ w.garbled = v.garbled
  BY DEF Hushed
<1>2. Heeded(w)
  BY DEF Hushed, Heeded
<1>3. ASSUME OneChain(v) PROVE OneChain(w) /\ Audible(w) = {}
  <2>1. w.queue = <<>> /\ ~Sounds(w) /\ Tasks(w, {"begin"}) = {}
    BY <1>3 DEF Hushed, OneChain, Sounds
  <2> QED BY <2>1 DEF OneChain, Audible, Queued, Sounds
<1> QED BY <1>1, <1>2, <1>3

LEMMA EnqueuePlays ==
  ASSUME NEW v, Form(v), NEW s \in Nat
  PROVE  Plays(v, enqueueSpeech(v, s), {s})
<1> DEFINE u == [v EXCEPT !.queue = Append(@, s)]
           w == enqueueSpeech(v, s)
<1>1. /\ Form(u) /\ SameRecording(v, u) /\ u.tasks = v.tasks /\ u.playing = v.playing
      /\ u.queue = Append(v.queue, s) /\ u.sounding = v.sounding
      /\ u.busy = v.busy /\ u.garbled = v.garbled /\ u.raced = v.raced
  BY QueuedIs
<1>2. v.busy => w = u
  BY DEF enqueueSpeech
<1>3. ~v.busy => w = playNext(u)
  BY DEF enqueueSpeech
<1> HIDE DEF u, w
<1> SUFFICES Plays(v, w, {s})
  BY DEF w
<1>4. Live(u) = Live(v) /\ Tasks(u, {"begin"}) = Tasks(v, {"begin"}) /\ (Sounds(u) <=> Sounds(v))
  BY <1>1 DEF Live, Loading, Tasks, Sounds
<1>5. Queued(u) \subseteq Queued(v) \cup {s}
  <2>1. v.queue \in Seq(Nat)
    BY DEF Form
  <2> QED BY <1>1, <2>1 DEF Queued
<1>6. CASE v.busy
  <2>1. w = u
    BY <1>2, <1>6
  <2>2. OneChain(v) => OneChain(u)
    BY <1>1, <1>4, <1>6 DEF OneChain
  <2>3. Audible(u) \subseteq Audible(v) \cup {s}
    BY <1>1, <1>4, <1>5 DEF Audible
  <2>4. Heeded(v) => Heeded(u) /\ Sounds(u)
    BY <1>4, <1>6 DEF Heeded
  <2>5. (v.raced => w.raced) /\ (v.garbled => w.garbled)
    BY <1>1, <2>1, Zenon
  <2> QED BY <1>1, <2>1, <2>2, <2>3, <2>4, <2>5, Zenon DEF Plays
<1>7. CASE ~v.busy
  <2>1. /\ Form(w) /\ w.raced = u.raced /\ w.garbled = u.garbled
        /\ SameRecording(u, w) \/ (u.on /\ Released(u, w))
        /\ Heeded(w) /\ (w.on => Sounds(w))
        /\ Silent(u) => OneChain(w) /\ Audible(w) \subseteq Queued(u)
    BY <1>1, <1>3, <1>7, NextPlays
  <2>2. SameRecording(v, w) \/ (v.on /\ Released(v, w))
    BY <1>1, <2>1, ReleasedLater
  <2>3. OneChain(v) => Silent(u)
    BY <1>4, <1>7 DEF OneChain, Silent, Sounds, Live, Loading, Tasks
  <2>4. Queued(u) \subseteq Audible(v) \cup {s}
    BY <1>5 DEF Audible
  <2>5. (v.raced => w.raced) /\ (v.garbled => w.garbled)
    BY <1>1, <2>1, Zenon
  <2>6. OneChain(v) => OneChain(w) /\ Audible(w) \subseteq Audible(v) \cup {s}
    BY <2>1, <2>3, <2>4
  <2> QED BY <2>1, <2>2, <2>5, <2>6, Zenon DEF Plays
<1> QED BY <1>6, <1>7

LEMMA TakenUp ==
  ASSUME NEW v, Form(v), NEW t \in Speech(v)
  PROVE  LET r == Resume(v, t)
         IN  /\ Form(r) /\ SameRecording(v, r) /\ r.tasks = v.tasks \ {t}
             /\ r.queue = v.queue /\ r.busy = v.busy /\ r.playing = v.playing
             /\ r.sounding = v.sounding /\ r.raced = v.raced /\ r.garbled = v.garbled
             /\ Live(r) = Live(v) \ {t} /\ Tasks(r, {"begin"}) = Tasks(v, {"begin"}) \ {t}
             /\ t.stale => Live(r) = Live(v)
             /\ ~t.stale /\ t.kind # "paused" => t \in Live(v)
<1> DEFINE r == Resume(v, t)
<1>1. t \in v.tasks /\ t.kind \in {"open", "fetch", "begin", "paused"}
  BY DEF Speech, Tasks
<1>2. /\ Form(r) /\ SameRecording(v, r) /\ r.tasks = v.tasks \ {t}
      /\ r.queue = v.queue /\ r.busy = v.busy /\ r.playing = v.playing
      /\ r.sounding = v.sounding /\ r.raced = v.raced /\ r.garbled = v.garbled
  BY <1>1, Resumed
<1> HIDE DEF r
<1>3. /\ Live(r) = Live(v) \ {t} /\ Tasks(r, {"begin"}) = Tasks(v, {"begin"}) \ {t}
      /\ t.stale => Live(r) = Live(v)
      /\ ~t.stale /\ t.kind # "paused" => t \in Live(v)
  BY <1>1, <1>2 DEF Live, Loading, Tasks
<1> QED BY <1>2, <1>3 DEF r

(* What a chain is without the sentence that was in it.                    *)
LEMMA ChainIsSilent ==
  ASSUME NEW v, Form(v), OneChain(v), NEW t \in Speech(v), ~t.stale \/ ~v.busy
  PROVE  ~Sounds(Resume(v, t)) /\ Tasks(Resume(v, t), {"begin"}) = {}
<1> DEFINE r == Resume(v, t)
<1>1. /\ r.sounding = v.sounding
      /\ Live(r) = Live(v) \ {t} /\ Tasks(r, {"begin"}) = Tasks(v, {"begin"}) \ {t}
      /\ ~t.stale /\ t.kind # "paused" => t \in Live(v)
  BY TakenUp
<1>2. t.kind = "paused" => t.stale
  BY DEF Speech, Tasks, Form
<1> HIDE DEF r
<1>3. Live(r) = {} /\ r.sounding = {}
  BY <1>1, <1>2 DEF OneChain, Sounds
<1>4. \A x \in Tasks(r, {"begin"}) : x \in Live(r)
  <2>1. Tasks(v, {"begin"}) \subseteq Live(v)
    BY DEF OneChain, Live, Loading, Tasks
  <2> QED BY <1>1, <2>1
<1> QED BY <1>3, <1>4 DEF r, Sounds

LEMMA FailedPlays ==
  ASSUME NEW v, Form(v), NEW t \in Speech(v)
  PROVE  Plays(v, Failed(Resume(v, t), t), {})
<1> DEFINE r == Resume(v, t)
           flag == r.raced \/ Races(r, t)
           u == [r EXCEPT !.raced = flag]
           w == playNext(u)
<1>1. /\ Form(r) /\ SameRecording(v, r) /\ r.tasks = v.tasks \ {t}
      /\ r.queue = v.queue /\ r.busy = v.busy /\ r.playing = v.playing
      /\ r.sounding = v.sounding /\ r.raced = v.raced /\ r.garbled = v.garbled
  BY TakenUp
<1>2. Failed(r, t) = w
  BY Zenon DEF Failed
<1>3. flag \in BOOLEAN
  OBVIOUS
<1>4. flag <=> v.raced \/ (t.stale /\ v.busy)
  BY <1>1, Zenon DEF Races
<1>5. OneChain(v) /\ (~t.stale \/ ~v.busy) => ~Sounds(r) /\ Tasks(r, {"begin"}) = {}
  BY ChainIsSilent
<1> HIDE DEF r, flag
<1>6. /\ Form(u) /\ SameRecording(r, u) /\ u.tasks = r.tasks /\ u.queue = r.queue
      /\ u.sounding = r.sounding /\ u.garbled = r.garbled /\ u.raced = flag
  BY <1>1, <1>3, RacedIs
<1> HIDE DEF u
<1>7. /\ Form(w) /\ w.raced = u.raced /\ w.garbled = u.garbled
      /\ SameRecording(u, w) \/ (u.on /\ Released(u, w))
      /\ Heeded(w) /\ (w.on => Sounds(w))
      /\ Silent(u) => OneChain(w) /\ Audible(w) \subseteq Queued(u)
  BY <1>6, NextPlays
<1> HIDE DEF w
<1>8. SameRecording(v, w) \/ (v.on /\ Released(v, w))
  <2>1. SameRecording(v, u)
    BY <1>1, <1>6 DEF SameRecording
  <2> QED BY <1>7, <2>1, ReleasedLater
<1>9. (v.raced => w.raced) /\ (v.garbled => w.garbled) /\ (w.raced <=> flag)
  BY <1>1, <1>4, <1>6, <1>7, Zenon
<1>10. ASSUME OneChain(v), ~w.raced
       PROVE  OneChain(w) /\ Audible(w) \subseteq Audible(v)
  <2>1. ~Sounds(r) /\ Tasks(r, {"begin"}) = {}
    BY <1>4, <1>5, <1>9, <1>10, Zenon
  <2>2. Silent(u)
    BY <1>6, <2>1 DEF Silent, Sounds, Live, Loading, Tasks
  <2>3. Queued(u) \subseteq Audible(v)
    BY <1>1, <1>6 DEF Queued, Audible
  <2> QED BY <1>7, <2>2, <2>3
<1>11. Plays(v, w, {})
  BY <1>7, <1>8, <1>9, <1>10 DEF Plays
<1> QED BY <1>2, <1>11 DEF r

LEMMA DroppedPlays ==
  ASSUME NEW v, Form(v), NEW t \in Speech(v), t.stale
  PROVE  Plays(v, Dropped(Resume(v, t), t), {})
<1> DEFINE r == Resume(v, t)
           w == Dropped(r, t)
<1>1. /\ Form(r) /\ SameRecording(v, r) /\ r.tasks = v.tasks \ {t}
      /\ r.queue = v.queue /\ r.busy = v.busy /\ r.playing = v.playing
      /\ r.sounding = v.sounding /\ r.raced = v.raced /\ r.garbled = v.garbled
      /\ Live(r) = Live(v) /\ Tasks(r, {"begin"}) = Tasks(v, {"begin"}) \ {t}
  BY TakenUp
<1> HIDE DEF r
<1>2. /\ Form(w) /\ SameRecording(r, w) /\ w.tasks = r.tasks /\ w.queue = r.queue
      /\ w.playing = r.playing /\ w.sounding = r.sounding
      /\ w.busy = FALSE /\ w.garbled = r.garbled /\ w.raced = (r.raced \/ Races(r, t))
  BY <1>1, DroppedIs
<1> HIDE DEF w
<1>3. SameRecording(v, w)
  BY <1>1, <1>2 DEF SameRecording
<1>4. (v.raced => w.raced) /\ (v.garbled => w.garbled) /\ (~w.raced => ~v.busy)
  BY <1>1, <1>2, Zenon DEF Races
<1>5. Live(w) = Live(v) /\ Tasks(w, {"begin"}) \subseteq Tasks(v, {"begin"})
  BY <1>1, <1>2 DEF Live, Loading, Tasks
<1>6. Heeded(v) => Heeded(w) /\ (Sounds(v) /\ w.on => Sounds(w))
  BY <1>1, <1>2, <1>5 DEF Heeded, Sounds
<1>7. ASSUME OneChain(v), ~w.raced
      PROVE  OneChain(w) /\ Audible(w) \subseteq Audible(v)
  BY <1>1, <1>2, <1>4, <1>5, <1>7 DEF OneChain, Audible, Queued, Sounds
<1>8. Plays(v, w, {})
  BY <1>2, <1>3, <1>4, <1>6, <1>7 DEF Plays
<1> QED BY <1>8 DEF w, r

LEMMA OpensPlays ==
  ASSUME NEW v, Form(v), NEW t \in Speech(v), t.kind = "open",
         NEW w \in {Opened(Resume(v, t), t), Refused(Resume(v, t), t)}
  PROVE  Plays(v, w, {})
<1> DEFINE r == Resume(v, t)
<1>1. /\ Form(r) /\ SameRecording(v, r) /\ r.tasks = v.tasks \ {t}
      /\ r.queue = v.queue /\ r.busy = v.busy /\ r.playing = v.playing
      /\ r.sounding = v.sounding /\ r.raced = v.raced /\ r.garbled = v.garbled
      /\ Live(r) = Live(v) \ {t} /\ Tasks(r, {"begin"}) = Tasks(v, {"begin"}) \ {t}
      /\ t.stale => Live(r) = Live(v)
      /\ ~t.stale /\ t.kind # "paused" => t \in Live(v)
  BY TakenUp
<1>2. t \in VoiceTask
  BY DEF Speech, Tasks, Form
<1>3. CASE w = Opened(r, t) /\ t.stale
  <2>1. w = Dropped(r, t)
    BY <1>3 DEF Opened
  <2> QED BY <1>3, <2>1, DroppedPlays
<1>4. CASE w = Opened(r, t) /\ ~t.stale
  <2> HIDE DEF r
  <2>1. /\ Form(w) /\ SameRecording(r, w) /\ w.tasks = r.tasks /\ w.queue = r.queue
        /\ w.playing = t.n /\ w.sounding = r.sounding \cup {t.n}
        /\ w.busy = r.busy /\ w.garbled = r.garbled /\ w.raced = r.raced
    BY <1>1, <1>4, OpenedIs
  <2>2. SameRecording(v, w)
    BY <1>1, <2>1 DEF SameRecording
  <2>3. (v.raced => w.raced) /\ (v.garbled => w.garbled) /\ (w.busy <=> v.busy)
    BY <1>1, <2>1, Zenon
  <2>4. t \in Live(v) /\ Live(w) = Live(v) \ {t} /\ Tasks(w, {"begin"}) \subseteq Tasks(v, {"begin"})
    BY <1>1, <1>4, <2>1 DEF Live, Loading, Tasks
  <2>5. Heeded(w) /\ Sounds(w)
    BY <2>1 DEF Heeded, Sounds
  <2>6. ASSUME OneChain(v)
        PROVE  OneChain(w) /\ Audible(w) \subseteq Audible(v)
    <3>1. Live(w) = {} /\ v.sounding = {} /\ v.busy
      BY <2>4, <2>6 DEF OneChain, Sounds
    <3>2. Tasks(w, {"begin"}) = {}
      <4>1. Tasks(v, {"begin"}) \subseteq Live(v)
        BY <2>6 DEF OneChain, Live, Loading, Tasks
      <4> QED BY <1>4, <2>4, <3>1, <4>1, <2>6 DEF OneChain, Tasks, Live, Loading
    <3>3. w.sounding = {t.n}
      BY <1>1, <2>1, <3>1
    <3>4. OneChain(w)
      BY <2>1, <2>3, <3>1, <3>2, <3>3 DEF OneChain
    <3>5. Audible(w) \subseteq Audible(v)
      BY <1>1, <2>1, <2>4, <3>1, <3>3 DEF Audible, Queued
    <3> QED BY <3>4, <3>5
  <2> QED BY <2>1, <2>2, <2>3, <2>5, <2>6 DEF Plays
<1>5. CASE w = Refused(r, t)
  <2> HIDE DEF r
  <2>1. /\ Form(w) /\ SameRecording(r, w) /\ w.queue = r.queue
        /\ w.playing = r.playing /\ w.sounding = r.sounding
        /\ w.busy = r.busy /\ w.garbled = r.garbled /\ w.raced = r.raced
        /\ \E x \in VoiceTask : /\ w.tasks = r.tasks \cup {x}
                                /\ x.kind = "fetch" /\ x.n = t.n /\ x.stale = t.stale
    <3>1. Form(r) /\ t \in VoiceTask
      BY <1>1, <1>2
    <3>2. LET o == Refused(r, t)
          IN  /\ Form(o) /\ SameRecording(r, o) /\ o.queue = r.queue
              /\ o.playing = r.playing /\ o.sounding = r.sounding
              /\ o.busy = r.busy /\ o.garbled = r.garbled /\ o.raced = r.raced
              /\ \E x \in VoiceTask : /\ o.tasks = r.tasks \cup {x}
                                      /\ x.kind = "fetch" /\ x.n = t.n /\ x.stale = t.stale
      BY <3>1, RefusedIs, ZenonT(30)
    <3> QED BY <1>5, <3>2, Zenon
  <2>2. PICK x \in VoiceTask : /\ w.tasks = r.tasks \cup {x}
                               /\ x.kind = "fetch" /\ x.n = t.n /\ x.stale = t.stale
    BY <2>1
  <2>3. SameRecording(v, w)
    BY <1>1, <2>1 DEF SameRecording
  <2>4. (v.raced => w.raced) /\ (v.garbled => w.garbled) /\ (w.busy <=> v.busy)
        /\ (x.stale <=> t.stale)
    BY <1>1, <2>1, <2>2, Zenon
  <2>5. /\ t.stale => Live(w) = Live(v)
        /\ ~t.stale => t \in Live(v) /\ Live(w) = (Live(v) \ {t}) \cup {x}
        /\ Tasks(w, {"begin"}) \subseteq Tasks(v, {"begin"})
    BY <1>1, <2>2, <2>4 DEF Live, Loading, Tasks
  <2>6. Sounds(w) <=> Sounds(v)
    BY <1>1, <2>1, <2>5 DEF Sounds
  <2>7. Heeded(v) => Heeded(w) /\ (Sounds(v) /\ w.on => Sounds(w))
    BY <1>1, <2>1, <2>4, <2>6 DEF Heeded
  <2>8. ASSUME OneChain(v)
        PROVE  OneChain(w) /\ Audible(w) \subseteq Audible(v)
    <3>1. OneChain(w)
      BY <1>1, <2>1, <2>4, <2>5, <2>6, <2>8 DEF OneChain
    <3>2. Audible(w) \subseteq Audible(v)
      BY <1>1, <2>1, <2>2, <2>5 DEF Audible, Queued
    <3> QED BY <3>1, <3>2
  <2> QED BY <2>1, <2>3, <2>4, <2>7, <2>8 DEF Plays
<1> QED BY <1>3, <1>4, <1>5

LEMMA FetchPlays ==
  ASSUME NEW v, Form(v), NEW t \in Speech(v), t.kind = "fetch",
         NEW w \in {Fetched(Resume(v, t), t), Failed(Resume(v, t), t)}
  PROVE  Plays(v, w, {})
<1> DEFINE r == Resume(v, t)
           x == Waiting("begin", t.n)
<1>1. /\ Form(r) /\ SameRecording(v, r) /\ r.tasks = v.tasks \ {t}
      /\ r.queue = v.queue /\ r.busy = v.busy /\ r.playing = v.playing
      /\ r.sounding = v.sounding /\ r.raced = v.raced /\ r.garbled = v.garbled
      /\ Live(r) = Live(v) \ {t} /\ Tasks(r, {"begin"}) = Tasks(v, {"begin"}) \ {t}
      /\ ~t.stale /\ t.kind # "paused" => t \in Live(v)
  BY TakenUp
<1>2. t \in VoiceTask
  BY DEF Speech, Tasks, Form
<1>3. CASE w = Failed(r, t)
  BY <1>3, FailedPlays
<1>4. CASE w = Fetched(r, t) /\ t.stale
  <2>1. w = Dropped(r, t)
    BY <1>4 DEF Fetched
  <2> QED BY <1>4, <2>1, DroppedPlays
<1>5. CASE w = Fetched(r, t) /\ ~t.stale
  <2> HIDE DEF r
  <2>1. /\ Form(w) /\ SameRecording(r, w) /\ w.queue = r.queue
        /\ w.playing = t.n /\ w.sounding = r.sounding
        /\ w.busy = r.busy /\ w.garbled = r.garbled /\ w.raced = r.raced
        /\ w.tasks = r.tasks \cup {x}
    BY <1>1, <1>2, <1>5, FetchedIs
  <2>2. x.kind = "begin" /\ x.n = t.n /\ x.stale = FALSE
    BY DEF Waiting
  <2> HIDE DEF x
  <2>3. SameRecording(v, w)
    BY <1>1, <2>1 DEF SameRecording
  <2>4. (v.raced => w.raced) /\ (v.garbled => w.garbled) /\ (w.busy <=> v.busy)
    BY <1>1, <2>1, Zenon
  <2>5. /\ t \in Live(v) /\ Live(w) = (Live(v) \ {t}) \cup {x}
        /\ Tasks(w, {"begin"}) \subseteq Tasks(v, {"begin"}) \cup {x}
    BY <1>1, <1>5, <2>1, <2>2 DEF Live, Loading, Tasks
  <2>6. Heeded(w) /\ Sounds(w)
    BY <2>5 DEF Heeded, Sounds
  <2>7. ASSUME OneChain(v)
        PROVE  OneChain(w) /\ Audible(w) \subseteq Audible(v)
    <3>1. Live(w) = {x} /\ w.sounding = {} /\ w.busy
      BY <1>1, <2>1, <2>4, <2>5, <2>7 DEF OneChain, Sounds
    <3>2. Tasks(v, {"begin"}) \subseteq {t}
      BY <2>5, <2>7 DEF OneChain, Live, Loading, Tasks
    <3>3. Tasks(w, {"begin"}) \subseteq {x}
      BY <1>5, <2>5, <3>2, <1>1, <2>1 DEF Tasks
    <3>4. OneChain(w)
      BY <2>1, <2>2, <3>1, <3>3 DEF OneChain
    <3>5. Audible(w) \subseteq Audible(v)
      BY <1>1, <2>1, <2>2, <2>5, <3>1 DEF Audible, Queued
    <3> QED BY <3>4, <3>5
  <2> QED BY <2>1, <2>3, <2>4, <2>6, <2>7 DEF Plays
<1> QED BY <1>3, <1>4, <1>5

LEMMA BeginPlays ==
  ASSUME NEW v, Form(v), NEW t \in Speech(v), t.kind = "begin",
         NEW w \in {Begun(Resume(v, t), t), Failed(Resume(v, t), t),
                    Undecodable(Resume(v, t))}
  PROVE  Plays(v, w, {})
<1> DEFINE r == Resume(v, t)
<1>1. /\ Form(r) /\ SameRecording(v, r) /\ r.tasks = v.tasks \ {t}
      /\ r.queue = v.queue /\ r.busy = v.busy /\ r.playing = v.playing
      /\ r.sounding = v.sounding /\ r.raced = v.raced /\ r.garbled = v.garbled
      /\ Live(r) = Live(v) \ {t} /\ Tasks(r, {"begin"}) = Tasks(v, {"begin"}) \ {t}
      /\ ~t.stale /\ t.kind # "paused" => t \in Live(v)
  BY TakenUp
<1>2. CASE w = Failed(r, t)
  BY <1>2, FailedPlays
<1>3. CASE w = Begun(r, t)
  <2> DEFINE sounding == r.sounding \cup {t.n}
  <2> HIDE DEF r
  <2>1. w = [r EXCEPT !.sounding = sounding]
    BY <1>3 DEF Begun
  <2>2. /\ Form(w) /\ SameRecording(r, w) /\ w.tasks = r.tasks /\ w.playing = r.playing
        /\ w.queue = r.queue /\ w.sounding = sounding
        /\ w.busy = r.busy /\ w.garbled = r.garbled /\ w.raced = r.raced
    BY <1>1, <2>1, EndedIs
  <2>3. SameRecording(v, w)
    BY <1>1, <2>2 DEF SameRecording
  <2>4. (v.raced => w.raced) /\ (v.garbled => w.garbled) /\ (w.busy <=> v.busy)
    BY <1>1, <2>2, Zenon
  <2>5. Live(w) = Live(v) \ {t} /\ Tasks(w, {"begin"}) = Tasks(v, {"begin"}) \ {t}
    BY <1>1, <2>2 DEF Live, Loading, Tasks
  <2>6. Heeded(w) /\ Sounds(w)
    BY <2>2 DEF Heeded, Sounds
  <2>7. ASSUME OneChain(v)
        PROVE  OneChain(w) /\ Audible(w) \subseteq Audible(v)
    <3>1. t \in Tasks(v, {"begin"})
      BY DEF Speech, Tasks
    <3>2. ~t.stale /\ t.n = v.playing /\ t \in Live(v)
      BY <1>1, <2>7, <3>1 DEF OneChain
    <3>3. Live(w) = {} /\ v.sounding = {} /\ v.busy
      BY <2>5, <2>7, <3>2 DEF OneChain, Sounds
    <3>4. w.sounding = {t.n} /\ w.playing = t.n
      BY <1>1, <2>2, <3>2, <3>3
    <3>5. OneChain(w)
      BY <2>4, <2>5, <2>7, <3>2, <3>3, <3>4 DEF OneChain
    <3>6. Audible(w) \subseteq Audible(v)
      BY <1>1, <2>2, <3>2, <3>3, <3>4 DEF Audible, Queued
    <3> QED BY <3>5, <3>6
  <2> QED BY <2>2, <2>3, <2>4, <2>6, <2>7 DEF Plays
<1>4. CASE w = Undecodable(r)
  <2> DEFINE u == [r EXCEPT !.garbled = TRUE]
             p == playNext(u)
  <2> HIDE DEF r
  <2>1. w = playNext(p)
    BY <1>4 DEF Undecodable
  <2>2. /\ Form(u) /\ SameRecording(r, u) /\ u.raced = r.raced /\ u.garbled = TRUE
    BY <1>1, GarbledIs
  <2> HIDE DEF u
  <2>3. /\ Form(p) /\ p.raced = u.raced /\ p.garbled = u.garbled
        /\ SameRecording(u, p) \/ (u.on /\ Released(u, p))
    BY <2>2, NextPlays
  <2>4. (u.on /\ Released(u, p)) => ~p.on
    BY DEF Released
  <2> HIDE DEF p
  <2>5. /\ Form(w) /\ w.raced = p.raced /\ w.garbled = p.garbled
        /\ SameRecording(p, w) \/ (p.on /\ Released(p, w))
        /\ Heeded(w) /\ (w.on => Sounds(w))
    BY <2>1, <2>3, NextPlays
  <2>6. SameRecording(v, p) \/ (v.on /\ Released(v, p))
    <3>1. SameRecording(v, u)
      BY <1>1, <2>2 DEF SameRecording
    <3> QED BY <2>3, <3>1, ReleasedLater
  <2>7. SameRecording(v, w) \/ (v.on /\ Released(v, w))
    <3>1. CASE SameRecording(v, p)
      BY <2>5, <3>1, ReleasedLater
    <3>2. CASE v.on /\ Released(v, p)
      <4>1. SameRecording(p, w)
        BY <2>5, <3>2 DEF Released
      <4> QED BY <3>2, <4>1 DEF Released, SameRecording
    <3> QED BY <2>6, <3>1, <3>2
  <2>8. (v.raced => w.raced) /\ w.garbled
    BY <1>1, <2>2, <2>3, <2>5, Zenon
  <2> QED BY <2>5, <2>7, <2>8 DEF Plays
<1> QED BY <1>2, <1>3, <1>4

LEMMA EndsPlays ==
  ASSUME NEW v, Form(v), NEW s \in v.sounding
  PROVE  Plays(v, Ended(v, s), {})
<1> DEFINE sounding == v.sounding \ {s}
           u == [v EXCEPT !.sounding = sounding]
           w == playNext(u)
<1>1. Ended(v, s) = w
  BY DEF Ended
<1>2. /\ Form(u) /\ SameRecording(v, u) /\ u.tasks = v.tasks /\ u.playing = v.playing
      /\ u.queue = v.queue /\ u.sounding = sounding
      /\ u.busy = v.busy /\ u.garbled = v.garbled /\ u.raced = v.raced
  BY EndedIs
<1> HIDE DEF u
<1>3. /\ Form(w) /\ w.raced = u.raced /\ w.garbled = u.garbled
      /\ SameRecording(u, w) \/ (u.on /\ Released(u, w))
      /\ Heeded(w) /\ (w.on => Sounds(w))
      /\ Silent(u) => OneChain(w) /\ Audible(w) \subseteq Queued(u)
  BY <1>2, NextPlays
<1> HIDE DEF w
<1>4. SameRecording(v, w) \/ (v.on /\ Released(v, w))
  BY <1>2, <1>3, ReleasedLater
<1>5. (v.raced => w.raced) /\ (v.garbled => w.garbled)
  BY <1>2, <1>3, Zenon
<1>6. ASSUME OneChain(v)
      PROVE  OneChain(w) /\ Audible(w) \subseteq Audible(v)
  <2>1. Live(u) = Live(v) /\ Tasks(u, {"begin"}) = Tasks(v, {"begin"})
    BY <1>2 DEF Live, Loading, Tasks
  <2>2. Live(u) = {} /\ u.sounding = {}
    BY <1>2, <1>6, <2>1 DEF OneChain
  <2>3. Tasks(v, {"begin"}) \subseteq Live(v)
    BY <1>6 DEF OneChain, Live, Loading, Tasks
  <2>4. Silent(u)
    BY <2>1, <2>2, <2>3 DEF Silent, Sounds
  <2>5. Queued(u) \subseteq Audible(v)
    BY <1>2 DEF Queued, Audible
  <2> QED BY <1>3, <2>4, <2>5
<1>7. Plays(v, w, {})
  BY <1>3, <1>4, <1>5, <1>6 DEF Plays
<1> QED BY <1>1, <1>7

-----------------------------------------------------------------------------
(* The microphone, operator by operator.                                   *)
Beside(v, w) ==
  /\ DOMAIN w = VoiceFields
  /\ w.queue = v.queue /\ w.busy = v.busy /\ w.playing = v.playing
  /\ w.sounding = v.sounding /\ w.raced = v.raced /\ w.garbled = v.garbled

LEMMA OnlyRecording ==
  ASSUME NEW v, NEW w, Form(v), Beside(v, w),
         w.on \in BOOLEAN, w.recognition \in BOOLEAN, w.leaked \in BOOLEAN,
         w.hurried \in BOOLEAN, w.presses \in Nat, w.ticks \in Int,
         w.capture \in [kind : {"none", "pcm", "recorder"}, press : Nat],
         w.capture.kind = "none" => w.capture = NoCapture,
         w.tasks \subseteq VoiceTask, Speech(w) = Speech(v),
         \A t \in Recordings(w) : ~t.stale
  PROVE  Form(w) /\ SamePlayback(v, w)
<1>1. w.busy \in BOOLEAN /\ w.raced \in BOOLEAN /\ w.garbled \in BOOLEAN
  BY Zenon DEF Form, Beside
<1>2. w.queue \in Seq(Nat)
  BY DEF Form, Beside
<1>3. \A t \in Tasks(w, {"paused"}) : t.stale
  <2>1. Tasks(w, {"paused"}) = {t \in Speech(w) : t.kind = "paused"}
    BY DEF Speech, Tasks
  <2>2. Tasks(v, {"paused"}) = {t \in Speech(v) : t.kind = "paused"}
    BY DEF Speech, Tasks
  <2> QED BY <2>1, <2>2 DEF Form
<1>4. Form(w)
  BY <1>1, <1>2, <1>3, Zenon DEF Form, Beside
<1> QED BY <1>4, Zenon DEF SamePlayback, Beside

(* toggleVoice() asks for the microphone.                                  *)
LEMMA AskedIs ==
  ASSUME NEW v, Form(v), NEW hurried \in BOOLEAN
  PROVE  LET w == Await([v EXCEPT !.presses = @ + 1, !.hurried = hurried], "press", v.presses + 1)
         IN  /\ Form(w) /\ SamePlayback(v, w)
             /\ Recordings(w) = Recordings(v) \cup {Waiting("press", v.presses + 1)}
             /\ w.presses = v.presses + 1 /\ w.stream = v.stream /\ w.mics = v.mics
             /\ w.capture = v.capture /\ w.ticks = v.ticks /\ w.cancelled = v.cancelled
             /\ w.on = v.on /\ w.recognition = v.recognition
             /\ w.leaked = v.leaked /\ w.hurried = hurried
<1> DEFINE w == Await([v EXCEPT !.presses = @ + 1, !.hurried = hurried], "press", v.presses + 1)
<1>1. /\ DOMAIN w = VoiceFields /\ w.tasks = v.tasks \cup {Waiting("press", v.presses + 1)}
      /\ w.queue = v.queue /\ w.playing = v.playing /\ w.sounding = v.sounding
      /\ w.presses = v.presses + 1 /\ w.stream = v.stream /\ w.mics = v.mics
      /\ w.capture = v.capture /\ w.ticks = v.ticks /\ w.cancelled = v.cancelled
  BY DEF Form, VoiceFields, Await, Waiting
<1>2. /\ w.busy = v.busy /\ w.raced = v.raced /\ w.garbled = v.garbled
      /\ w.on = v.on /\ w.recognition = v.recognition
      /\ w.leaked = v.leaked /\ w.hurried = hurried
  BY DEF Form, VoiceFields, Await, Waiting
<1> HIDE DEF w
<1>3. LET t == Waiting("press", v.presses + 1) IN t \in VoiceTask /\ t.kind = "press" /\ t.stale = FALSE
  BY DEF Form, VoiceTask, TaskKind, Waiting
<1>4. /\ Speech(w) = Speech(v) /\ w.tasks \subseteq VoiceTask
      /\ Recordings(w) = Recordings(v) \cup {Waiting("press", v.presses + 1)} /\ \A t \in Recordings(w) : ~t.stale
  BY <1>1, <1>3 DEF Form, Speech, Recordings, Tasks
<1>5. w.on \in BOOLEAN /\ w.recognition \in BOOLEAN /\ w.leaked \in BOOLEAN
      /\ w.hurried \in BOOLEAN
  BY <1>2, Zenon DEF Form
<1>6. /\ w.presses \in Nat /\ w.ticks \in Int
      /\ w.capture \in [kind : {"none", "pcm", "recorder"}, press : Nat]
      /\ w.capture.kind = "none" => w.capture = NoCapture
  BY <1>1 DEF Form, NoCapture
<1>7. Form(w) /\ SamePlayback(v, w)
  BY <1>1, <1>2, <1>4, <1>5, <1>6, OnlyRecording DEF Beside
<1> QED BY <1>1, <1>2, <1>4, <1>7, Zenon DEF w

(* It is granted.                                                          *)
Given(v, press) == [v EXCEPT !.stream = press, !.mics = @ \cup {press}, !.on = TRUE]

LEMMA GivenIs ==
  ASSUME NEW v, Form(v), NEW press
  PROVE  LET w == Given(v, press)
         IN  /\ Form(w) /\ SamePlayback(v, w)
             /\ Recordings(w) = Recordings(v)
             /\ w.presses = v.presses /\ w.stream = press /\ w.mics = v.mics \cup {press}
             /\ w.capture = v.capture /\ w.ticks = v.ticks /\ w.cancelled = v.cancelled
             /\ w.on = TRUE /\ w.recognition = v.recognition
             /\ w.leaked = v.leaked /\ w.hurried = v.hurried
<1> DEFINE w == Given(v, press)
<1>1. /\ DOMAIN w = VoiceFields /\ w.tasks = v.tasks
      /\ w.queue = v.queue /\ w.playing = v.playing /\ w.sounding = v.sounding
      /\ w.presses = v.presses /\ w.stream = press /\ w.mics = v.mics \cup {press}
      /\ w.capture = v.capture /\ w.ticks = v.ticks /\ w.cancelled = v.cancelled
  BY DEF Given, Form, VoiceFields
<1>2. /\ w.busy = v.busy /\ w.raced = v.raced /\ w.garbled = v.garbled
      /\ w.on = TRUE /\ w.recognition = v.recognition
      /\ w.leaked = v.leaked /\ w.hurried = v.hurried
  BY DEF Given, Form, VoiceFields
<1> HIDE DEF w
<1>4. /\ Speech(w) = Speech(v) /\ w.tasks \subseteq VoiceTask
      /\ Recordings(w) = Recordings(v) /\ \A t \in Recordings(w) : ~t.stale
  BY <1>1 DEF Form, Speech, Recordings, Tasks
<1>5. w.on \in BOOLEAN /\ w.recognition \in BOOLEAN /\ w.leaked \in BOOLEAN
      /\ w.hurried \in BOOLEAN
  BY <1>2, Zenon DEF Form
<1>6. /\ w.presses \in Nat /\ w.ticks \in Int
      /\ w.capture \in [kind : {"none", "pcm", "recorder"}, press : Nat]
      /\ w.capture.kind = "none" => w.capture = NoCapture
  BY <1>1 DEF Form, NoCapture
<1>7. Form(w) /\ SamePlayback(v, w)
  BY <1>1, <1>2, <1>4, <1>5, <1>6, OnlyRecording DEF Beside
<1> QED BY <1>1, <1>2, <1>4, <1>7, Zenon DEF w

(* startCapture(): the recording begins.                                   *)
LEMMA StartIs ==
  ASSUME NEW v, Form(v), NEW press \in Nat
  PROVE  LET w == startCapture(v, press)
         IN  /\ Form(w) /\ SamePlayback(v, w)
             /\ Recordings(w) = Recordings(v) \cup {Waiting("start", press)}
             /\ w.presses = v.presses /\ w.stream = v.stream /\ w.mics = v.mics
             /\ w.capture = NoCapture /\ w.ticks = v.ticks + 1 /\ w.cancelled = v.cancelled
             /\ w.on = v.on /\ w.recognition = v.recognition
             /\ w.leaked = v.leaked /\ w.hurried = (v.hurried \/ Starting(v) # {} \/ v.capture # NoCapture)
<1> DEFINE hurried == v.hurried \/ Starting(v) # {} \/ v.capture # NoCapture
           w == startCapture(v, press)
<1>0. hurried \in BOOLEAN
  BY DEF Form
<1>8. w = Await([v EXCEPT !.capture = NoCapture, !.ticks = @ + 1, !.hurried = hurried],
                "start", press)
  BY Zenon DEF startCapture
<1> HIDE DEF w, hurried
<1>1. /\ DOMAIN w = VoiceFields /\ w.tasks = v.tasks \cup {Waiting("start", press)}
      /\ w.queue = v.queue /\ w.playing = v.playing /\ w.sounding = v.sounding
      /\ w.presses = v.presses /\ w.stream = v.stream /\ w.mics = v.mics
      /\ w.capture = NoCapture /\ w.ticks = v.ticks + 1 /\ w.cancelled = v.cancelled
  BY <1>8 DEF Form, VoiceFields, Await, Waiting
<1>2. /\ w.busy = v.busy /\ w.raced = v.raced /\ w.garbled = v.garbled
      /\ w.on = v.on /\ w.recognition = v.recognition
      /\ w.leaked = v.leaked /\ w.hurried = hurried
  BY <1>8 DEF Form, VoiceFields, Await, Waiting
<1>3. LET t == Waiting("start", press) IN t \in VoiceTask /\ t.kind = "start" /\ t.stale = FALSE
  BY DEF Form, VoiceTask, TaskKind, Waiting
<1>4. /\ Speech(w) = Speech(v) /\ w.tasks \subseteq VoiceTask
      /\ Recordings(w) = Recordings(v) \cup {Waiting("start", press)} /\ \A t \in Recordings(w) : ~t.stale
  BY <1>1, <1>3 DEF Form, Speech, Recordings, Tasks
<1>5. w.on \in BOOLEAN /\ w.recognition \in BOOLEAN /\ w.leaked \in BOOLEAN
      /\ w.hurried \in BOOLEAN
  BY <1>0, <1>2, Zenon DEF Form
<1>6. /\ w.presses \in Nat /\ w.ticks \in Int
      /\ w.capture \in [kind : {"none", "pcm", "recorder"}, press : Nat]
      /\ w.capture.kind = "none" => w.capture = NoCapture
  BY <1>1 DEF Form, NoCapture
<1>7. Form(w) /\ SamePlayback(v, w)
  BY <1>1, <1>2, <1>4, <1>5, <1>6, OnlyRecording DEF Beside
<1> QED BY <1>1, <1>2, <1>4, <1>7, Zenon DEF w, hurried

(* There is a capture; and then perhaps a recogniser.                      *)
LEMMA StartedIs ==
  ASSUME NEW v, Form(v), NEW kind \in {"pcm", "recorder"}, NEW press \in Nat
  PROVE  LET w == [v EXCEPT !.capture = [kind |-> kind, press |-> press]]
         IN  /\ Form(w) /\ SamePlayback(v, w)
             /\ Recordings(w) = Recordings(v)
             /\ w.presses = v.presses /\ w.stream = v.stream /\ w.mics = v.mics
             /\ w.capture = [kind |-> kind, press |-> press] /\ w.ticks = v.ticks /\ w.cancelled = v.cancelled
             /\ w.on = v.on /\ w.recognition = v.recognition
             /\ w.leaked = v.leaked /\ w.hurried = v.hurried
<1> DEFINE w == [v EXCEPT !.capture = [kind |-> kind, press |-> press]]
<1>1. /\ DOMAIN w = VoiceFields /\ w.tasks = v.tasks
      /\ w.queue = v.queue /\ w.playing = v.playing /\ w.sounding = v.sounding
      /\ w.presses = v.presses /\ w.stream = v.stream /\ w.mics = v.mics
      /\ w.capture = [kind |-> kind, press |-> press] /\ w.ticks = v.ticks /\ w.cancelled = v.cancelled
  BY DEF Form, VoiceFields
<1>2. /\ w.busy = v.busy /\ w.raced = v.raced /\ w.garbled = v.garbled
      /\ w.on = v.on /\ w.recognition = v.recognition
      /\ w.leaked = v.leaked /\ w.hurried = v.hurried
  BY DEF Form, VoiceFields
<1> HIDE DEF w
<1>4. /\ Speech(w) = Speech(v) /\ w.tasks \subseteq VoiceTask
      /\ Recordings(w) = Recordings(v) /\ \A t \in Recordings(w) : ~t.stale
  BY <1>1 DEF Form, Speech, Recordings, Tasks
<1>5. w.on \in BOOLEAN /\ w.recognition \in BOOLEAN /\ w.leaked \in BOOLEAN
      /\ w.hurried \in BOOLEAN
  BY <1>2, Zenon DEF Form
<1>6. /\ w.presses \in Nat /\ w.ticks \in Int
      /\ w.capture \in [kind : {"none", "pcm", "recorder"}, press : Nat]
      /\ w.capture.kind = "none" => w.capture = NoCapture
  BY <1>1 DEF Form, NoCapture
<1>7. Form(w) /\ SamePlayback(v, w)
  BY <1>1, <1>2, <1>4, <1>5, <1>6, OnlyRecording DEF Beside
<1> QED BY <1>1, <1>2, <1>4, <1>7, Zenon DEF w

LEMMA RecognisedIs ==
  ASSUME NEW v, Form(v), NEW has \in BOOLEAN
  PROVE  LET w == startRecognition(v, has)
         IN  /\ Form(w) /\ SamePlayback(v, w)
             /\ Recordings(w) = Recordings(v)
             /\ w.presses = v.presses /\ w.stream = v.stream /\ w.mics = v.mics
             /\ w.capture = v.capture /\ w.ticks = v.ticks /\ w.cancelled = v.cancelled
             /\ w.on = v.on /\ w.recognition = has
             /\ w.leaked = (v.leaked \/ v.recognition) /\ w.hurried = v.hurried
<1> DEFINE leaked == v.leaked \/ v.recognition
           w == startRecognition(v, has)
<1>0. leaked \in BOOLEAN
  OBVIOUS
<1>8. w = [v EXCEPT !.recognition = has, !.leaked = leaked]
  BY Zenon DEF startRecognition
<1> HIDE DEF w, leaked
<1>1. /\ DOMAIN w = VoiceFields /\ w.tasks = v.tasks
      /\ w.queue = v.queue /\ w.playing = v.playing /\ w.sounding = v.sounding
      /\ w.presses = v.presses /\ w.stream = v.stream /\ w.mics = v.mics
      /\ w.capture = v.capture /\ w.ticks = v.ticks /\ w.cancelled = v.cancelled
  BY <1>8 DEF Form, VoiceFields
<1>2. /\ w.busy = v.busy /\ w.raced = v.raced /\ w.garbled = v.garbled
      /\ w.on = v.on /\ w.recognition = has
      /\ w.leaked = leaked /\ w.hurried = v.hurried
  BY <1>8 DEF Form, VoiceFields
<1>4. /\ Speech(w) = Speech(v) /\ w.tasks \subseteq VoiceTask
      /\ Recordings(w) = Recordings(v) /\ \A t \in Recordings(w) : ~t.stale
  BY <1>1 DEF Form, Speech, Recordings, Tasks
<1>5. w.on \in BOOLEAN /\ w.recognition \in BOOLEAN /\ w.leaked \in BOOLEAN
      /\ w.hurried \in BOOLEAN
  BY <1>0, <1>2, Zenon DEF Form
<1>6. /\ w.presses \in Nat /\ w.ticks \in Int
      /\ w.capture \in [kind : {"none", "pcm", "recorder"}, press : Nat]
      /\ w.capture.kind = "none" => w.capture = NoCapture
  BY <1>1 DEF Form, NoCapture
<1>7. Form(w) /\ SamePlayback(v, w)
  BY <1>1, <1>2, <1>4, <1>5, <1>6, OnlyRecording DEF Beside
<1> QED BY <1>1, <1>2, <1>4, <1>7, Zenon DEF w, leaked

(* The recording is over: stopRecognition(), and what comes next.          *)
LEMMA UnrecognisedIs ==
  ASSUME NEW v, Form(v)
  PROVE  LET w == stopRecognition(v)
         IN  /\ Form(w) /\ SamePlayback(v, w)
             /\ Recordings(w) = Recordings(v)
             /\ w.presses = v.presses /\ w.stream = v.stream /\ w.mics = v.mics
             /\ w.capture = v.capture /\ w.ticks = v.ticks /\ w.cancelled = v.cancelled
             /\ w.on = v.on /\ w.recognition = FALSE
             /\ w.leaked = v.leaked /\ w.hurried = v.hurried
<1> DEFINE w == stopRecognition(v)
<1>1. /\ DOMAIN w = VoiceFields /\ w.tasks = v.tasks
      /\ w.queue = v.queue /\ w.playing = v.playing /\ w.sounding = v.sounding
      /\ w.presses = v.presses /\ w.stream = v.stream /\ w.mics = v.mics
      /\ w.capture = v.capture /\ w.ticks = v.ticks /\ w.cancelled = v.cancelled
  BY DEF Form, VoiceFields, stopRecognition
<1>2. /\ w.busy = v.busy /\ w.raced = v.raced /\ w.garbled = v.garbled
      /\ w.on = v.on /\ w.recognition = FALSE
      /\ w.leaked = v.leaked /\ w.hurried = v.hurried
  BY DEF Form, VoiceFields, stopRecognition
<1> HIDE DEF w
<1>4. /\ Speech(w) = Speech(v) /\ w.tasks \subseteq VoiceTask
      /\ Recordings(w) = Recordings(v) /\ \A t \in Recordings(w) : ~t.stale
  BY <1>1 DEF Form, Speech, Recordings, Tasks
<1>5. w.on \in BOOLEAN /\ w.recognition \in BOOLEAN /\ w.leaked \in BOOLEAN
      /\ w.hurried \in BOOLEAN
  BY <1>2, Zenon DEF Form
<1>6. /\ w.presses \in Nat /\ w.ticks \in Int
      /\ w.capture \in [kind : {"none", "pcm", "recorder"}, press : Nat]
      /\ w.capture.kind = "none" => w.capture = NoCapture
  BY <1>1 DEF Form, NoCapture
<1>7. Form(w) /\ SamePlayback(v, w)
  BY <1>1, <1>2, <1>4, <1>5, <1>6, OnlyRecording DEF Beside
<1> QED BY <1>1, <1>2, <1>4, <1>7, Zenon DEF w

LEMMA StoppedIs ==
  ASSUME NEW v, Form(v)
  PROVE  LET w == [v EXCEPT !.capture = NoCapture, !.ticks = @ - 1]
         IN  /\ Form(w) /\ SamePlayback(v, w)
             /\ Recordings(w) = Recordings(v)
             /\ w.presses = v.presses /\ w.stream = v.stream /\ w.mics = v.mics
             /\ w.capture = NoCapture /\ w.ticks = v.ticks - 1 /\ w.cancelled = v.cancelled
             /\ w.on = v.on /\ w.recognition = v.recognition
             /\ w.leaked = v.leaked /\ w.hurried = v.hurried
<1> DEFINE w == [v EXCEPT !.capture = NoCapture, !.ticks = @ - 1]
<1>1. /\ DOMAIN w = VoiceFields /\ w.tasks = v.tasks
      /\ w.queue = v.queue /\ w.playing = v.playing /\ w.sounding = v.sounding
      /\ w.presses = v.presses /\ w.stream = v.stream /\ w.mics = v.mics
      /\ w.capture = NoCapture /\ w.ticks = v.ticks - 1 /\ w.cancelled = v.cancelled
  BY DEF Form, VoiceFields
<1>2. /\ w.busy = v.busy /\ w.raced = v.raced /\ w.garbled = v.garbled
      /\ w.on = v.on /\ w.recognition = v.recognition
      /\ w.leaked = v.leaked /\ w.hurried = v.hurried
  BY DEF Form, VoiceFields
<1> HIDE DEF w
<1>4. /\ Speech(w) = Speech(v) /\ w.tasks \subseteq VoiceTask
      /\ Recordings(w) = Recordings(v) /\ \A t \in Recordings(w) : ~t.stale
  BY <1>1 DEF Form, Speech, Recordings, Tasks
<1>5. w.on \in BOOLEAN /\ w.recognition \in BOOLEAN /\ w.leaked \in BOOLEAN
      /\ w.hurried \in BOOLEAN
  BY <1>2, Zenon DEF Form
<1>6. /\ w.presses \in Nat /\ w.ticks \in Int
      /\ w.capture \in [kind : {"none", "pcm", "recorder"}, press : Nat]
      /\ w.capture.kind = "none" => w.capture = NoCapture
  BY <1>1 DEF Form, NoCapture
<1>7. Form(w) /\ SamePlayback(v, w)
  BY <1>1, <1>2, <1>4, <1>5, <1>6, OnlyRecording DEF Beside
<1> QED BY <1>1, <1>2, <1>4, <1>7, Zenon DEF w

LEMMA AwaitedIs ==
  ASSUME NEW v, Form(v), NEW press \in Nat, NEW kind \in {"onstop", "upload"}
  PROVE  LET w == Await(v, kind, press)
         IN  /\ Form(w) /\ SamePlayback(v, w)
             /\ Recordings(w) = Recordings(v) \cup {Waiting(kind, press)}
             /\ w.presses = v.presses /\ w.stream = v.stream /\ w.mics = v.mics
             /\ w.capture = v.capture /\ w.ticks = v.ticks /\ w.cancelled = v.cancelled
             /\ w.on = v.on /\ w.recognition = v.recognition
             /\ w.leaked = v.leaked /\ w.hurried = v.hurried
<1> DEFINE w == Await(v, kind, press)
<1>1. /\ DOMAIN w = VoiceFields /\ w.tasks = v.tasks \cup {Waiting(kind, press)}
      /\ w.queue = v.queue /\ w.playing = v.playing /\ w.sounding = v.sounding
      /\ w.presses = v.presses /\ w.stream = v.stream /\ w.mics = v.mics
      /\ w.capture = v.capture /\ w.ticks = v.ticks /\ w.cancelled = v.cancelled
  BY DEF Form, VoiceFields, Await, Waiting
<1>2. /\ w.busy = v.busy /\ w.raced = v.raced /\ w.garbled = v.garbled
      /\ w.on = v.on /\ w.recognition = v.recognition
      /\ w.leaked = v.leaked /\ w.hurried = v.hurried
  BY DEF Form, VoiceFields, Await, Waiting
<1> HIDE DEF w
<1>3. LET t == Waiting(kind, press) IN t \in VoiceTask /\ t.kind = kind /\ t.stale = FALSE
  BY DEF Form, VoiceTask, TaskKind, Waiting
<1>4. /\ Speech(w) = Speech(v) /\ w.tasks \subseteq VoiceTask
      /\ Recordings(w) = Recordings(v) \cup {Waiting(kind, press)} /\ \A t \in Recordings(w) : ~t.stale
  BY <1>1, <1>3 DEF Form, Speech, Recordings, Tasks
<1>5. w.on \in BOOLEAN /\ w.recognition \in BOOLEAN /\ w.leaked \in BOOLEAN
      /\ w.hurried \in BOOLEAN
  BY <1>2, Zenon DEF Form
<1>6. /\ w.presses \in Nat /\ w.ticks \in Int
      /\ w.capture \in [kind : {"none", "pcm", "recorder"}, press : Nat]
      /\ w.capture.kind = "none" => w.capture = NoCapture
  BY <1>1 DEF Form, NoCapture
<1>7. Form(w) /\ SamePlayback(v, w)
  BY <1>1, <1>2, <1>4, <1>5, <1>6, OnlyRecording DEF Beside
<1> QED BY <1>1, <1>2, <1>4, <1>7, Zenon DEF w

-----------------------------------------------------------------------------
(* Recordings.  T are the turns being read, u says that one was lost.      *)
InCapture(v) == v.capture.kind # "none" \/ Tasks(v, {"start"}) # {}

(* What will end the voice turn when it comes to its own end.              *)
Going(v, T) ==
  \/ InCapture(v) \/ Tasks(v, {"onstop", "upload"}) # {} \/ Sounds(v)
  \/ \E r \in T : r.voice

(* The microphone is held by the voice turn there is, and for one thing.   *)
Tidy(v) ==
  /\ v.mics = IF v.on THEN {v.stream} ELSE {}
  /\ v.on <=> v.stream # 0
  /\ ~v.leaked
  /\ \A s \in Starting(v) : IF s.kind = "press" THEN ~v.on ELSE v.on
  /\ \A s, t \in Starting(v) : s = t
  /\ Starting(v) # {} => v.capture.kind = "none"
  /\ v.capture.kind # "none" => v.on
  /\ v.ticks <= IF InCapture(v) THEN 1 ELSE 0

(* A recogniser runs beside a recording, or one that is being delivered.   *)
Captioned(v) ==
  v.recognition => /\ v.on /\ Starting(v) = {}
                   /\ v.capture.kind # "none" \/ Tasks(v, {"onstop"}) # {}

Held(v) == Tidy(v) /\ Captioned(v)

Minded(v, T, u) == v.hurried \/ (Held(v) /\ (u \/ (v.on => Going(v, T))))

(* A press has one recording: it is asked for, starts, runs, is delivered, *)
(* uploaded or a turn; none of these once it was tapped off.               *)
Free(v, T, p) ==
  /\ p \in 1..v.presses /\ p \notin v.cancelled
  /\ \A t \in Recordings(v) : t.n # p
  /\ v.capture.kind # "none" => v.capture.press # p
  /\ \A r \in T : r.press # p

Single(v, T) ==
  /\ v.cancelled \subseteq 1..v.presses
  /\ \A t \in Recordings(v) : t.n \in 1..v.presses /\ t.n \notin v.cancelled
  /\ \A s, t \in Recordings(v) : s.n = t.n => s = t
  /\ v.capture.kind # "none" =>
       /\ v.capture.press \in 1..v.presses /\ v.capture.press \notin v.cancelled
       /\ \A t \in Recordings(v) : t.n # v.capture.press
       /\ \A r \in T : r.press # v.capture.press
  /\ \A r \in T : /\ r.press \in 0..v.presses /\ r.press \notin v.cancelled
                  /\ \A t \in Recordings(v) : r.press # t.n

Quieter(v, w) ==
  /\ w.raced = v.raced /\ w.garbled = v.garbled
  /\ OneChain(v) => OneChain(w) /\ Audible(w) \subseteq Audible(v)
  /\ Heeded(v) => Heeded(w)

LEMMA SameIsQuieter ==
  ASSUME NEW v, NEW w, SamePlayback(v, w)
  PROVE  Quieter(v, w) /\ (Sounds(w) <=> Sounds(v))
<1>1. \A x : /\ Live(x) = {t \in Speech(x) : t.kind \in {"open", "fetch", "begin"} /\ ~t.stale}
             /\ Tasks(x, {"begin"}) = {t \in Speech(x) : t.kind = "begin"}
  BY DEF Live, Loading, Tasks, Speech
<1>2. Live(w) = Live(v) /\ Tasks(w, {"begin"}) = Tasks(v, {"begin"})
  BY <1>1 DEF SamePlayback
<1>3. w.sounding = v.sounding /\ w.queue = v.queue /\ w.playing = v.playing
  BY DEF SamePlayback
<1>4. w.busy = v.busy /\ w.raced = v.raced /\ w.garbled = v.garbled
  BY DEF SamePlayback
<1>5. Sounds(w) <=> Sounds(v)
  BY <1>2, <1>3 DEF Sounds
<1>6. OneChain(v) => OneChain(w) /\ Audible(w) \subseteq Audible(v)
  BY <1>2, <1>3, <1>4, <1>5 DEF OneChain, Audible, Queued
<1>7. Heeded(v) => Heeded(w)
  BY <1>3, <1>4, <1>5 DEF Heeded
<1> QED BY <1>4, <1>5, <1>6, <1>7 DEF Quieter

LEMMA QuieterStill ==
  ASSUME NEW v, NEW u, NEW w, Quieter(v, u), Quieter(u, w)
  PROVE  Quieter(v, w)
BY Zenon DEF Quieter

LEMMA HushedIsQuieter ==
  ASSUME NEW v, NEW w, Form(v), Form(w), Hushed(v, w)
  PROVE  Quieter(v, w)
BY HushedPlays DEF Quieter

LEMMA KindsOfRecordings ==
  ASSUME NEW v
  PROVE  /\ Starting(v) = {t \in Recordings(v) : t.kind \in {"press", "start"}}
         /\ Tasks(v, {"start"}) = {t \in Recordings(v) : t.kind = "start"}
         /\ Tasks(v, {"onstop"}) = {t \in Recordings(v) : t.kind = "onstop"}
         /\ Tasks(v, {"onstop", "upload"}) = {t \in Recordings(v) : t.kind \in {"onstop", "upload"}}
BY DEF Starting, Recordings, Tasks

(* One recording less, and one more.                                       *)
LEMMA FewerAreSingle ==
  ASSUME NEW v, NEW w, NEW T, NEW S, Single(v, T), S \subseteq T,
         Recordings(w) \subseteq Recordings(v), w.presses = v.presses,
         w.cancelled = v.cancelled, w.capture.kind # "none" => w.capture = v.capture
  PROVE  Single(w, S)
BY DEF Single

LEMMA OneMoreIsSingle ==
  ASSUME NEW v, NEW w, NEW T, NEW x, Form(v), Single(v, T), Free(v, T, x.n),
         Recordings(w) = Recordings(v) \cup {x}, w.presses = v.presses,
         w.cancelled = v.cancelled, w.capture.kind # "none" => w.capture = v.capture
  PROVE  Single(w, T)
BY DEF Single, Free

LEMMA CaptureIsSingle ==
  ASSUME NEW v, NEW w, NEW T, Form(v), Single(v, T), Free(v, T, w.capture.press),
         Recordings(w) = Recordings(v), w.presses = v.presses,
         w.cancelled = v.cancelled
  PROVE  Single(w, T)
BY DEF Single, Free

LEMMA ReleasedIsSingle ==
  ASSUME NEW v, NEW w, NEW T, Form(v), Single(v, T), Released(v, w)
  PROVE  Single(w, T)
BY DEF Single, Released, NoCapture, Form

LEMMA ReleasedIsHeld ==
  ASSUME NEW v, NEW w, Held(v), v.on, Released(v, w), ~w.hurried
  PROVE  Held(w) /\ ~w.on
<1>1. /\ w.on = FALSE /\ w.recognition = FALSE /\ w.leaked = v.leaked
      /\ ~v.hurried /\ Tasks(v, {"start"}) = {}
  BY DEF Released
<1>2. /\ w.stream = 0 /\ w.mics = v.mics \ {v.stream} /\ w.ticks = 0
      /\ w.capture.kind = "none" /\ Recordings(w) = Recordings(v)
  BY DEF Released, NoCapture
<1>3. Starting(w) = Starting(v) /\ Tasks(w, {"start"}) = {}
  <2>1. /\ Starting(v) = {t \in Recordings(v) : t.kind \in {"press", "start"}}
        /\ Starting(w) = {t \in Recordings(w) : t.kind \in {"press", "start"}}
        /\ Tasks(v, {"start"}) = {t \in Recordings(v) : t.kind = "start"}
        /\ Tasks(w, {"start"}) = {t \in Recordings(w) : t.kind = "start"}
    BY KindsOfRecordings
  <2> QED BY <1>1, <1>2, <2>1
<1>4. \A s \in Starting(w) : s.kind = "press"
  BY <1>3 DEF Starting, Tasks
<1>5. ~w.leaked
  BY <1>1 DEF Held, Tidy, Captioned
<1>6. w.mics = {}
  BY <1>2 DEF Held, Tidy, Captioned
<1>7. \A s, t \in Starting(w) : s = t
  BY <1>3 DEF Held, Tidy, Captioned
<1> QED BY <1>1, <1>2, <1>3, <1>4, <1>5, <1>6, <1>7 DEF Held, Tidy, Captioned, InCapture

LEMMA SameIsHeld ==
  ASSUME NEW v, NEW w, SameRecording(v, w)
  PROVE  /\ Held(v) => Held(w)
         /\ \A T : Single(v, T) => Single(w, T)
         /\ \A T : Going(v, T) /\ (Sounds(v) => Sounds(w)) => Going(w, T)
<1>1. /\ Starting(w) = Starting(v) /\ Tasks(w, {"start"}) = Tasks(v, {"start"})
      /\ Tasks(w, {"onstop"}) = Tasks(v, {"onstop"})
      /\ Tasks(w, {"onstop", "upload"}) = Tasks(v, {"onstop", "upload"})
  BY KindsOfRecordings DEF SameRecording
<1>2. InCapture(w) <=> InCapture(v)
  BY <1>1 DEF InCapture, SameRecording
<1>3. Held(v) => Held(w)
  BY <1>1, <1>2 DEF Held, Tidy, Captioned, SameRecording
<1>4. \A T : Single(v, T) => Single(w, T)
  BY DEF Single, SameRecording
<1>5. \A T : Going(v, T) /\ (Sounds(v) => Sounds(w)) => Going(w, T)
  BY <1>1, <1>2 DEF Going
<1> QED BY <1>3, <1>4, <1>5

(* The playback leaves the recordings alone, or ends the voice turn.       *)
LEMMA PlaysKeeps ==
  ASSUME NEW v, NEW w, NEW more, NEW T, NEW u, Form(v), Heeded(v), Plays(v, w, more),
         Single(v, T), Minded(v, T, u)
  PROVE  Single(w, T) /\ Minded(w, T, u)
<1>1. CASE SameRecording(v, w)
  <2>1. Single(w, T) /\ (Held(v) => Held(w))
    BY <1>1, SameIsHeld
  <2>2. w.hurried = v.hurried /\ w.on = v.on
    BY <1>1 DEF SameRecording
  <2>3. w.on /\ Going(v, T) => Going(w, T)
    BY <1>1, SameIsHeld DEF Plays
  <2> QED BY <2>1, <2>2, <2>3 DEF Minded
<1>2. CASE v.on /\ Released(v, w)
  <2>1. Single(w, T)
    BY <1>2, ReleasedIsSingle
  <2>2. v.hurried => w.hurried
    BY <1>2 DEF Released
  <2>3. Held(v) /\ ~w.hurried => Held(w) /\ ~w.on
    BY <1>2, ReleasedIsHeld
  <2> QED BY <2>1, <2>2, <2>3 DEF Minded
<1> QED BY <1>1, <1>2 DEF Plays

LEMMA StopKeeps ==
  ASSUME NEW v, NEW T, NEW u, Form(v), Single(v, T), v.hurried \/ Held(v), v.on
  PROVE  LET w == stopVoice(v)
         IN  Form(w) /\ Quieter(v, w) /\ Single(w, T) /\ Minded(w, T, u) /\ ~w.on
<1> DEFINE w == stopVoice(v)
<1>1. Form(w) /\ Hushed(v, w) /\ Released(v, w)
  BY StopVoice
<1> HIDE DEF w
<1>2. Quieter(v, w) /\ Single(w, T)
  BY <1>1, HushedIsQuieter, ReleasedIsSingle
<1>3. (v.hurried => w.hurried) /\ ~w.on
  BY <1>1 DEF Released
<1>4. Held(v) /\ ~w.hurried => Held(w)
  BY <1>1, ReleasedIsHeld
<1>5. Minded(w, T, u)
  BY <1>3, <1>4 DEF Minded
<1> QED BY <1>1, <1>2, <1>3, <1>5 DEF w

LEMMA EndTurnKeeps ==
  ASSUME NEW v, NEW T, NEW u, Form(v), Single(v, T), v.hurried \/ Held(v)
  PROVE  LET w == endVoiceTurn(v)
         IN  Form(w) /\ Quieter(v, w) /\ Single(w, T) /\ Minded(w, T, u) /\ ~w.on
<1>1. CASE v.on
  BY <1>1, StopKeeps DEF endVoiceTurn
<1>2. CASE ~v.on
  <2>1. endVoiceTurn(v) = v
    BY <1>2 DEF endVoiceTurn
  <2>2. Quieter(v, v)
    BY DEF Quieter
  <2>3. Minded(v, T, u)
    BY <1>2 DEF Minded
  <2> QED BY <1>2, <2>1, <2>2, <2>3
<1> QED BY <1>1, <1>2

(* A recording may begin where nothing is recorded.                        *)
MayStart(v) ==
  \/ v.hurried \/ Starting(v) # {} \/ v.capture # NoCapture
  \/ Held(v) /\ v.on /\ ~v.recognition

LEMMA StartKeeps ==
  ASSUME NEW v, NEW T, NEW u, NEW p \in Nat, Form(v), Single(v, T), Free(v, T, p),
         MayStart(v)
  PROVE  LET w == startCapture(v, p)
         IN  Form(w) /\ Quieter(v, w) /\ Single(w, T) /\ Minded(w, T, u)
<1> DEFINE x == Waiting("start", p)
           w == startCapture(v, p)
<1>2. /\ Form(w) /\ SamePlayback(v, w)
      /\ Recordings(w) = Recordings(v) \cup {x}
      /\ w.presses = v.presses /\ w.stream = v.stream /\ w.mics = v.mics
      /\ w.capture = NoCapture /\ w.ticks = v.ticks + 1 /\ w.cancelled = v.cancelled
      /\ w.on = v.on /\ w.recognition = v.recognition /\ w.leaked = v.leaked
      /\ w.hurried = (v.hurried \/ Starting(v) # {} \/ v.capture # NoCapture)
  BY StartIs
<1> HIDE DEF w
<1>3. x.n = p /\ x.kind = "start"
  BY DEF Waiting
<1> HIDE DEF x
<1>4. Quieter(v, w)
  BY <1>2, SameIsQuieter
<1>5. Single(w, T)
  BY <1>2, <1>3, OneMoreIsSingle DEF NoCapture
<1>6. ASSUME ~w.hurried PROVE Held(w) /\ InCapture(w)
  <2>1. Held(v) /\ v.on /\ ~v.recognition /\ Starting(v) = {} /\ v.capture = NoCapture
    BY <1>2, <1>6 DEF MayStart
  <2>2. Starting(w) = {x} /\ Tasks(w, {"start"}) = {x} /\ Tasks(v, {"start"}) = {}
    BY <1>2, <1>3, <2>1, KindsOfRecordings
  <2>3. InCapture(w) /\ ~InCapture(v) /\ w.capture.kind = "none"
    BY <1>2, <2>1, <2>2 DEF InCapture, NoCapture
  <2>4. w.ticks <= 1
    BY <1>2, <2>1, <2>3 DEF Held, Tidy, Captioned, Form
  <2> QED BY <1>2, <1>3, <2>1, <2>2, <2>3, <2>4 DEF Held, Tidy, Captioned
<1>7. Minded(w, T, u)
  BY <1>2, <1>6 DEF Minded, Going
<1> QED BY <1>2, <1>4, <1>5, <1>7 DEF w

LEMMA ToggleKeeps ==
  ASSUME NEW v, NEW T, NEW u, Form(v), Single(v, T), Minded(v, T, u)
  PROVE  LET w == toggleVoice(v)
         IN  Form(w) /\ Quieter(v, w) /\ Single(w, T) /\ Minded(w, T, u) /\ ~w.on
<1>1. CASE v.on
  <2>1. toggleVoice(v) = stopVoice(v)
    BY <1>1 DEF toggleVoice
  <2>2. v.hurried \/ Held(v)
    BY DEF Minded
  <2> QED BY <1>1, <2>1, <2>2, StopKeeps
<1>2. CASE ~v.on
  <2> DEFINE hurried == v.hurried \/ Starting(v) # {}
             x == Waiting("press", v.presses + 1)
             w == toggleVoice(v)
  <2>1. w = Await([v EXCEPT !.presses = @ + 1, !.hurried = hurried], "press", v.presses + 1)
    BY <1>2, Zenon DEF toggleVoice
  <2>2. hurried \in BOOLEAN
    BY DEF Form
  <2>3. ~hurried => Held(v) /\ Starting(v) = {}
    BY DEF Minded
  <2> HIDE DEF w, hurried
  <2>4. /\ Form(w) /\ SamePlayback(v, w)
        /\ Recordings(w) = Recordings(v) \cup {x}
        /\ w.presses = v.presses + 1 /\ w.stream = v.stream /\ w.mics = v.mics
        /\ w.capture = v.capture /\ w.ticks = v.ticks /\ w.cancelled = v.cancelled
        /\ w.on = v.on /\ w.recognition = v.recognition /\ w.leaked = v.leaked
        /\ w.hurried = hurried
    BY <2>1, <2>2, AskedIs
  <2>5. x.n = v.presses + 1 /\ x.kind = "press"
    BY DEF Waiting
  <2> HIDE DEF x
  <2>6. v.presses \in Nat
    BY DEF Form
  <2>7. Single(w, T)
    <3>1. v.presses + 1 \notin 1..v.presses /\ v.presses + 1 \notin 0..v.presses
          /\ v.presses + 1 \in 1..w.presses
          /\ 1..v.presses \subseteq 1..w.presses /\ 0..v.presses \subseteq 0..w.presses
      BY <2>4, <2>6
    <3> QED BY <2>4, <2>5, <3>1 DEF Single
  <2>8. ASSUME ~hurried PROVE Held(w)
    <3>0. Starting(v) = {} /\ Recordings(w) = Recordings(v) \cup {x} /\ x.kind = "press"
      BY <2>3, <2>4, <2>5, <2>8
    <3>1. /\ Starting(w) = {x} /\ Tasks(v, {"start"}) = {} /\ Tasks(w, {"start"}) = {}
          /\ Tasks(w, {"onstop"}) = Tasks(v, {"onstop"})
      <4>1. Starting(w) = {x}
        BY <3>0, KindsOfRecordings
      <4>2. Tasks(v, {"start"}) = {}
        BY <3>0, KindsOfRecordings
      <4>3. Tasks(w, {"start"}) = Tasks(v, {"start"})
        <5>1. /\ Tasks(w, {"start"}) = {t \in Recordings(w) : t.kind = "start"}
              /\ Tasks(v, {"start"}) = {t \in Recordings(v) : t.kind = "start"}
          BY KindsOfRecordings
        <5> QED BY <3>0, <5>1
      <4>4. Tasks(w, {"onstop"}) = Tasks(v, {"onstop"})
        <5>1. /\ Tasks(w, {"onstop"}) = {t \in Recordings(w) : t.kind = "onstop"}
              /\ Tasks(v, {"onstop"}) = {t \in Recordings(v) : t.kind = "onstop"}
          BY KindsOfRecordings
        <5> QED BY <3>0, <5>1
      <4> QED BY <4>1, <4>2, <4>3, <4>4
    <3>2. InCapture(w) <=> InCapture(v)
      BY <2>4, <3>1 DEF InCapture
    <3>3. v.capture.kind = "none" /\ ~v.recognition
      BY <1>2, <2>3, <2>8 DEF Held, Tidy, Captioned, Form
    <3> QED BY <1>2, <2>3, <2>4, <2>5, <2>8, <3>1, <3>2, <3>3 DEF Held, Tidy, Captioned
  <2>9. ~w.on
    BY <1>2, <2>4
  <2>10. Minded(w, T, u)
    BY <2>4, <2>8, <2>9 DEF Minded
  <2>11. Quieter(v, w)
    BY <2>4, SameIsQuieter
  <2> QED BY <2>4, <2>7, <2>9, <2>10, <2>11 DEF w
<1> QED BY <1>1, <1>2

LEMMA RecordingTaken ==
  ASSUME NEW v, NEW T, Form(v), Single(v, T), NEW t \in Recordings(v)
  PROVE  LET r == Resume(v, t)
         IN  /\ Form(r) /\ SamePlayback(v, r) /\ Recordings(r) = Recordings(v) \ {t}
             /\ r.presses = v.presses /\ r.stream = v.stream /\ r.mics = v.mics
             /\ r.capture = v.capture /\ r.ticks = v.ticks /\ r.cancelled = v.cancelled
             /\ r.on = v.on /\ r.recognition = v.recognition
             /\ r.leaked = v.leaked /\ r.hurried = v.hurried
             /\ Single(r, T) /\ Free(r, T, t.n) /\ t.n \in Nat /\ t.n # 0
<1> DEFINE r == Resume(v, t)
<1>1. t \in v.tasks /\ t.kind \in {"press", "start", "onstop", "upload"}
  BY DEF Recordings, Tasks
<1>2. /\ Form(r) /\ r.tasks = v.tasks \ {t}
      /\ r.queue = v.queue /\ r.busy = v.busy /\ r.playing = v.playing
      /\ r.sounding = v.sounding /\ r.raced = v.raced /\ r.garbled = v.garbled
      /\ r.on = v.on /\ r.presses = v.presses /\ r.stream = v.stream /\ r.mics = v.mics
      /\ r.capture = v.capture /\ r.recognition = v.recognition
      /\ r.leaked = v.leaked /\ r.ticks = v.ticks /\ r.hurried = v.hurried
      /\ r.cancelled = v.cancelled
  BY <1>1, Resumed
<1> HIDE DEF r
<1>3. Recordings(r) = Recordings(v) \ {t} /\ Speech(r) = Speech(v)
  BY <1>1, <1>2 DEF Recordings, Speech, Tasks
<1>4. SamePlayback(v, r)
  BY <1>2, <1>3 DEF SamePlayback
<1>5. Single(r, T)
  BY <1>2, <1>3, FewerAreSingle
<1>6. Free(r, T, t.n)
  BY <1>2, <1>3 DEF Single, Free
<1>7. t.n \in Nat /\ t.n # 0
  <2>1. t.n \in 1..v.presses /\ v.presses \in Nat
    BY DEF Single, Form
  <2> QED BY <2>1
<1> QED BY <1>2, <1>3, <1>4, <1>5, <1>6, <1>7 DEF r

LEMMA GrantedKeeps ==
  ASSUME NEW v, NEW T, NEW u, Form(v), Single(v, T), Minded(v, T, u),
         NEW t \in Recordings(v), t.kind = "press"
  PROVE  LET w == Granted(Resume(v, t), t.n)
         IN  Form(w) /\ Quieter(v, w) /\ Single(w, T) /\ Minded(w, T, u)
<1> DEFINE r == Resume(v, t)
           g == Given(r, t.n)
           w == startCapture(g, t.n)
<1>1. Granted(r, t.n) = w
  BY DEF Granted, Given
<1>2. /\ Form(r) /\ SamePlayback(v, r) /\ Recordings(r) = Recordings(v) \ {t}
      /\ r.presses = v.presses /\ r.stream = v.stream /\ r.mics = v.mics
      /\ r.capture = v.capture /\ r.ticks = v.ticks /\ r.cancelled = v.cancelled
      /\ r.on = v.on /\ r.recognition = v.recognition
      /\ r.leaked = v.leaked /\ r.hurried = v.hurried
      /\ Single(r, T) /\ Free(r, T, t.n) /\ t.n \in Nat /\ t.n # 0
  BY RecordingTaken
<1> HIDE DEF r
<1>3. /\ Form(g) /\ SamePlayback(r, g) /\ Recordings(g) = Recordings(r)
      /\ g.presses = r.presses /\ g.stream = t.n /\ g.mics = r.mics \cup {t.n}
      /\ g.capture = r.capture /\ g.ticks = r.ticks /\ g.cancelled = r.cancelled
      /\ g.on = TRUE /\ g.recognition = r.recognition
      /\ g.leaked = r.leaked /\ g.hurried = r.hurried
  <2>1. Form(r)
    BY <1>2
  <2>2. /\ Form(g) /\ SamePlayback(r, g) /\ Recordings(g) = Recordings(r)
        /\ g.presses = r.presses /\ g.stream = t.n /\ g.mics = r.mics \cup {t.n}
        /\ g.capture = r.capture /\ g.ticks = r.ticks /\ g.cancelled = r.cancelled
    BY <2>1, GivenIs, ZenonT(60)
  <2>3. /\ g.on = TRUE /\ g.recognition = r.recognition
        /\ g.leaked = r.leaked /\ g.hurried = r.hurried
    BY <2>1, GivenIs
  <2> QED BY <2>2, <2>3
<1> HIDE DEF g
<1>4. Single(g, T)
  BY <1>2, <1>3, FewerAreSingle
<1>5. Free(g, T, t.n)
  BY <1>2, <1>3 DEF Free
<1>6. ASSUME ~g.hurried, Starting(g) = {}, g.capture = NoCapture
      PROVE  Held(g) /\ g.on /\ ~g.recognition
  <2>1. Held(v)
    BY <1>2, <1>3, <1>6 DEF Minded
  <2>2. ~v.on
    BY <2>1, KindsOfRecordings DEF Held, Tidy, Captioned
  <2>3. ~v.recognition /\ ~v.leaked /\ v.mics = {}
    BY <2>1, <2>2 DEF Held, Tidy, Captioned
  <2>4. g.mics = {t.n} /\ g.stream # 0 /\ g.on /\ ~g.leaked /\ ~g.recognition
    BY <1>2, <1>3, <2>3
  <2>5. Tasks(v, {"start"}) = {} /\ Tasks(g, {"start"}) = {}
    <3>1. Tasks(v, {"start"}) \subseteq Starting(v)
      BY DEF Starting, Tasks
    <3>2. Tasks(g, {"start"}) \subseteq Starting(g)
      BY DEF Starting, Tasks
    <3>3. \A x \in Tasks(v, {"start"}) : x.kind = "start"
      BY DEF Tasks
    <3> QED BY <1>6, <2>1, <2>2, <3>1, <3>2, <3>3 DEF Held, Tidy, Captioned
  <2>6. v.ticks <= 0
    BY <1>2, <1>3, <1>6, <2>1, <2>5 DEF Held, Tidy, Captioned, InCapture, NoCapture
  <2> QED BY <1>2, <1>3, <1>6, <2>4, <2>5, <2>6 DEF Held, Tidy, Captioned, InCapture, NoCapture
<1>7. MayStart(g)
  BY <1>6 DEF MayStart
<1>8. Form(w) /\ Quieter(g, w) /\ Single(w, T) /\ Minded(w, T, u)
  BY <1>2, <1>3, <1>4, <1>5, <1>7, StartKeeps
<1> HIDE DEF w
<1>9. Quieter(v, w)
  <2>1. Quieter(v, r) /\ Quieter(r, g)
    BY <1>2, <1>3, SameIsQuieter
  <2> QED BY <1>8, <2>1, QuieterStill
<1> QED BY <1>1, <1>8, <1>9 DEF r

LEMMA DeniedKeeps ==
  ASSUME NEW v, NEW T, NEW u, Form(v), Single(v, T), Minded(v, T, u),
         NEW t \in Recordings(v), t.kind = "press"
  PROVE  LET w == Resume(v, t)
         IN  Form(w) /\ Quieter(v, w) /\ Single(w, T) /\ Minded(w, T, u)
<1> DEFINE w == Resume(v, t)
<1>1. /\ Form(w) /\ SamePlayback(v, w) /\ Recordings(w) = Recordings(v) \ {t}
      /\ w.presses = v.presses /\ w.stream = v.stream /\ w.mics = v.mics
      /\ w.capture = v.capture /\ w.ticks = v.ticks /\ w.cancelled = v.cancelled
      /\ w.on = v.on /\ w.recognition = v.recognition
      /\ w.leaked = v.leaked /\ w.hurried = v.hurried
      /\ Single(w, T)
  BY RecordingTaken
<1> HIDE DEF w
<1>2. ASSUME Held(v) PROVE Held(w) /\ ~w.on
  <2>1. ~v.on
    BY <1>2, KindsOfRecordings DEF Held, Tidy, Captioned
  <2>2. Tasks(w, {"start"}) = Tasks(v, {"start"}) /\ Starting(w) \subseteq Starting(v)
    <3>1. /\ Tasks(w, {"start"}) = {x \in Recordings(w) : x.kind = "start"}
          /\ Tasks(v, {"start"}) = {x \in Recordings(v) : x.kind = "start"}
          /\ Starting(w) = {x \in Recordings(w) : x.kind \in {"press", "start"}}
          /\ Starting(v) = {x \in Recordings(v) : x.kind \in {"press", "start"}}
      BY KindsOfRecordings
    <3> QED BY <1>1, <3>1
  <2>3. InCapture(w) <=> InCapture(v)
    BY <1>1, <2>2 DEF InCapture
  <2>4. ~v.recognition /\ v.capture.kind = "none"
    BY <1>2, <2>1 DEF Held, Tidy, Captioned
  <2> QED BY <1>1, <1>2, <2>1, <2>2, <2>3, <2>4 DEF Held, Tidy, Captioned
<1>3. Minded(w, T, u)
  BY <1>1, <1>2 DEF Minded
<1>4. Quieter(v, w)
  BY <1>1, SameIsQuieter
<1> QED BY <1>1, <1>3, <1>4 DEF w

LEMMA CaptureStartsKeeps ==
  ASSUME NEW v, NEW T, NEW u, Form(v), Single(v, T), Minded(v, T, u),
         NEW t \in Recordings(v), t.kind = "start",
         NEW kind \in {"pcm", "recorder"}, NEW has \in BOOLEAN, NEW w,
         w = IF kind = "recorder" /\ v.stream = 0 THEN Resume(v, t)
             ELSE CaptureStarted(Resume(v, t), t.n, kind, has)
  PROVE  Form(w) /\ Quieter(v, w) /\ Single(w, T) /\ Minded(w, T, u)
<1> DEFINE r == Resume(v, t)
<1>1. /\ Form(r) /\ SamePlayback(v, r) /\ Recordings(r) = Recordings(v) \ {t}
      /\ r.presses = v.presses /\ r.stream = v.stream /\ r.mics = v.mics
      /\ r.capture = v.capture /\ r.ticks = v.ticks /\ r.cancelled = v.cancelled
      /\ r.on = v.on /\ r.recognition = v.recognition
      /\ r.leaked = v.leaked /\ r.hurried = v.hurried
      /\ Single(r, T) /\ Free(r, T, t.n) /\ t.n \in Nat /\ t.n # 0
  BY RecordingTaken
<1>2. t \in Starting(v)
  BY KindsOfRecordings
<1>3. Held(v) => v.on /\ v.stream # 0 /\ ~v.recognition
  BY <1>2 DEF Held, Tidy, Captioned
<1>4. CASE kind = "recorder" /\ v.stream = 0
  <2>1. w = r
    BY <1>4
  <2> HIDE DEF r
  <2>2. Quieter(v, w)
    BY <1>1, <2>1, SameIsQuieter
  <2>3. v.hurried
    BY <1>3, <1>4 DEF Minded
  <2>4. Minded(w, T, u)
    BY <1>1, <2>1, <2>3 DEF Minded
  <2> QED BY <1>1, <2>1, <2>2, <2>4
<1>5. CASE ~(kind = "recorder" /\ v.stream = 0)
  <2> DEFINE c == [r EXCEPT !.capture = [kind |-> kind, press |-> t.n]]
  <2>1. w = startRecognition(c, has)
    BY <1>5, Zenon DEF CaptureStarted
  <2> HIDE DEF r
  <2>2. Form(r) /\ t.n \in Nat
    BY <1>1
  <2>3. /\ Form(c) /\ SamePlayback(r, c) /\ Recordings(c) = Recordings(r)
        /\ c.presses = r.presses /\ c.stream = r.stream /\ c.mics = r.mics
        /\ c.capture = [kind |-> kind, press |-> t.n]
        /\ c.ticks = r.ticks /\ c.cancelled = r.cancelled
    BY <2>2, StartedIs
  <2>4. /\ c.on = r.on /\ c.recognition = r.recognition
        /\ c.leaked = r.leaked /\ c.hurried = r.hurried
    BY <2>2, StartedIs
  <2> HIDE DEF c
  <2>7. /\ Form(w) /\ SamePlayback(c, w) /\ Recordings(w) = Recordings(c)
        /\ w.presses = c.presses /\ w.stream = c.stream /\ w.mics = c.mics
        /\ w.capture = c.capture
        /\ w.ticks = c.ticks /\ w.cancelled = c.cancelled
    BY <2>1, <2>3, RecognisedIs
  <2>8. /\ w.on = c.on /\ w.recognition = has
        /\ w.leaked = (c.leaked \/ c.recognition) /\ w.hurried = c.hurried
    BY <2>1, <2>3, RecognisedIs
  <2>9. /\ Recordings(w) = Recordings(v) \ {t}
        /\ w.presses = v.presses /\ w.stream = v.stream /\ w.mics = v.mics
        /\ w.capture.kind = kind /\ w.capture.press = t.n
        /\ w.ticks = v.ticks /\ w.cancelled = v.cancelled
    BY <1>1, <2>3, <2>7
  <2>10. /\ w.on = v.on /\ w.leaked = (v.leaked \/ v.recognition)
         /\ w.hurried = v.hurried
    BY <1>1, <2>4, <2>8, Zenon
  <2>11. Quieter(v, w)
    <3>1. Quieter(v, r) /\ Quieter(r, c) /\ Quieter(c, w)
      BY <1>1, <2>3, <2>7, SameIsQuieter
    <3> QED BY <3>1, QuieterStill
  <2>12. Single(w, T)
    <3>1. Recordings(w) = Recordings(r) /\ w.presses = r.presses /\ w.cancelled = r.cancelled
      BY <2>3, <2>7
    <3> QED BY <1>1, <2>9, <3>1, CaptureIsSingle
  <2>13. ASSUME Held(v) PROVE Held(w) /\ InCapture(w)
    <3>1. v.on /\ v.stream # 0 /\ ~v.recognition /\ Starting(v) = {t}
      BY <1>2, <1>3, <2>13 DEF Held, Tidy, Captioned
    <3>2. Starting(w) = {}
      <4>1. /\ Starting(w) = {x \in Recordings(w) : x.kind \in {"press", "start"}}
            /\ Starting(v) = {x \in Recordings(v) : x.kind \in {"press", "start"}}
        BY KindsOfRecordings
      <4> QED BY <2>9, <3>1, <4>1
    <3>3. InCapture(w) /\ w.capture.kind # "none"
      BY <2>9 DEF InCapture
    <3>4. w.ticks <= 1
      BY <2>9, <2>13 DEF Held, Tidy, Captioned, Form
    <3>5. ~w.leaked /\ w.on
      BY <2>10, <2>13, <3>1, Zenon DEF Held, Tidy, Captioned
    <3>6. w.mics = {w.stream} /\ w.stream # 0
      BY <2>9, <2>13, <3>1 DEF Held, Tidy, Captioned
    <3> QED BY <3>2, <3>3, <3>4, <3>5, <3>6 DEF Held, Tidy, Captioned
  <2>14. Minded(w, T, u)
    BY <2>10, <2>13 DEF Minded, Going
  <2> QED BY <2>7, <2>11, <2>12, <2>14
<1> QED BY <1>4, <1>5

(* Waiting for the recorder, or for the upload.                            *)
LEMMA AwaitKeeps ==
  ASSUME NEW v, NEW T, NEW u, NEW p \in Nat, NEW kind \in {"onstop", "upload"},
         Form(v), Single(v, T), Free(v, T, p), v.hurried \/ Tidy(v),
         v.recognition => v.hurried \/ (v.on /\ Starting(v) = {} /\ kind = "onstop")
  PROVE  LET w == Await(v, kind, p)
         IN  Form(w) /\ Quieter(v, w) /\ Single(w, T) /\ Minded(w, T, u)
<1> DEFINE w == Await(v, kind, p)
           x == Waiting(kind, p)
<1>1. /\ Form(w) /\ SamePlayback(v, w) /\ Recordings(w) = Recordings(v) \cup {x}
      /\ w.presses = v.presses /\ w.stream = v.stream /\ w.mics = v.mics
      /\ w.capture = v.capture /\ w.ticks = v.ticks /\ w.cancelled = v.cancelled
  BY AwaitedIs
<1>2. /\ w.on = v.on /\ w.recognition = v.recognition
      /\ w.leaked = v.leaked /\ w.hurried = v.hurried
  BY AwaitedIs
<1>3. x.n = p /\ x.kind = kind
  BY DEF Waiting
<1> HIDE DEF w, x
<1>4. Quieter(v, w)
  BY <1>1, SameIsQuieter
<1>5. Single(w, T)
  BY <1>1, <1>3, OneMoreIsSingle
<1>6. ASSUME ~v.hurried PROVE Held(w) /\ Tasks(w, {"onstop", "upload"}) # {}
  <2>1. /\ Starting(w) = {y \in Recordings(w) : y.kind \in {"press", "start"}}
        /\ Starting(v) = {y \in Recordings(v) : y.kind \in {"press", "start"}}
        /\ Tasks(w, {"start"}) = {y \in Recordings(w) : y.kind = "start"}
        /\ Tasks(v, {"start"}) = {y \in Recordings(v) : y.kind = "start"}
    BY KindsOfRecordings
  <2>2. /\ Tasks(w, {"onstop"}) = {t \in Recordings(w) : t.kind = "onstop"}
        /\ Tasks(w, {"onstop", "upload"}) =
             {t \in Recordings(w) : t.kind \in {"onstop", "upload"}}
    BY KindsOfRecordings
  <2>3. /\ Starting(w) = Starting(v) /\ Tasks(w, {"start"}) = Tasks(v, {"start"})
        /\ x \in Tasks(w, {"onstop", "upload"})
        /\ kind = "onstop" => x \in Tasks(w, {"onstop"})
    BY <1>1, <1>3, <2>1, <2>2
  <2>4. InCapture(w) <=> InCapture(v)
    BY <1>1, <2>3 DEF InCapture
  <2>5. Tidy(w)
    BY <1>1, <1>2, <1>6, <2>3, <2>4 DEF Tidy
  <2>6. Captioned(w)
    BY <1>2, <1>6, <2>3 DEF Captioned
  <2> QED BY <2>3, <2>5, <2>6 DEF Held
<1>7. Minded(w, T, u)
  BY <1>2, <1>6 DEF Minded, Going
<1> QED BY <1>1, <1>4, <1>5, <1>7 DEF w

LEMMA CapturedKeeps ==
  ASSUME NEW v, NEW T, NEW u, NEW p \in Nat, Form(v), Single(v, T), Free(v, T, p),
         v.hurried \/ Tidy(v), NEW outcome \in {"empty", "silence", "tiny", "speech"}
  PROVE  LET w == onCaptured(v, p, outcome)
         IN  Form(w) /\ Quieter(v, w) /\ Single(w, T) /\ Minded(w, T, u)
<1> DEFINE r == stopRecognition(v)
           w == onCaptured(v, p, outcome)
<1>1. /\ Form(r) /\ SamePlayback(v, r) /\ Recordings(r) = Recordings(v)
      /\ r.presses = v.presses /\ r.stream = v.stream /\ r.mics = v.mics
      /\ r.capture = v.capture /\ r.ticks = v.ticks /\ r.cancelled = v.cancelled
  BY UnrecognisedIs
<1>2. /\ r.on = v.on /\ r.recognition = FALSE
      /\ r.leaked = v.leaked /\ r.hurried = v.hurried
  BY UnrecognisedIs
<1>3. /\ outcome \in {"empty", "silence"} => w = endVoiceTurn(r)
      /\ outcome = "tiny" => w = IF r.on THEN startCapture(r, p) ELSE r
      /\ outcome = "speech" => w = Await(r, "upload", p)
  BY DEF onCaptured
<1> HIDE DEF r, w
<1>4. Single(r, T) /\ Free(r, T, p) /\ Quieter(v, r)
  <2>1. Single(r, T)
    BY <1>1, FewerAreSingle
  <2>2. Free(r, T, p)
    BY <1>1 DEF Free
  <2> QED BY <1>1, <2>1, <2>2, SameIsQuieter
<1>5. r.hurried \/ Held(r)
  <2>1. /\ Starting(r) = {y \in Recordings(r) : y.kind \in {"press", "start"}}
        /\ Starting(v) = {y \in Recordings(v) : y.kind \in {"press", "start"}}
        /\ Tasks(r, {"start"}) = {y \in Recordings(r) : y.kind = "start"}
        /\ Tasks(v, {"start"}) = {y \in Recordings(v) : y.kind = "start"}
    BY KindsOfRecordings
  <2>2. Starting(r) = Starting(v) /\ (InCapture(r) <=> InCapture(v))
    BY <1>1, <2>1 DEF InCapture
  <2>3. Tidy(v) => Tidy(r)
    BY <1>1, <1>2, <2>2 DEF Tidy
  <2>4. Captioned(r)
    BY <1>2 DEF Captioned
  <2> QED BY <1>2, <2>3, <2>4 DEF Held
<1>6. CASE outcome \in {"empty", "silence"}
  <2>1. Form(w) /\ Quieter(r, w) /\ Single(w, T) /\ Minded(w, T, u)
    BY <1>1, <1>3, <1>4, <1>5, <1>6, EndTurnKeeps
  <2> QED BY <1>4, <2>1, QuieterStill DEF w
<1>7. CASE outcome = "tiny" /\ r.on
  <2>1. MayStart(r)
    BY <1>2, <1>5, <1>7 DEF MayStart
  <2>2. Form(w) /\ Quieter(r, w) /\ Single(w, T) /\ Minded(w, T, u)
    BY <1>1, <1>3, <1>4, <1>7, <2>1, StartKeeps
  <2> QED BY <1>4, <2>2, QuieterStill DEF w
<1>8. CASE outcome = "tiny" /\ ~r.on
  <2>1. w = r
    BY <1>3, <1>8
  <2>2. Minded(w, T, u)
    BY <1>5, <1>8, <2>1 DEF Minded
  <2> QED BY <1>1, <1>4, <2>1, <2>2 DEF w
<1>9. CASE outcome = "speech"
  <2>1. r.hurried \/ Tidy(r)
    BY <1>5 DEF Held
  <2>2. ~r.recognition
    BY <1>2
  <2>3. Form(w) /\ Quieter(r, w) /\ Single(w, T) /\ Minded(w, T, u)
    BY <1>1, <1>3, <1>4, <1>9, <2>1, <2>2, AwaitKeeps
  <2> QED BY <1>4, <2>3, QuieterStill DEF w
<1> QED BY <1>6, <1>7, <1>8, <1>9

LEMMA EndpointKeeps ==
  ASSUME NEW v, NEW T, NEW u, Form(v), Single(v, T), Minded(v, T, u),
         v.on, v.capture.kind # "none", NEW outcome \in {"empty", "silence", "tiny", "speech"}
  PROVE  LET w == Endpoint(v, outcome)
         IN  Form(w) /\ Quieter(v, w) /\ Single(w, T) /\ Minded(w, T, u)
<1> DEFINE r == [v EXCEPT !.capture = NoCapture, !.ticks = @ - 1]
           p == v.capture.press
           w == Endpoint(v, outcome)
<1>1. /\ Form(r) /\ SamePlayback(v, r) /\ Recordings(r) = Recordings(v)
      /\ r.presses = v.presses /\ r.stream = v.stream /\ r.mics = v.mics
      /\ r.capture = NoCapture /\ r.ticks = v.ticks - 1 /\ r.cancelled = v.cancelled
  BY StoppedIs
<1>2. /\ r.on = v.on /\ r.recognition = v.recognition
      /\ r.leaked = v.leaked /\ r.hurried = v.hurried
  BY StoppedIs
<1>3. w = IF v.capture.kind = "pcm" THEN onCaptured(r, p, outcome) ELSE Await(r, "onstop", p)
  BY DEF Endpoint
<1> HIDE DEF r, w
<1>4. p \in Nat
  BY DEF Form
<1>5. Single(r, T)
  BY <1>1, FewerAreSingle DEF NoCapture
<1>6. Free(r, T, p)
  BY <1>1 DEF Single, Free, NoCapture
<1>7. Quieter(v, r)
  BY <1>1, SameIsQuieter
<1>8. ASSUME ~v.hurried PROVE Tidy(r) /\ Starting(r) = {}
  <2>1. Tidy(v) /\ Starting(v) = {}
    BY <1>8 DEF Minded, Held, Tidy
  <2>2. Starting(r) = {}
    <3>1. /\ Starting(r) = {y \in Recordings(r) : y.kind \in {"press", "start"}}
          /\ Starting(v) = {y \in Recordings(v) : y.kind \in {"press", "start"}}
      BY KindsOfRecordings
    <3> QED BY <1>1, <2>1, <3>1
  <2>3. r.ticks \in Int /\ r.ticks <= 0
    BY <1>1, <2>1 DEF Tidy, InCapture, Form
  <2>4. r.capture.kind = "none" /\ ~r.leaked
    BY <1>1, <1>2, <2>1 DEF NoCapture, Tidy
  <2> QED BY <1>1, <1>2, <2>1, <2>2, <2>3, <2>4 DEF Tidy
<1>9. CASE v.capture.kind = "pcm"
  <2>1. r.hurried \/ Tidy(r)
    BY <1>2, <1>8
  <2>2. Form(w) /\ Quieter(r, w) /\ Single(w, T) /\ Minded(w, T, u)
    BY <1>1, <1>3, <1>4, <1>5, <1>6, <1>9, <2>1, CapturedKeeps
  <2> QED BY <1>7, <2>2, QuieterStill DEF w
<1>10. CASE v.capture.kind # "pcm"
  <2>1. r.hurried \/ Tidy(r)
    BY <1>2, <1>8
  <2>2. r.recognition => r.hurried \/ (r.on /\ Starting(r) = {})
    BY <1>2, <1>8
  <2>3. Form(w) /\ Quieter(r, w) /\ Single(w, T) /\ Minded(w, T, u)
    BY <1>1, <1>3, <1>4, <1>5, <1>6, <1>10, <2>1, <2>2, AwaitKeeps
  <2> QED BY <1>7, <2>3, QuieterStill DEF w
<1> QED BY <1>9, <1>10

(* A recording was delivered, or uploaded.                                 *)
LEMMA DeliveredIsTidy ==
  ASSUME NEW v, NEW T, Form(v), Single(v, T), NEW t \in Recordings(v),
         t.kind \in {"onstop", "upload"}
  PROVE  LET r == Resume(v, t)
         IN  /\ Tidy(v) => Tidy(r)
             /\ Held(v) /\ t.kind = "upload" => Held(r)
<1> DEFINE r == Resume(v, t)
<1>1. /\ Recordings(r) = Recordings(v) \ {t}
      /\ r.stream = v.stream /\ r.mics = v.mics /\ r.capture = v.capture /\ r.ticks = v.ticks
  BY RecordingTaken
<1>2. r.on = v.on /\ r.recognition = v.recognition /\ r.leaked = v.leaked
  BY RecordingTaken
<1> HIDE DEF r
<1>3. /\ Starting(r) = {y \in Recordings(r) : y.kind \in {"press", "start"}}
      /\ Starting(v) = {y \in Recordings(v) : y.kind \in {"press", "start"}}
      /\ Tasks(r, {"start"}) = {y \in Recordings(r) : y.kind = "start"}
      /\ Tasks(v, {"start"}) = {y \in Recordings(v) : y.kind = "start"}
  BY KindsOfRecordings
<1>4. /\ Tasks(r, {"onstop"}) = {y \in Recordings(r) : y.kind = "onstop"}
      /\ Tasks(v, {"onstop"}) = {y \in Recordings(v) : y.kind = "onstop"}
  BY KindsOfRecordings
<1>5. Starting(r) = Starting(v) /\ Tasks(r, {"start"}) = Tasks(v, {"start"})
  BY <1>1, <1>3
<1>6. t.kind = "upload" => Tasks(r, {"onstop"}) = Tasks(v, {"onstop"})
  BY <1>1, <1>4
<1>7. InCapture(r) <=> InCapture(v)
  BY <1>1, <1>5 DEF InCapture
<1>8. Tidy(v) => Tidy(r)
  BY <1>1, <1>2, <1>5, <1>7 DEF Tidy
<1>9. Captioned(v) /\ t.kind = "upload" => Captioned(r)
  BY <1>1, <1>2, <1>5, <1>6 DEF Captioned
<1> QED BY <1>8, <1>9 DEF Held, r

LEMMA DeliveredKeeps ==
  ASSUME NEW v, NEW T, NEW u, Form(v), Single(v, T), Minded(v, T, u),
         NEW t \in Recordings(v), t.kind = "onstop",
         NEW outcome \in {"empty", "silence", "tiny", "speech"}
  PROVE  LET w == onCaptured(Resume(v, t), t.n, outcome)
         IN  Form(w) /\ Quieter(v, w) /\ Single(w, T) /\ Minded(w, T, u)
<1> DEFINE r == Resume(v, t)
           w == onCaptured(r, t.n, outcome)
<1>1. Form(r) /\ SamePlayback(v, r) /\ Single(r, T) /\ Free(r, T, t.n) /\ t.n \in Nat
  BY RecordingTaken
<1>2. r.hurried = v.hurried
  BY RecordingTaken
<1>3. Tidy(v) => Tidy(r)
  BY DeliveredIsTidy
<1> HIDE DEF r, w
<1>4. r.hurried \/ Tidy(r)
  BY <1>2, <1>3 DEF Minded, Held
<1>5. Form(w) /\ Quieter(r, w) /\ Single(w, T) /\ Minded(w, T, u)
  BY <1>1, <1>4, CapturedKeeps DEF w
<1>6. Quieter(v, r)
  BY <1>1, SameIsQuieter
<1> QED BY <1>5, <1>6, QuieterStill DEF w, r

LEMMA UploadEnds ==
  ASSUME NEW v, NEW T, NEW u, Form(v), Single(v, T), Minded(v, T, u),
         NEW t \in Recordings(v), t.kind = "upload"
  PROVE  LET r == Resume(v, t)
             w == endVoiceTurn(r)
         IN  /\ Form(r) /\ Quieter(v, r) /\ Single(r, T) /\ Free(r, T, t.n) /\ t.n \in Nat
             /\ (r.hurried \/ Held(r)) /\ (r.on <=> v.on)
             /\ Form(w) /\ Quieter(v, w) /\ Single(w, T) /\ Minded(w, T, u)
<1> DEFINE r == Resume(v, t)
           w == endVoiceTurn(r)
<1>1. Form(r) /\ SamePlayback(v, r) /\ Single(r, T) /\ Free(r, T, t.n) /\ t.n \in Nat
  BY RecordingTaken
<1>2. r.hurried = v.hurried /\ r.on = v.on
  BY RecordingTaken
<1>3. Held(v) => Held(r)
  BY DeliveredIsTidy
<1> HIDE DEF r
<1>4. r.hurried \/ Held(r)
  BY <1>2, <1>3 DEF Minded
<1>5. Form(w) /\ Quieter(r, w) /\ Single(w, T) /\ Minded(w, T, u)
  BY <1>1, <1>4, EndTurnKeeps
<1> HIDE DEF w
<1>6. Quieter(v, r)
  BY <1>1, SameIsQuieter
<1>7. Quieter(v, w)
  BY <1>5, <1>6, QuieterStill
<1> QED BY <1>1, <1>2, <1>4, <1>5, <1>6, <1>7 DEF w, r

(* Turns come and go.                                                      *)
LEMMA TurnIsSingle ==
  ASSUME NEW v, NEW T, NEW S, NEW r, Form(v), Single(v, T), S \subseteq T,
         r.press = 0 \/ Free(v, T, r.press)
  PROVE  Single(v, S \cup {r})
<1>1. v.presses \in Nat
  BY DEF Form
<1>2. 0 \in 0..v.presses /\ 0 \notin 1..v.presses /\ 1..v.presses \subseteq 0..v.presses
  BY <1>1
<1>3. /\ r.press \in 0..v.presses /\ r.press \notin v.cancelled
      /\ \A t \in Recordings(v) : r.press # t.n
      /\ v.capture.kind # "none" => r.press # v.capture.press
  BY <1>2 DEF Single, Free
<1> QED BY <1>3 DEF Single

(* stopPlayback() alone leaves the recordings as they are.                 *)
LEMMA HushKeeps ==
  ASSUME NEW v, NEW T, Form(v), Single(v, T)
  PROVE  LET w == stopPlayback(v)
         IN  /\ Form(w) /\ Quieter(v, w) /\ Single(w, T)
             /\ (OneChain(v) => Audible(w) = {}) /\ (w.hurried <=> v.hurried)
             /\ (w.on <=> v.on) /\ (Held(v) => Held(w))
             /\ (InCapture(w) <=> InCapture(v))
<1> DEFINE w == stopPlayback(v)
<1>1. Form(w) /\ Hushed(v, w) /\ SameRecording(v, w)
  BY StopPlayback
<1> HIDE DEF w
<1>2. Quieter(v, w) /\ Single(w, T) /\ (Held(v) => Held(w))
  BY <1>1, HushedIsQuieter, SameIsHeld
<1>3. OneChain(v) => Audible(w) = {}
  BY <1>1, HushedPlays
<1>4. (w.hurried <=> v.hurried) /\ (w.on <=> v.on)
  BY <1>1 DEF SameRecording
<1>5. InCapture(w) <=> InCapture(v)
  BY <1>1, KindsOfRecordings DEF SameRecording, InCapture
<1> QED BY <1>1, <1>2, <1>3, <1>4, <1>5 DEF w

-----------------------------------------------------------------------------
(* The presses that waited for the chunk, one after another.               *)
IsRun(f, v, n) == f = [k \in 0..n |-> IF k = 0 THEN v ELSE toggleVoice(f[k - 1])]

LEMMA RunExists ==
  ASSUME NEW v, NEW n \in Nat
  PROVE  \E f : IsRun(f, v, n)
<1> DEFINE Bad == {m \in Nat : ~ \E f : IsRun(f, v, m)}
<1>1. SUFFICES ASSUME Bad # {} PROVE FALSE
  OBVIOUS
<1>2. PICK m \in Bad : \A i \in Bad : m <= i
  BY <1>1, Smallest
<1>3. CASE m = 0
  <2> DEFINE f == [k \in 0..0 |-> v]
  <2>1. f = [k \in 0..0 |-> IF k = 0 THEN v ELSE toggleVoice(f[k - 1])]
    OBVIOUS
  <2>2. IsRun(f, v, 0)
    BY <2>1 DEF IsRun
  <2> QED BY <1>3, <2>2
<1>4. CASE m # 0
  <2>1. m \in Nat /\ m - 1 \in Nat /\ m - 1 \notin Bad
    BY <1>2, <1>4
  <2>2. PICK f : IsRun(f, v, m - 1)
    BY <2>1
  <2> DEFINE g == [k \in 0..m |-> IF k = m THEN toggleVoice(f[m - 1]) ELSE f[k]]
  <2>3. \A k \in 0..m - 1 : f[k] = IF k = 0 THEN v ELSE toggleVoice(f[k - 1])
    BY <2>2 DEF IsRun
  <2>4. \A k \in 0..m : g[k] = IF k = 0 THEN v ELSE toggleVoice(g[k - 1])
    <3>1. TAKE k \in 0..m
    <3>2. CASE k = m
      BY <1>4, <2>1, <3>2
    <3>3. CASE k # m
      <4>1. k \in 0..m - 1 /\ (k # 0 => k - 1 \in 0..m /\ k - 1 # m)
        BY <2>1, <3>3
      <4> QED BY <2>3, <3>3, <4>1
    <3> QED BY <3>2, <3>3
  <2>5. g = [k \in 0..m |-> g[k]]
    OBVIOUS
  <2> HIDE DEF g
  <2>6. g = [k \in 0..m |-> IF k = 0 THEN v ELSE toggleVoice(g[k - 1])]
    BY <2>4, <2>5
  <2>7. IsRun(g, v, m)
    BY <2>6 DEF IsRun
  <2> QED BY <1>2, <2>7
<1> QED BY <1>3, <1>4

LEMMA RunKeeps ==
  ASSUME NEW v, NEW T, NEW u, Form(v), Single(v, T), Minded(v, T, u), NEW n \in Nat,
         NEW f, IsRun(f, v, n)
  PROVE  Form(f[n]) /\ Quieter(v, f[n]) /\ Single(f[n], T) /\ Minded(f[n], T, u)
<1> DEFINE Good(w) == Form(w) /\ Quieter(v, w) /\ Single(w, T) /\ Minded(w, T, u)
           Bad == {k \in 0..n : ~Good(f[k])}
<1>0. \A k \in 0..n : f[k] = IF k = 0 THEN v ELSE toggleVoice(f[k - 1])
  BY DEF IsRun
<1>1. SUFFICES ASSUME Bad # {} PROVE FALSE
  OBVIOUS
<1>2. PICK m \in Bad : \A i \in Bad : m <= i
  <2>1. Bad \in SUBSET Nat
    OBVIOUS
  <2> QED BY <1>1, <2>1, Smallest
<1>3. m # 0
  <2>1. Quieter(v, v)
    BY DEF Quieter
  <2> QED BY <1>0, <1>2, <2>1
<1>4. m - 1 \in 0..n /\ m - 1 \notin Bad
  BY <1>2, <1>3
<1> DEFINE x == f[m - 1]
           w == toggleVoice(x)
<1>5. Form(x) /\ Quieter(v, x) /\ Single(x, T) /\ Minded(x, T, u)
  BY <1>4
<1>6. f[m] = w
  BY <1>0, <1>2, <1>3
<1> HIDE DEF x
<1>7. Form(w) /\ Quieter(x, w) /\ Single(w, T) /\ Minded(w, T, u)
  BY <1>5, ToggleKeeps
<1> HIDE DEF w
<1>8. Quieter(v, w)
  BY <1>5, <1>7, QuieterStill
<1> QED BY <1>2, <1>6, <1>7, <1>8

LEMMA WaitingPressesKeep ==
  ASSUME Form(voice), Single(voice, turns), Minded(voice, turns, unfinished),
         panel.waiting \in Nat, VoiceLoads
  PROVE  /\ Form(voice') /\ Quieter(voice, voice') /\ Single(voice', turns)
         /\ Minded(voice', turns, unfinished)
<1> DEFINE toggled[k \in 0..panel.waiting] ==
             IF k = 0 THEN voice ELSE toggleVoice(toggled[k - 1])
<1>1. voice' = toggled[panel.waiting]
  BY DEF VoiceLoads
<1>2. toggled = CHOOSE f : IsRun(f, voice, panel.waiting)
  BY Zenon DEF IsRun
<1> HIDE DEF toggled
<1>3. IsRun(toggled, voice, panel.waiting)
  BY <1>2, RunExists
<1> QED BY <1>1, <1>3, RunKeeps

-----------------------------------------------------------------------------
(* The page.                                                               *)
PanelRecord == [open : BOOLEAN, chunk : {"none", "loading", "ready"}, waiting : Nat]
TurnRecord == [id : Nat, voice : BOOLEAN, press : Nat, reset : BOOLEAN]

(* What the page is made of, but for the voice.                            *)
Framed ==
  /\ panel \in PanelRecord /\ turns \subseteq TurnRecord /\ lastTurn \in Nat
  /\ said \in Seq(Nat) /\ retracted \subseteq DOMAIN said

(* Without the chunk nothing is said, heard or asked for.                  *)
Voiceless ==
  panel.chunk # "ready" =>
    /\ voice.tasks = {} /\ voice.queue = <<>> /\ voice.sounding = {} /\ ~voice.on
    /\ \A r \in turns : ~r.voice

Spoken ==
  voice.raced \/ voice.garbled \/ (OneChain(voice) /\ Audible(voice) \cap retracted = {})

Recorded == Single(voice, turns) /\ Minded(voice, turns, unfinished)

Page == Framed /\ Voiceless /\ Form(voice) /\ Heeded(voice) /\ Spoken /\ Recorded

(* Nothing more is heard.                                                  *)
NoLouder(v, w) ==
  /\ (v.raced => w.raced) /\ (v.garbled => w.garbled)
  /\ OneChain(v) /\ ~w.raced /\ ~w.garbled => OneChain(w) /\ Audible(w) \subseteq Audible(v)
  /\ Heeded(v) => Heeded(w)

LEMMA QuietIsNoLouder ==
  ASSUME NEW v, NEW w, Quieter(v, w)
  PROVE  NoLouder(v, w)
BY Zenon DEF Quieter, NoLouder

LEMMA PlayIsNoLouder ==
  ASSUME NEW v, NEW w, Plays(v, w, {})
  PROVE  NoLouder(v, w)
<1>1. (v.raced => w.raced) /\ (v.garbled => w.garbled)
  BY Zenon DEF Plays
<1>2. OneChain(v) /\ ~w.raced /\ ~w.garbled => OneChain(w) /\ Audible(w) \subseteq Audible(v) \cup {}
  BY Zenon DEF Plays
<1>3. Heeded(v) => Heeded(w)
  BY Zenon DEF Plays
<1>4. OneChain(v) /\ ~w.raced /\ ~w.garbled => OneChain(w) /\ Audible(w) \subseteq Audible(v)
  BY <1>2
<1> QED BY <1>1, <1>3, <1>4, Zenon DEF NoLouder

LEMMA SpokenStays ==
  ASSUME Spoken, NoLouder(voice, voice'), retracted' = retracted
  PROVE  Spoken'
<1> DEFINE v == voice
           w == voice'
<1> HIDE DEF v, w
<1>1. v.raced \/ v.garbled \/ (OneChain(v) /\ Audible(v) \cap retracted = {})
  BY DEF Spoken, v
<1>2. (v.raced => w.raced) /\ (v.garbled => w.garbled)
  BY Zenon DEF NoLouder, v, w
<1>3. OneChain(v) /\ ~w.raced /\ ~w.garbled => OneChain(w) /\ Audible(w) \subseteq Audible(v)
  BY Zenon DEF NoLouder, v, w
<1>4. w.raced \/ w.garbled \/ (OneChain(w) /\ Audible(w) \cap retracted = {})
  <2>1. SUFFICES ASSUME ~w.raced, ~w.garbled PROVE OneChain(w) /\ Audible(w) \cap retracted = {}
    OBVIOUS
  <2>2. OneChain(v) /\ Audible(v) \cap retracted = {}
    BY <1>1, <1>2, <2>1, Zenon
  <2>3. OneChain(w) /\ Audible(w) \subseteq Audible(v)
    BY <1>3, <2>1, <2>2, Zenon
  <2> QED BY <2>2, <2>3
<1> QED BY <1>4 DEF Spoken, w

(* A step of the voice alone, once its chunk has come.                     *)
LEMMA VoiceStep ==
  ASSUME Page, panel.chunk = "ready", UNCHANGED <<panel, turnVars>>,
         Form(voice'), NoLouder(voice, voice'), Single(voice', turns),
         Minded(voice', turns, unfinished)
  PROVE  Page'
<1>1. Framed' /\ Voiceless'
  BY DEF Page, Framed, Voiceless, turnVars
<1>2. Spoken'
  BY SpokenStays DEF Page, turnVars
<1>3. Heeded(voice')
  BY DEF Page, NoLouder
<1>4. Recorded'
  BY DEF Recorded, turnVars
<1> QED BY <1>1, <1>2, <1>3, <1>4 DEF Page

LEMMA QuietStep ==
  ASSUME Page, panel.chunk = "ready", UNCHANGED <<panel, turnVars>>,
         Form(voice'), Quieter(voice, voice'), Single(voice', turns),
         Minded(voice', turns, unfinished)
  PROVE  Page'
BY VoiceStep, QuietIsNoLouder

LEMMA PlayStep ==
  ASSUME Page, panel.chunk = "ready", UNCHANGED <<panel, turnVars>>,
         Plays(voice, voice', {})
  PROVE  Page'
<1>1. Form(voice')
  BY Zenon DEF Plays
<1>2. Form(voice) /\ Heeded(voice) /\ Single(voice, turns) /\ Minded(voice, turns, unfinished)
  BY DEF Page, Recorded
<1>3. Single(voice', turns) /\ Minded(voice', turns, unfinished)
  BY <1>2, PlaysKeeps
<1> QED BY <1>1, <1>3, PlayIsNoLouder, VoiceStep

(* A step of the panel alone.                                              *)
LEMMA PanelStep ==
  ASSUME Page, panel' \in PanelRecord, UNCHANGED <<voice, turnVars>>,
         panel'.chunk # "ready" => panel.chunk # "ready"
  PROVE  Page'
<1>1. Framed' /\ Voiceless'
  BY DEF Page, Framed, Voiceless, turnVars
<1>2. Spoken'
  BY DEF Page, Spoken, turnVars
<1>3. Recorded'
  BY DEF Page, Recorded, turnVars
<1> QED BY <1>1, <1>2, <1>3 DEF Page

(* A step of the turns alone.                                              *)
LEMMA TurnStep ==
  ASSUME Page, UNCHANGED <<voice, panel, said, retracted>>,
         turns' \subseteq TurnRecord, lastTurn' \in Nat,
         \A r \in turns' : r.voice => r \in turns,
         Single(voice, turns'), Minded(voice, turns', unfinished')
  PROVE  Page'
<1>1. Framed' /\ Voiceless'
  BY DEF Page, Framed, Voiceless
<1>2. Spoken'
  BY DEF Page, Spoken
<1>3. Recorded'
  BY DEF Page, Recorded
<1> QED BY <1>1, <1>2, <1>3 DEF Page

LEMMA QuietForm ==
  ASSUME NEW n \in Nat
  PROVE  LET w == [Quiet EXCEPT !.presses = n]
         IN  /\ Form(w) /\ w.tasks = {} /\ w.queue = <<>> /\ w.sounding = {} /\ w.playing = 0
             /\ w.mics = {} /\ w.stream = 0 /\ w.ticks = 0 /\ w.capture = NoCapture
             /\ w.cancelled = {} /\ w.presses = n
             /\ ~w.on /\ ~w.busy /\ ~w.leaked /\ ~w.recognition /\ ~w.hurried
<1> DEFINE w == [Quiet EXCEPT !.presses = n]
<1>1. /\ DOMAIN w = VoiceFields /\ w.tasks = {} /\ w.queue = <<>> /\ w.sounding = {}
      /\ w.playing = 0 /\ w.mics = {} /\ w.stream = 0 /\ w.ticks = 0
      /\ w.capture = NoCapture /\ w.cancelled = {} /\ w.presses = n
  BY DEF Quiet, VoiceFields, NoCapture
<1>2. /\ w.on = FALSE /\ w.busy = FALSE /\ w.leaked = FALSE /\ w.recognition = FALSE
      /\ w.hurried = FALSE /\ w.raced = FALSE /\ w.garbled = FALSE
  BY DEF Quiet
<1> HIDE DEF w
<1>3. Form(w)
  <2>1. w.on \in BOOLEAN /\ w.busy \in BOOLEAN /\ w.recognition \in BOOLEAN
        /\ w.leaked \in BOOLEAN /\ w.raced \in BOOLEAN /\ w.garbled \in BOOLEAN
        /\ w.hurried \in BOOLEAN
    BY <1>2
  <2>2. /\ w.presses \in Nat /\ w.ticks \in Int /\ w.queue \in Seq(Nat)
        /\ w.capture \in [kind : {"none", "pcm", "recorder"}, press : Nat]
        /\ w.capture.kind = "none" => w.capture = NoCapture
        /\ w.tasks \subseteq VoiceTask
    BY <1>1 DEF NoCapture
  <2>3. (\A t \in Recordings(w) : ~t.stale) /\ \A t \in Tasks(w, {"paused"}) : t.stale
    BY <1>1 DEF Recordings, Tasks
  <2> QED BY <1>1, <2>1, <2>2, <2>3, Zenon DEF Form
<1> QED BY <1>1, <1>2, <1>3 DEF w

LEMMA QuietPage ==
  ASSUME NEW n \in Nat
  PROVE  LET w == [Quiet EXCEPT !.presses = n]
         IN  /\ Form(w) /\ Heeded(w) /\ OneChain(w) /\ Audible(w) = {}
             /\ Single(w, {}) /\ \A u : Minded(w, {}, u)
             /\ w.tasks = {} /\ w.queue = <<>> /\ w.sounding = {} /\ ~w.on
<1> DEFINE w == [Quiet EXCEPT !.presses = n]
<1>1. /\ Form(w) /\ w.tasks = {} /\ w.queue = <<>> /\ w.sounding = {} /\ w.playing = 0
      /\ w.mics = {} /\ w.stream = 0 /\ w.ticks = 0 /\ w.capture = NoCapture
      /\ w.cancelled = {} /\ w.presses = n
      /\ ~w.on /\ ~w.busy /\ ~w.leaked /\ ~w.recognition /\ ~w.hurried
  BY QuietForm
<1> HIDE DEF w
<1>2. /\ Recordings(w) = {} /\ Live(w) = {} /\ Starting(w) = {} /\ Tasks(w, {"begin"}) = {}
      /\ Tasks(w, {"start"}) = {}
  BY <1>1 DEF Recordings, Live, Loading, Starting, Tasks
<1>3. ~Sounds(w)
  BY <1>1, <1>2 DEF Sounds
<1>4. Heeded(w)
  BY <1>1 DEF Heeded
<1>5. OneChain(w)
  BY <1>1, <1>2, <1>3 DEF OneChain
<1>6. Audible(w) = {}
  BY <1>1, <1>2 DEF Audible, Queued
<1>7. Single(w, {})
  BY <1>1, <1>2 DEF Single, NoCapture
<1>8. \A u : Minded(w, {}, u)
  BY <1>1, <1>2 DEF Minded, Held, Tidy, Captioned, InCapture, NoCapture
<1> QED BY <1>1, <1>4, <1>5, <1>6, <1>7, <1>8 DEF w

LEMMA PageInit == Init => Page
<1> SUFFICES ASSUME Init PROVE Page
  OBVIOUS
<1>1. Quiet = [Quiet EXCEPT !.presses = 0]
  BY DEF Quiet
<1> DEFINE w == [Quiet EXCEPT !.presses = 0]
<1>0. /\ Form(w) /\ Heeded(w) /\ OneChain(w) /\ Audible(w) = {}
      /\ Single(w, {}) /\ \A u : Minded(w, {}, u)
      /\ w.tasks = {} /\ w.queue = <<>> /\ w.sounding = {} /\ ~w.on
  BY QuietPage
<1> HIDE DEF w
<1>1a. voice = w
  BY <1>1 DEF Init, w
<1>2. /\ Form(voice) /\ Heeded(voice) /\ OneChain(voice) /\ Audible(voice) = {}
      /\ Single(voice, {}) /\ \A u : Minded(voice, {}, u)
      /\ voice.tasks = {} /\ voice.queue = <<>> /\ voice.sounding = {} /\ ~voice.on
  BY <1>0, <1>1a, Zenon
<1>3. Framed /\ Voiceless
  BY <1>2 DEF Init, Framed, Voiceless, PanelRecord
<1>4. Spoken
  BY <1>2 DEF Spoken
<1>5. Recorded
  BY <1>2 DEF Recorded, Init
<1> QED BY <1>2, <1>3, <1>4, <1>5 DEF Page

-----------------------------------------------------------------------------
(* Steps of the panel and of the microphone.                               *)
LEMMA ToggleStep ==
  ASSUME Page, NEW p \in PanelRecord, p.chunk = panel.chunk, WithToggle(p), UNCHANGED turnVars
  PROVE  Page'
<1>1. Form(voice) /\ Single(voice, turns) /\ Minded(voice, turns, unfinished)
  BY DEF Page, Recorded
<1>2. CASE p.chunk = "ready"
  <2>1. voice' = toggleVoice(voice) /\ panel' = p
    BY <1>2 DEF WithToggle
  <2>2. /\ Form(voice') /\ Quieter(voice, voice') /\ Single(voice', turns)
        /\ Minded(voice', turns, unfinished)
    BY <1>1, <2>1, ToggleKeeps
  <2>3. Framed' /\ Voiceless'
    BY <1>2, <2>1 DEF Page, Framed, Voiceless, turnVars
  <2>4. Spoken' /\ Heeded(voice')
    <3>1. NoLouder(voice, voice')
      BY <2>2, QuietIsNoLouder
    <3> QED BY <3>1, SpokenStays DEF Page, turnVars, NoLouder
  <2>5. Recorded'
    BY <2>2 DEF Recorded, turnVars
  <2> QED BY <2>2, <2>3, <2>4, <2>5 DEF Page
<1>3. CASE p.chunk # "ready"
  <2>1. panel' = [p EXCEPT !.chunk = "loading", !.waiting = @ + 1] /\ UNCHANGED voice
    BY <1>3 DEF WithToggle
  <2>2. p.open \in BOOLEAN /\ p.waiting + 1 \in Nat
    BY DEF PanelRecord
  <2>3. panel' = [open |-> p.open, chunk |-> "loading", waiting |-> p.waiting + 1]
    BY <2>1 DEF PanelRecord
  <2>4. panel' \in PanelRecord
    BY <2>2, <2>3 DEF PanelRecord
  <2> QED BY <1>3, <2>1, <2>4, PanelStep
<1> QED BY <1>2, <1>3

LEMMA PanelSteps ==
  ASSUME Page
  PROVE  /\ Open => Page'
         /\ Close => Page'
         /\ PressMic => Page'
         /\ PrefetchVoice => Page'
         /\ VoiceFailsToLoad => Page'
<1>1. panel \in PanelRecord
  BY DEF Page, Framed
<1>2. ASSUME Open PROVE Page'
  <2> DEFINE p == [panel EXCEPT !.open = TRUE]
  <2>1. p \in PanelRecord /\ p.chunk = panel.chunk
    BY <1>1 DEF PanelRecord
  <2>2. CASE voice.on
    <3>1. panel' = p /\ UNCHANGED <<voice, turnVars>>
      BY <1>2, <2>2 DEF Open
    <3> QED BY <2>1, <3>1, PanelStep
  <2>3. CASE ~voice.on
    <3>1. WithToggle(p) /\ UNCHANGED turnVars
      BY <1>2, <2>3 DEF Open
    <3> QED BY <2>1, <3>1, ToggleStep
  <2> QED BY <2>2, <2>3
<1>3. ASSUME Close PROVE Page'
  <2>1. panel' = [panel EXCEPT !.open = FALSE] /\ UNCHANGED <<voice, turnVars>>
    BY <1>3 DEF Close
  <2>2. panel' \in PanelRecord /\ panel'.chunk = panel.chunk
    BY <1>1, <2>1 DEF PanelRecord
  <2> QED BY <2>1, <2>2, PanelStep
<1>4. ASSUME PressMic PROVE Page'
  BY <1>1, <1>4, ToggleStep DEF PressMic
<1>5. ASSUME PrefetchVoice PROVE Page'
  <2>1. panel' = [panel EXCEPT !.chunk = "loading"] /\ panel.chunk = "none"
        /\ UNCHANGED <<voice, turnVars>>
    BY <1>5 DEF PrefetchVoice
  <2>2. panel' \in PanelRecord
    BY <1>1, <2>1 DEF PanelRecord
  <2> QED BY <2>1, <2>2, PanelStep
<1>6. ASSUME VoiceFailsToLoad PROVE Page'
  <2>1. panel' = [panel EXCEPT !.chunk = "none", !.waiting = 0] /\ panel.chunk = "loading"
        /\ UNCHANGED <<voice, turnVars>>
    BY <1>6 DEF VoiceFailsToLoad
  <2>2. panel' \in PanelRecord
    BY <1>1, <2>1 DEF PanelRecord
  <2> QED BY <2>1, <2>2, PanelStep
<1> QED BY <1>2, <1>3, <1>4, <1>5, <1>6

LEMMA LoadStep ==
  ASSUME Page, VoiceLoads
  PROVE  Page'
<1>1. /\ panel \in PanelRecord /\ panel' = [panel EXCEPT !.chunk = "ready", !.waiting = 0]
      /\ UNCHANGED turnVars
  BY DEF Page, Framed, VoiceLoads
<1>2. panel' \in PanelRecord /\ panel'.chunk = "ready"
  BY <1>1 DEF PanelRecord
<1>3. /\ Form(voice') /\ Quieter(voice, voice') /\ Single(voice', turns)
      /\ Minded(voice', turns, unfinished)
  <2>1. panel.waiting \in Nat
    BY <1>1 DEF PanelRecord
  <2> QED BY <2>1, WaitingPressesKeep DEF Page, Recorded
<1>4. Spoken' /\ Heeded(voice')
  <2>1. NoLouder(voice, voice')
    BY <1>3, QuietIsNoLouder
  <2> QED BY <1>1, <2>1, SpokenStays DEF Page, turnVars, NoLouder
<1>5. Framed' /\ Voiceless'
  BY <1>1, <1>2 DEF Page, Framed, Voiceless, turnVars
<1>6. Recorded'
  BY <1>1, <1>3 DEF Recorded, turnVars
<1> QED BY <1>3, <1>4, <1>5, <1>6 DEF Page

LEMMA NavigateStep ==
  ASSUME Page, Navigate
  PROVE  Page'
<1> DEFINE w == [Quiet EXCEPT !.presses = voice.presses]
<1>1. voice.presses \in Nat /\ panel \in PanelRecord
  BY DEF Page, Form, Framed
<1>2. /\ Form(w) /\ Heeded(w) /\ OneChain(w) /\ Audible(w) = {}
      /\ Single(w, {}) /\ \A u : Minded(w, {}, u)
      /\ w.tasks = {} /\ w.queue = <<>> /\ w.sounding = {} /\ ~w.on
  BY <1>1, QuietPage
<1>3. /\ voice' = w /\ turns' = {} /\ panel' = [panel EXCEPT !.chunk = "none", !.waiting = 0]
      /\ UNCHANGED <<lastTurn, said, retracted>>
  BY DEF Navigate
<1> HIDE DEF w
<1>4. panel' \in PanelRecord
  BY <1>1, <1>3 DEF PanelRecord
<1>5. Framed' /\ Voiceless'
  BY <1>2, <1>3, <1>4 DEF Page, Framed, Voiceless
<1>6. Spoken'
  BY <1>2, <1>3 DEF Spoken
<1>7. Recorded'
  BY <1>2, <1>3 DEF Recorded
<1>8. Form(voice') /\ Heeded(voice')
  BY <1>2, <1>3
<1> QED BY <1>5, <1>6, <1>7, <1>8 DEF Page

LEMMA MicSteps ==
  ASSUME Page, NEW t \in voice.tasks
  PROVE  /\ MicGranted(t) => Page'
         /\ MicDenied(t) => Page'
         /\ CaptureStarts(t) => Page'
         /\ RecorderStopped(t) => Page'
         /\ NotTranscribed(t) => Page'
<1>1. Form(voice) /\ Single(voice, turns) /\ Minded(voice, turns, unfinished)
  BY DEF Page, Recorded
<1>2. panel.chunk = "ready"
  BY DEF Page, Voiceless
<1>3. ASSUME MicGranted(t) PROVE Page'
  <2>1. t \in Recordings(voice) /\ t.kind = "press"
    BY <1>3 DEF MicGranted, Recordings, Tasks
  <2>2. voice' = Granted(Resume(voice, t), t.n) /\ UNCHANGED <<panel, turnVars>>
    BY <1>3 DEF MicGranted
  <2> QED BY <1>1, <1>2, <2>1, <2>2, GrantedKeeps, QuietStep
<1>4. ASSUME MicDenied(t) PROVE Page'
  <2>1. t \in Recordings(voice) /\ t.kind = "press"
    BY <1>4 DEF MicDenied, Recordings, Tasks
  <2>2. voice' = Resume(voice, t) /\ UNCHANGED <<panel, turnVars>>
    BY <1>4 DEF MicDenied
  <2> QED BY <1>1, <1>2, <2>1, <2>2, DeniedKeeps, QuietStep
<1>5. ASSUME CaptureStarts(t) PROVE Page'
  <2>1. t \in Recordings(voice) /\ t.kind = "start" /\ UNCHANGED <<panel, turnVars>>
    BY <1>5 DEF CaptureStarts, Recordings, Tasks
  <2>2. PICK kind \in {"pcm", "recorder"}, has \in BOOLEAN :
          voice' = IF kind = "recorder" /\ voice.stream = 0 THEN Resume(voice, t)
                   ELSE CaptureStarted(Resume(voice, t), t.n, kind, has)
    BY <1>5 DEF CaptureStarts
  <2>3. /\ Form(voice') /\ Quieter(voice, voice') /\ Single(voice', turns)
        /\ Minded(voice', turns, unfinished)
    BY <1>1, <2>1, <2>2, CaptureStartsKeeps
  <2> QED BY <1>2, <2>1, <2>3, QuietStep
<1>6. ASSUME RecorderStopped(t) PROVE Page'
  <2>1. t \in Recordings(voice) /\ t.kind = "onstop" /\ UNCHANGED <<panel, turnVars>>
    BY <1>6 DEF RecorderStopped, Recordings, Tasks
  <2>2. PICK o \in Outcome : voice' = onCaptured(Resume(voice, t), t.n, o)
    BY <1>6 DEF RecorderStopped
  <2>3. o \in {"empty", "silence", "tiny", "speech"}
    BY <2>2 DEF Outcome
  <2>4. /\ Form(voice') /\ Quieter(voice, voice') /\ Single(voice', turns)
        /\ Minded(voice', turns, unfinished)
    BY <1>1, <2>1, <2>2, <2>3, DeliveredKeeps
  <2> QED BY <1>2, <2>1, <2>4, QuietStep
<1>7. ASSUME NotTranscribed(t) PROVE Page'
  <2>1. t \in Recordings(voice) /\ t.kind = "upload" /\ UNCHANGED <<panel, turnVars>>
    BY <1>7 DEF NotTranscribed, Recordings, Tasks
  <2>2. voice' = endVoiceTurn(Resume(voice, t))
    BY <1>7 DEF NotTranscribed
  <2>3. /\ Form(voice') /\ Quieter(voice, voice') /\ Single(voice', turns)
        /\ Minded(voice', turns, unfinished)
    BY <1>1, <2>1, <2>2, UploadEnds
  <2> QED BY <1>2, <2>1, <2>3, QuietStep
<1> QED BY <1>3, <1>4, <1>5, <1>6, <1>7

LEMMA StopStep ==
  ASSUME Page, PressStop
  PROVE  Page'
<1>1. Form(voice) /\ Single(voice, turns) /\ Minded(voice, turns, unfinished)
  BY DEF Page, Recorded
<1>2. voice.on /\ voice' = stopVoice(voice) /\ UNCHANGED <<panel, turnVars>>
  BY DEF PressStop
<1>3. panel.chunk = "ready"
  BY <1>2 DEF Page, Voiceless
<1>4. voice.hurried \/ Held(voice)
  BY <1>1 DEF Minded
<1>5. /\ Form(voice') /\ Quieter(voice, voice') /\ Single(voice', turns)
      /\ Minded(voice', turns, unfinished)
  BY <1>1, <1>2, <1>4, StopKeeps
<1> QED BY <1>2, <1>3, <1>5, QuietStep

LEMMA EndpointStep ==
  ASSUME Page, EndpointFires
  PROVE  Page'
<1>1. Form(voice) /\ Single(voice, turns) /\ Minded(voice, turns, unfinished)
  BY DEF Page, Recorded
<1>2. voice.on /\ voice.capture.kind # "none" /\ UNCHANGED <<panel, turnVars>>
  BY DEF EndpointFires
<1>3. panel.chunk = "ready"
  BY <1>2 DEF Page, Voiceless
<1>4. PICK o \in Outcome : voice' = Endpoint(voice, o)
  BY DEF EndpointFires
<1>5. o \in {"empty", "silence", "tiny", "speech"}
  BY <1>4 DEF Outcome
<1>6. /\ Form(voice') /\ Quieter(voice, voice') /\ Single(voice', turns)
      /\ Minded(voice', turns, unfinished)
  BY <1>1, <1>2, <1>4, <1>5, EndpointKeeps
<1> QED BY <1>2, <1>3, <1>6, QuietStep

-----------------------------------------------------------------------------
(* Steps of the playback and of the turns.                                 *)
LEMMA PlaybackSteps ==
  ASSUME Page, NEW t \in voice.tasks
  PROVE  /\ SpeechOpens(t) => Page'
         /\ SpeechFetched(t) => Page'
         /\ SpeechBegins(t) => Page'
         /\ PausedBeforeItBegan(t) => Page'
<1>1. Form(voice) /\ panel.chunk = "ready"
  BY DEF Page, Voiceless
<1>2. ASSUME SpeechOpens(t) PROVE Page'
  <2>1. t \in Speech(voice) /\ t.kind = "open" /\ UNCHANGED <<panel, turnVars>>
        /\ voice' \in {Opened(Resume(voice, t), t), Refused(Resume(voice, t), t)}
    BY <1>2 DEF SpeechOpens, Speech, Tasks
  <2>2. Plays(voice, voice', {})
    BY <1>1, <2>1, OpensPlays
  <2> QED BY <1>1, <2>1, <2>2, PlayStep
<1>3. ASSUME SpeechFetched(t) PROVE Page'
  <2>1. t \in Speech(voice) /\ t.kind = "fetch" /\ UNCHANGED <<panel, turnVars>>
        /\ voice' \in {Fetched(Resume(voice, t), t), Failed(Resume(voice, t), t)}
    BY <1>3 DEF SpeechFetched, Speech, Tasks
  <2>2. Plays(voice, voice', {})
    BY <1>1, <2>1, FetchPlays
  <2> QED BY <1>1, <2>1, <2>2, PlayStep
<1>4. ASSUME SpeechBegins(t) PROVE Page'
  <2>1. t \in Speech(voice) /\ t.kind = "begin" /\ UNCHANGED <<panel, turnVars>>
        /\ voice' \in {Begun(Resume(voice, t), t), Failed(Resume(voice, t), t),
                       Undecodable(Resume(voice, t))}
    BY <1>4 DEF SpeechBegins, Speech, Tasks
  <2>2. Plays(voice, voice', {})
    BY <1>1, <2>1, BeginPlays
  <2> QED BY <1>1, <2>1, <2>2, PlayStep
<1>5. ASSUME PausedBeforeItBegan(t) PROVE Page'
  <2>1. t \in Speech(voice) /\ voice' = Failed(Resume(voice, t), t)
        /\ UNCHANGED <<panel, turnVars>>
    BY <1>5 DEF PausedBeforeItBegan, Speech, Tasks
  <2>2. Plays(voice, voice', {})
    BY <1>1, <2>1, FailedPlays
  <2> QED BY <1>1, <2>1, <2>2, PlayStep
<1> QED BY <1>2, <1>3, <1>4, <1>5

LEMMA EndStep ==
  ASSUME Page, NEW s \in voice.sounding, SpeechEnds(s)
  PROVE  Page'
<1>1. Form(voice) /\ panel.chunk = "ready"
  BY DEF Page, Voiceless
<1>2. voice' = Ended(voice, s) /\ UNCHANGED <<panel, turnVars>>
  BY DEF SpeechEnds
<1>3. Plays(voice, voice', {})
  BY <1>1, <1>2, EndsPlays
<1> QED BY <1>1, <1>2, <1>3, PlayStep

(* A sentence announced now has not been retracted.                        *)
LEMMA SpeakStep ==
  ASSUME Page, NEW r \in turns, SpeakFrame(r)
  PROVE  Page'
<1> DEFINE s == Len(said) + 1
           v == voice
           w == voice'
<1>1. /\ r.voice /\ said' = Append(said, r.id) /\ voice' = enqueueSpeech(voice, s)
      /\ UNCHANGED <<panel, turns, lastTurn, retracted, unfinished>>
  BY DEF SpeakFrame
<1>2. said \in Seq(Nat) /\ retracted \subseteq DOMAIN said /\ r.id \in Nat
  BY DEF Page, Framed, TurnRecord
<1>3. s \in Nat /\ s \notin retracted /\ said' \in Seq(Nat) /\ DOMAIN said \subseteq DOMAIN said'
  BY <1>1, <1>2
<1> HIDE DEF s
<1>4. Form(v) /\ Heeded(v) /\ Single(v, turns) /\ Minded(v, turns, unfinished)
  BY DEF Page, Recorded
<1>5. Plays(v, w, {s})
  BY <1>1, <1>3, <1>4, EnqueuePlays
<1>6. Spoken'
  <2> HIDE DEF v, w
  <2>1. v.raced \/ v.garbled \/ (OneChain(v) /\ Audible(v) \cap retracted = {})
    BY DEF Page, Spoken, v
  <2>2. (v.raced => w.raced) /\ (v.garbled => w.garbled)
    BY <1>5, Zenon DEF Plays
  <2>3. OneChain(v) /\ ~w.raced /\ ~w.garbled => OneChain(w) /\ Audible(w) \subseteq Audible(v) \cup {s}
    BY <1>5, Zenon DEF Plays
  <2>4. w.raced \/ w.garbled \/ (OneChain(w) /\ Audible(w) \cap retracted = {})
    <3>1. SUFFICES ASSUME ~w.raced, ~w.garbled PROVE OneChain(w) /\ Audible(w) \cap retracted = {}
      OBVIOUS
    <3>2. OneChain(v) /\ Audible(v) \cap retracted = {}
      BY <2>1, <2>2, <3>1, Zenon
    <3>3. OneChain(w) /\ Audible(w) \subseteq Audible(v) \cup {s}
      BY <2>3, <3>1, <3>2, Zenon
    <3> QED BY <1>3, <3>2, <3>3
  <2> QED BY <1>1, <2>4 DEF Spoken, w
<1>7. Form(w) /\ Heeded(w)
  BY <1>4, <1>5, Zenon DEF Plays
<1>8. Recorded'
  <2>1. Single(w, turns) /\ Minded(w, turns, unfinished)
    BY <1>4, <1>5, PlaysKeeps
  <2> QED BY <1>1, <2>1 DEF Recorded
<1>9. Framed'
  BY <1>1, <1>2, <1>3 DEF Page, Framed
<1>10. Voiceless'
  BY <1>1 DEF Page, Voiceless
<1> QED BY <1>6, <1>7, <1>8, <1>9, <1>10 DEF Page

LEMMA ResetStep ==
  ASSUME Page, NEW r \in turns, ResetFrame(r)
  PROVE  Page'
<1> DEFINE x == [r EXCEPT !.reset = TRUE]
           v == voice
           w == voice'
           T == turns'
<1>1. /\ T = (turns \ {r}) \cup {x}
      /\ retracted' = retracted \cup {s \in DOMAIN said : said[s] = r.id}
      /\ w = IF panel.chunk = "ready" THEN stopPlayback(v) ELSE v
      /\ unfinished' = (unfinished \/ (voice.on /\ ~r.voice))
      /\ UNCHANGED <<panel, lastTurn, said>>
  BY DEF ResetFrame
<1>2. r \in TurnRecord
  BY DEF Page, Framed
<1>3. x \in TurnRecord /\ x.press = r.press /\ x.voice = r.voice
  BY <1>2 DEF TurnRecord
<1> HIDE DEF x
<1>4. Form(v) /\ Heeded(v) /\ Single(v, turns) /\ Minded(v, turns, unfinished)
  BY DEF Page, Recorded
<1>5. Single(v, T)
  BY <1>1, <1>3, <1>4 DEF Single
<1>6. v.on => (unfinished' \/ \E q \in T : q.voice)
  BY <1>1, <1>3
<1>7. /\ Form(w) /\ Heeded(w) /\ Single(w, T) /\ (w.hurried <=> v.hurried)
      /\ (w.on <=> v.on) /\ (Held(v) => Held(w))
  <2>1. CASE panel.chunk = "ready"
    <3>1. w = stopPlayback(v)
      BY <1>1, <2>1
    <3> HIDE DEF w
    <3> QED BY <1>4, <1>5, <3>1, HushKeeps DEF Quieter
  <2>2. CASE panel.chunk # "ready"
    <3>1. w = v
      BY <1>1, <2>2
    <3> QED BY <1>4, <1>5, <3>1
  <2> QED BY <2>1, <2>2
<1>8. Spoken'
  <2>1. CASE panel.chunk = "ready"
    <3>1. w = stopPlayback(v)
      BY <1>1, <2>1
    <3>2. Spoken
      BY DEF Page
    <3> HIDE DEF v, w
    <3>3. /\ w.raced = v.raced /\ w.garbled = v.garbled
          /\ OneChain(v) => OneChain(w) /\ Audible(w) = {}
      BY <1>4, <3>1, HushKeeps, Zenon DEF Quieter
    <3>4. v.raced \/ v.garbled \/ OneChain(v)
      BY <3>2 DEF Spoken, v
    <3>5. w.raced \/ w.garbled \/ (OneChain(w) /\ Audible(w) = {})
      BY <3>3, <3>4, Zenon
    <3> QED BY <3>5 DEF Spoken, w
  <2>2. CASE panel.chunk # "ready"
    <3>1. w = v
      BY <1>1, <2>2
    <3>2. v.tasks = {} /\ v.queue = <<>> /\ v.sounding = {}
      BY <2>2 DEF Page, Voiceless
    <3>3. Audible(v) = {}
      BY <3>2 DEF Audible, Queued, Live, Loading, Tasks
    <3> QED BY <3>1, <3>3 DEF Page, Spoken
  <2> QED BY <2>1, <2>2
<1>9. Recorded'
  BY <1>1, <1>4, <1>6, <1>7 DEF Recorded, Minded, Going
<1>10. Framed'
  BY <1>1, <1>3 DEF Page, Framed
<1>11. Voiceless'
  BY <1>1, <1>3 DEF Page, Voiceless
<1> QED BY <1>7, <1>8, <1>9, <1>10, <1>11 DEF Page

LEMMA SubmitStep ==
  ASSUME Page, Submit
  PROVE  Page'
<1> DEFINE open == {r \in turns : r.id # inflight}
           new == Turn(lastTurn + 1, FALSE, 0)
<1>1. /\ Stream(open, FALSE, 0) /\ UNCHANGED <<voice, panel, said, retracted>>
      /\ unfinished' = (unfinished \/ \E r \in turns : (r.id = inflight /\ Lost(r)))
  BY DEF Submit
<1>2. /\ Form(voice) /\ Single(voice, turns) /\ Minded(voice, turns, unfinished)
      /\ turns \subseteq TurnRecord /\ lastTurn \in Nat
  BY DEF Page, Recorded, Framed
<1>3. new \in TurnRecord /\ new.press = 0 /\ ~new.voice
  BY <1>2 DEF Turn, TurnRecord
<1>4. (turns' = open /\ lastTurn' = lastTurn) \/ (turns' = open \cup {new} /\ lastTurn' = lastTurn + 1)
  BY <1>1 DEF Stream
<1> HIDE DEF new
<1>5. turns' \subseteq TurnRecord /\ lastTurn' \in Nat /\ \A r \in turns' : r.voice => r \in turns
  BY <1>2, <1>3, <1>4
<1>6. Single(voice, turns')
  <2>1. Single(voice, open)
    BY <1>2, FewerAreSingle
  <2>2. Single(voice, open \cup {new})
    BY <1>2, <1>3, TurnIsSingle
  <2> QED BY <1>4, <2>1, <2>2
<1>7. Minded(voice, turns', unfinished')
  <2>1. voice.on /\ Going(voice, turns) => unfinished' \/ Going(voice, turns')
    BY <1>1, <1>4 DEF Going, Lost
  <2> QED BY <1>1, <1>2, <2>1 DEF Minded
<1> QED BY <1>1, <1>5, <1>6, <1>7, TurnStep

LEMMA TranscribedStep ==
  ASSUME Page, NEW t \in voice.tasks, Transcribed(t)
  PROVE  Page'
<1> DEFINE v == voice
           r == Resume(voice, t)
           new == Turn(lastTurn + 1, TRUE, t.n)
<1>1. /\ t.kind = "upload" /\ voice' = r /\ Stream(turns, TRUE, t.n)
      /\ unfinished' = (unfinished \/ (suspended /\ v.on))
      /\ UNCHANGED <<panel, said, retracted>>
  BY DEF Transcribed
<1>2. /\ Form(v) /\ Heeded(v) /\ Single(v, turns) /\ Minded(v, turns, unfinished)
      /\ turns \subseteq TurnRecord /\ lastTurn \in Nat
  BY DEF Page, Recorded, Framed
<1>3. t \in Recordings(v)
  BY <1>1 DEF Recordings, Tasks
<1>4. /\ Form(r) /\ Quieter(v, r) /\ Single(r, turns) /\ Free(r, turns, t.n) /\ t.n \in Nat
      /\ (r.hurried \/ Held(r)) /\ (r.on <=> v.on)
  BY <1>1, <1>2, <1>3, UploadEnds
<1>5. new \in TurnRecord /\ new.press = t.n /\ new.voice
  BY <1>2, <1>4 DEF Turn, TurnRecord
<1>6. \/ suspended /\ turns' = turns /\ lastTurn' = lastTurn
      \/ ~suspended /\ turns' = turns \cup {new} /\ lastTurn' = lastTurn + 1
  BY <1>1 DEF Stream
<1> HIDE DEF new, r
<1>7. Single(r, turns')
  <2>1. Single(r, turns \cup {new})
    BY <1>4, <1>5, TurnIsSingle
  <2> QED BY <1>4, <1>6, <2>1
<1>8. Minded(r, turns', unfinished')
  BY <1>1, <1>4, <1>5, <1>6 DEF Minded, Going
<1>9. Framed' /\ Voiceless'
  <2>1. panel.chunk = "ready"
    BY DEF Page, Voiceless
  <2> QED BY <1>1, <1>2, <1>5, <1>6, <2>1 DEF Page, Framed, Voiceless
<1>10. Spoken' /\ Heeded(voice')
  <2>1. NoLouder(voice, voice')
    BY <1>1, <1>4, QuietIsNoLouder
  <2> QED BY <1>1, <2>1, SpokenStays DEF Page, NoLouder
<1> QED BY <1>1, <1>4, <1>7, <1>8, <1>9, <1>10 DEF Page, Recorded

(* Its ticks run while something is recorded, so the turn still goes on.   *)
LEMMA BargeStep ==
  ASSUME Page, BargeIn
  PROVE  Page'
<1> DEFINE v == voice
           w == stopPlayback(voice)
<1>1. /\ v.on /\ v.ticks > 0 /\ voice' = w /\ turns' \subseteq turns
      /\ UNCHANGED <<panel, lastTurn, said, retracted, unfinished>>
  BY DEF BargeIn
<1>2. Form(v) /\ Single(v, turns) /\ Minded(v, turns, unfinished)
  BY DEF Page, Recorded
<1>3. /\ Form(w) /\ Quieter(v, w) /\ Single(w, turns) /\ (w.hurried <=> v.hurried)
      /\ (w.on <=> v.on) /\ (Held(v) => Held(w)) /\ (InCapture(w) <=> InCapture(v))
  BY <1>2, HushKeeps
<1> HIDE DEF w
<1>4. Single(w, turns')
  BY <1>1, <1>3, FewerAreSingle
<1>5. Minded(w, turns', unfinished)
  <2>1. Held(v) => InCapture(v)
    <3>1. v.ticks \in Int
      BY <1>2 DEF Form
    <3> QED BY <1>1, <3>1 DEF Held, Tidy
  <2> QED BY <1>2, <1>3, <2>1 DEF Minded, Going
<1>6. Framed' /\ Voiceless'
  BY <1>1 DEF Page, Framed, Voiceless
<1>7. Spoken' /\ Heeded(voice')
  <2>1. NoLouder(voice, voice')
    BY <1>1, <1>3, QuietIsNoLouder
  <2> QED BY <1>1, <2>1, SpokenStays DEF Page, NoLouder
<1> QED BY <1>1, <1>3, <1>4, <1>5, <1>6, <1>7 DEF Page, Recorded

LEMMA DoneStep ==
  ASSUME Page, NEW r \in turns, DoneFrame(r)
  PROVE  Page'
<1> DEFINE v == voice
<1>1. /\ turns' = turns \ {r} /\ UNCHANGED <<panel, lastTurn, said, retracted, unfinished>>
      /\ voice' = IF r.voice /\ ~isSpeaking(v) THEN endVoiceTurn(v) ELSE v
  BY DEF DoneFrame, CloseResponse
<1>2. /\ Form(v) /\ Heeded(v) /\ Single(v, turns) /\ Minded(v, turns, unfinished)
      /\ turns \subseteq TurnRecord /\ lastTurn \in Nat
  BY DEF Page, Recorded, Framed
<1>3. Single(v, turns')
  BY <1>1, <1>2, FewerAreSingle
<1>4. CASE r.voice /\ ~isSpeaking(v)
  <2>1. voice' = endVoiceTurn(v)
    BY <1>1, <1>4
  <2>2. v.hurried \/ Held(v)
    BY <1>2 DEF Minded
  <2>3. /\ Form(voice') /\ Quieter(v, voice') /\ Single(voice', turns')
        /\ Minded(voice', turns', unfinished')
    <3> HIDE DEF v
    <3> QED BY <1>2, <1>3, <2>1, <2>2, EndTurnKeeps
  <2>4. panel.chunk = "ready"
    BY <1>4 DEF Page, Voiceless
  <2>5. Framed' /\ Voiceless'
    BY <1>1, <2>4 DEF Page, Framed, Voiceless
  <2>6. Spoken' /\ Heeded(voice')
    <3>1. NoLouder(voice, voice')
      BY <2>3, QuietIsNoLouder
    <3> QED BY <1>1, <3>1, SpokenStays DEF Page, NoLouder
  <2> QED BY <2>3, <2>5, <2>6 DEF Page, Recorded
<1>5. CASE ~(r.voice /\ ~isSpeaking(v))
  <2>1. voice' = voice
    BY <1>1, <1>5, Zenon
  <2>2. Minded(v, turns', unfinished')
    <3>1. r.voice => Sounds(v)
      BY <1>2, <1>5 DEF isSpeaking, Heeded
    <3> QED BY <1>1, <1>2, <3>1 DEF Minded, Going
  <2> QED BY <1>1, <1>2, <1>3, <2>1, <2>2, TurnStep
<1> QED BY <1>4, <1>5

LEMMA FailStep ==
  ASSUME Page, NEW r \in turns, StreamFails(r)
  PROVE  Page'
<1>1. /\ turns' = turns \ {r} /\ UNCHANGED <<voice, panel, lastTurn, said, retracted>>
      /\ unfinished' = (unfinished \/ Lost(r))
  BY DEF StreamFails, CloseResponse
<1>2. /\ Form(voice) /\ Single(voice, turns) /\ Minded(voice, turns, unfinished)
      /\ turns \subseteq TurnRecord /\ lastTurn \in Nat
  BY DEF Page, Recorded, Framed
<1>3. Single(voice, turns')
  BY <1>1, <1>2, FewerAreSingle
<1>4. Minded(voice, turns', unfinished')
  <2>1. voice.on /\ Going(voice, turns) => unfinished' \/ Going(voice, turns')
    BY <1>1 DEF Going, Lost
  <2> QED BY <1>1, <1>2, <2>1 DEF Minded
<1> QED BY <1>1, <1>2, <1>3, <1>4, TurnStep

LEMMA PageStep == Page /\ [Next]_vars => Page'
<1> SUFFICES ASSUME Page, [Next]_vars PROVE Page'
  OBVIOUS
<1>1. CASE Open \/ Close \/ PressMic \/ PrefetchVoice \/ VoiceFailsToLoad
  BY <1>1, PanelSteps
<1>2. CASE PressStop
  BY <1>2, StopStep
<1>3. CASE VoiceLoads
  BY <1>3, LoadStep
<1>4. CASE Navigate
  BY <1>4, NavigateStep
<1>5. CASE Submit
  BY <1>5, SubmitStep
<1>6. ASSUME NEW t \in voice.tasks,
             MicGranted(t) \/ MicDenied(t) \/ CaptureStarts(t) \/ RecorderStopped(t)
               \/ NotTranscribed(t)
      PROVE  Page'
  BY <1>6, MicSteps
<1>7. ASSUME NEW t \in voice.tasks, Transcribed(t) PROVE Page'
  BY <1>7, TranscribedStep
<1>8. ASSUME NEW t \in voice.tasks,
             SpeechOpens(t) \/ SpeechFetched(t) \/ SpeechBegins(t) \/ PausedBeforeItBegan(t)
      PROVE  Page'
  BY <1>8, PlaybackSteps
<1>9. CASE EndpointFires
  BY <1>9, EndpointStep
<1>10. CASE BargeIn
  BY <1>10, BargeStep
<1>11. ASSUME NEW r \in turns, SpeakFrame(r) \/ ResetFrame(r) \/ DoneFrame(r) \/ StreamFails(r)
       PROVE  Page'
  BY <1>11, SpeakStep, ResetStep, DoneStep, FailStep
<1>12. ASSUME NEW s \in voice.sounding, SpeechEnds(s) PROVE Page'
  BY <1>12, EndStep
<1>13. CASE UNCHANGED vars
  <2>1. panel \in PanelRecord /\ UNCHANGED <<panel, voice, turnVars>>
    BY <1>13 DEF vars, turnVars, Page, Framed
  <2> QED BY <2>1, PanelStep
<1> QED
  BY <1>1, <1>2, <1>3, <1>4, <1>5, <1>6, <1>7, <1>8, <1>9, <1>10, <1>11, <1>12, <1>13 DEF Next

LEMMA PageAlways == Spec => []Page
BY PageInit, PageStep, PTL DEF Spec

(* Two sentences never sound at once, for any number of sentences, turns   *)
(* and presses: enqueueSpeech() gates on busy, and what one chain carries  *)
(* is one sentence, being opened, being fetched or sounding.               *)
THEOREM PageHasOneVoice == Spec => []OneVoiceAtATime
<1>1. Page => OneVoiceAtATime
  <2> SUFFICES ASSUME Page, ~voice.raced, ~voice.garbled
               PROVE  Cardinality(voice.sounding) <= 1
    BY DEF OneVoiceAtATime
  <2>1. voice.sounding \subseteq {voice.playing}
    BY DEF Page, Spoken, OneChain
  <2>2. CASE voice.sounding = {}
    <3>1. Cardinality(voice.sounding) = 0
      BY <2>2, FS_EmptySet, Zenon
    <3> QED BY <3>1
  <2>3. CASE voice.sounding # {}
    <3>1. voice.sounding = {voice.playing}
      BY <2>1, <2>3
    <3>2. Cardinality(voice.sounding) = 1
      BY <3>1, FS_Singleton, Zenon
    <3> QED BY <3>2
  <2> QED BY <2>2, <2>3
<1> QED BY <1>1, PageAlways, PTL

(* A sentence whose turn was reset is not heard again, wherever it was in  *)
(* the chain: the reset empties the chain, and what was being fetched for  *)
(* it is stale when it comes.                                              *)
THEOREM RetractedSpeechIsSilent == Spec => []RetractedIsSilent
<1>1. Page => RetractedIsSilent
  BY DEF Page, Spoken, RetractedIsSilent, Audible
<1> QED BY <1>1, PageAlways, PTL

(* When all that was begun has come to its end the microphone is off and   *)
(* its tracks are stopped.                                                 *)
THEOREM MicrophoneIsReleased == Spec => []MicIsReleased
<1>1. Page => MicIsReleased
  <2> SUFFICES ASSUME Page, Idle, ~unfinished, ~voice.hurried
               PROVE  ~voice.on /\ voice.mics = {} /\ ~voice.recognition /\ ~voice.leaked
    BY DEF MicIsReleased
  <2>1. Held(voice) /\ (voice.on => Going(voice, turns))
    BY DEF Page, Recorded, Minded
  <2>2. ~Going(voice, turns)
    BY DEF Idle, Going, InCapture, Sounds, Live, Loading, Tasks
  <2> QED BY <2>1, <2>2 DEF Held, Tidy, Captioned
<1> QED BY <1>1, PageAlways, PTL

(* A recording that was tapped off is never uploaded and never a turn: a   *)
(* press has one recording at most, and it is no other task's by then.     *)
LEMMA NothingCancelledIsSent == Page => CancelledIsNotSent
<1> SUFFICES ASSUME Page PROVE CancelledIsNotSent
  OBVIOUS
<1>1. Single(voice, turns)
  BY DEF Page, Recorded
<1> QED BY <1>1 DEF Single, CancelledIsNotSent, Recordings, Tasks

-----------------------------------------------------------------------------
(* The recording.                                                          *)

(* How long the counted of some frames are: the sum there is.              *)
IsSum(sum, frames, counted, n) ==
  /\ sum \in [0..n -> Nat]
  /\ \A i \in 0..n :
       sum[i] = IF i = 0 THEN 0 ELSE sum[i - 1] + IF i \in counted THEN frames[i].dt ELSE 0

Timed(frames) == Len(frames) \in Nat /\ \A i \in 1..Len(frames) : frames[i].dt \in Nat

LEMMA SumExists ==
  ASSUME NEW frames, NEW counted, Timed(frames)
  PROVE  \E sum : IsSum(sum, frames, counted, Len(frames))
<1> DEFINE L == Len(frames)
           Bad == {m \in 0..L : ~ \E sum : IsSum(sum, frames, counted, m)}
<1>1. SUFFICES ASSUME Bad # {} PROVE FALSE
  BY DEF Timed
<1>2. PICK m \in Bad : \A i \in Bad : m <= i
  <2>1. Bad \in SUBSET Nat
    BY DEF Timed
  <2> QED BY <1>1, <2>1, Smallest
<1>3. CASE m = 0
  <2> DEFINE f == [k \in 0..0 |-> 0]
  <2>1. IsSum(f, frames, counted, 0)
    BY DEF IsSum
  <2> QED BY <1>2, <1>3, <2>1
<1>4. CASE m # 0
  <2>1. m \in 1..L /\ m - 1 \in 0..L /\ m - 1 \notin Bad
    BY <1>2, <1>4 DEF Timed
  <2>2. PICK f : IsSum(f, frames, counted, m - 1)
    BY <2>1
  <2> DEFINE last == f[m - 1] + IF m \in counted THEN frames[m].dt ELSE 0
             g == [k \in 0..m |-> IF k = m THEN last ELSE f[k]]
  <2>3. /\ f \in [0..m - 1 -> Nat]
        /\ \A k \in 0..m - 1 :
             f[k] = IF k = 0 THEN 0 ELSE f[k - 1] + IF k \in counted THEN frames[k].dt ELSE 0
    BY <2>2 DEF IsSum
  <2>4. last \in Nat
    BY <2>1, <2>3 DEF Timed
  <2>5. g \in [0..m -> Nat]
    BY <2>1, <2>3, <2>4
  <2>6. \A k \in 0..m :
          g[k] = IF k = 0 THEN 0 ELSE g[k - 1] + IF k \in counted THEN frames[k].dt ELSE 0
    <3>1. TAKE k \in 0..m
    <3>2. CASE k = m
      BY <1>4, <2>1, <3>2
    <3>3. CASE k # m
      <4>1. k \in 0..m - 1 /\ (k # 0 => k - 1 \in 0..m /\ k - 1 # m)
        BY <2>1, <3>3
      <4> QED BY <2>3, <3>3, <4>1
    <3> QED BY <3>2, <3>3
  <2> HIDE DEF g
  <2>7. IsSum(g, frames, counted, m)
    BY <2>5, <2>6 DEF IsSum
  <2> QED BY <1>2, <2>7
<1> QED BY <1>3, <1>4

LEMMA DurationIs ==
  ASSUME NEW frames, NEW counted, Timed(frames)
  PROVE  \E sum : /\ IsSum(sum, frames, counted, Len(frames))
                  /\ Duration(frames, counted) = sum[Len(frames)]
<1> DEFINE L == Len(frames)
           is(f) == f = [i \in 0..L |-> IF i = 0 THEN 0
                                        ELSE f[i - 1] + IF i \in counted THEN frames[i].dt ELSE 0]
           sum == CHOOSE f : is(f)
<1>1. PICK f : IsSum(f, frames, counted, L)
  BY SumExists
<1>2. is(f)
  BY <1>1 DEF IsSum
<1>3. is(sum)
  BY <1>2
<1>4. Duration(frames, counted) = sum[L]
  BY DEF Duration
<1>5. \A i \in 0..L :
        sum[i] = IF i = 0 THEN 0 ELSE sum[i - 1] + IF i \in counted THEN frames[i].dt ELSE 0
  BY <1>3
<1>6. sum \in [0..L -> Nat]
  <2> HIDE DEF sum
  <2> DEFINE Bad == {i \in 0..L : sum[i] \notin Nat}
  <2>1. Bad = {}
    <3> SUFFICES ASSUME Bad # {} PROVE FALSE
      OBVIOUS
    <3>1. PICK m \in Bad : \A i \in Bad : m <= i
      <4>1. Bad \in SUBSET Nat
        BY DEF Timed
      <4> QED BY <4>1, Smallest
    <3>2. m # 0
      BY <1>5, <3>1
    <3>3. m \in 1..L /\ m - 1 \in 0..L /\ sum[m - 1] \in Nat
      BY <3>1, <3>2 DEF Timed
    <3>4. sum[m] = sum[m - 1] + IF m \in counted THEN frames[m].dt ELSE 0
      BY <1>5, <3>2, <3>3
    <3> QED BY <3>1, <3>3, <3>4 DEF Timed
  <2> QED BY <1>3, <2>1
<1> QED BY <1>4, <1>5, <1>6 DEF IsSum

(* More frames counted is no less time, of frames that are longer.         *)
LEMMA DurationGrows ==
  ASSUME NEW s, NEW t, NEW c, NEW d, Timed(s), Timed(t), Len(s) <= Len(t),
         \A i \in 1..Len(s) : s[i].dt = t[i].dt /\ (i \in c => i \in d)
  PROVE  Duration(s, c) <= Duration(t, d)
<1>1. PICK f : IsSum(f, s, c, Len(s)) /\ Duration(s, c) = f[Len(s)]
  BY DurationIs
<1>2. PICK g : IsSum(g, t, d, Len(t)) /\ Duration(t, d) = g[Len(t)]
  BY DurationIs
<1>3. Len(s) \in Nat /\ Len(t) \in Nat /\ f \in [0..Len(s) -> Nat] /\ g \in [0..Len(t) -> Nat]
  BY <1>1, <1>2 DEF IsSum, Timed
<1> DEFINE at(i) == IF i <= Len(s) THEN f[i] ELSE f[Len(s)]
           Bad == {i \in 0..Len(t) : ~(at(i) <= g[i])}
<1>4. Bad = {}
  <2> SUFFICES ASSUME Bad # {} PROVE FALSE
    OBVIOUS
  <2>1. PICK m \in Bad : \A i \in Bad : m <= i
    <3>1. Bad \in SUBSET Nat
      BY <1>3
    <3> QED BY <3>1, Smallest
  <2>2. m # 0
    <3>1. f[0] = 0 /\ g[0] = 0
      BY <1>1, <1>2, <1>3 DEF IsSum
    <3> QED BY <1>3, <2>1, <3>1
  <2>3. m \in 1..Len(t) /\ m - 1 \in 0..Len(t) /\ m - 1 \notin Bad
    BY <1>3, <2>1, <2>2
  <2>4. at(m - 1) <= g[m - 1]
    BY <2>3
  <2>5. g[m] = g[m - 1] + (IF m \in d THEN t[m].dt ELSE 0) /\ t[m].dt \in Nat
    BY <1>2, <2>2, <2>3 DEF IsSum, Timed
  <2>6. CASE m <= Len(s)
    <3>1. m \in 1..Len(s) /\ m \in 0..Len(s)
      BY <1>3, <2>3, <2>6
    <3>2. f[m] = f[m - 1] + (IF m \in c THEN s[m].dt ELSE 0) /\ s[m].dt = t[m].dt
      BY <1>1, <2>2, <3>1 DEF IsSum
    <3>3. f[m - 1] <= g[m - 1] /\ ~(f[m] <= g[m])
      BY <1>3, <2>1, <2>3, <2>4, <2>6
    <3>4. f[m] \in Nat /\ f[m - 1] \in Nat /\ g[m] \in Nat /\ g[m - 1] \in Nat
      <4>1. m - 1 \in 0..Len(s) /\ m \in 0..Len(t)
        BY <1>3, <2>3, <3>1
      <4> QED BY <1>3, <2>3, <3>1, <4>1
    <3>5. m \in c => m \in d
      BY <3>1
    <3> QED BY <2>5, <3>2, <3>3, <3>4, <3>5
  <2>7. CASE ~(m <= Len(s))
    <3>1. at(m) = at(m - 1)
      BY <1>3, <2>3, <2>7
    <3>2. ~(at(m) <= g[m]) /\ at(m) \in Nat
      BY <1>3, <2>1, <2>7
    <3>3. g[m] \in Nat /\ g[m - 1] \in Nat
      BY <1>3, <2>3
    <3> HIDE DEF at
    <3> QED BY <2>4, <2>5, <3>1, <3>2, <3>3
  <2> QED BY <2>6, <2>7
<1>5. at(Len(t)) = f[Len(s)] /\ Len(t) \in 0..Len(t)
  BY <1>3
<1>6. f[Len(s)] <= g[Len(t)]
  BY <1>4, <1>5
<1> QED BY <1>1, <1>2, <1>6

(* A frame more.                                                           *)
OneMore(s, c, t, d) ==
  /\ Duration(s, c) \in Nat /\ Duration(t, d) \in Nat
  /\ Len(t) \in d => Duration(t, d) = Duration(s, c) + t[Len(t)].dt
  /\ Len(t) \notin d => Duration(t, d) = Duration(s, c)

LEMMA DurationOfMore ==
  ASSUME NEW s, NEW t, NEW c, NEW d, Timed(s), Timed(t), Len(t) = Len(s) + 1,
         \A i \in 1..Len(s) : s[i].dt = t[i].dt /\ (i \in c <=> i \in d)
  PROVE  OneMore(s, c, t, d)
<1>1. PICK f : IsSum(f, s, c, Len(s)) /\ Duration(s, c) = f[Len(s)]
  BY DurationIs
<1>2. PICK g : IsSum(g, t, d, Len(t)) /\ Duration(t, d) = g[Len(t)]
  BY DurationIs
<1>3. Len(s) \in Nat /\ Len(t) \in Nat /\ f \in [0..Len(s) -> Nat] /\ g \in [0..Len(t) -> Nat]
  BY <1>1, <1>2 DEF IsSum, Timed
<1> DEFINE Bad == {i \in 0..Len(s) : f[i] # g[i]}
<1>4. Bad = {}
  <2> SUFFICES ASSUME Bad # {} PROVE FALSE
    OBVIOUS
  <2>1. PICK m \in Bad : \A i \in Bad : m <= i
    <3>1. Bad \in SUBSET Nat
      BY <1>3
    <3> QED BY <3>1, Smallest
  <2>2. m # 0
    <3>1. f[0] = 0 /\ g[0] = 0
      BY <1>1, <1>2, <1>3 DEF IsSum
    <3> QED BY <2>1, <3>1
  <2>3. m \in 1..Len(s) /\ m \in 0..Len(t) /\ m \in 0..Len(s) /\ m - 1 \in 0..Len(s) /\ m - 1 \notin Bad
    BY <1>3, <2>1, <2>2
  <2>4. f[m] = f[m - 1] + IF m \in c THEN s[m].dt ELSE 0
    BY <1>1, <2>2, <2>3 DEF IsSum
  <2>5. g[m] = g[m - 1] + IF m \in d THEN t[m].dt ELSE 0
    BY <1>2, <2>2, <2>3 DEF IsSum
  <2> QED BY <2>1, <2>3, <2>4, <2>5
<1>5. f[Len(s)] = g[Len(s)]
  BY <1>3, <1>4
<1>6. Len(t) \in 0..Len(t) /\ Len(t) # 0 /\ Len(t) - 1 = Len(s)
  BY <1>3
<1>7. g[Len(t)] = g[Len(t) - 1] + IF Len(t) \in d THEN t[Len(t)].dt ELSE 0
  BY <1>2, <1>6 DEF IsSum
<1>8. f[Len(s)] \in Nat /\ g[Len(t)] \in Nat
  BY <1>3
<1> QED BY <1>1, <1>2, <1>5, <1>6, <1>7, <1>8 DEF OneMore

(* Nothing counted is no time.                                             *)
LEMMA DurationOfNone ==
  ASSUME NEW s, NEW c, Timed(s), \A i \in 1..Len(s) : i \notin c
  PROVE  Duration(s, c) = 0
<1>1. PICK f : IsSum(f, s, c, Len(s)) /\ Duration(s, c) = f[Len(s)]
  BY DurationIs
<1>2. Len(s) \in Nat /\ f \in [0..Len(s) -> Nat]
  BY <1>1 DEF IsSum, Timed
<1> DEFINE Bad == {i \in 0..Len(s) : f[i] # 0}
<1>3. Bad = {}
  <2> SUFFICES ASSUME Bad # {} PROVE FALSE
    OBVIOUS
  <2>1. PICK m \in Bad : \A i \in Bad : m <= i
    <3>1. Bad \in SUBSET Nat
      BY <1>2
    <3> QED BY <3>1, Smallest
  <2>2. m # 0
    BY <1>1, <1>2, <2>1 DEF IsSum
  <2>3. m \in 1..Len(s) /\ m \in 0..Len(s) /\ m - 1 \in 0..Len(s) /\ m - 1 \notin Bad
    BY <1>2, <2>1, <2>2
  <2>4. f[m] = f[m - 1] + IF m \in c THEN s[m].dt ELSE 0
    BY <1>1, <2>2, <2>3 DEF IsSum
  <2> QED BY <2>1, <2>3, <2>4
<1> QED BY <1>1, <1>2, <1>3

(* The last of some frames.                                                *)
LEMMA LatestIs ==
  ASSUME NEW n \in Nat, NEW T \in SUBSET (1..n), T # {}
  PROVE  Latest(T) \in T /\ \A m \in T : m <= Latest(T)
<1> DEFINE U == {n - m : m \in T}
<1>1. U \in SUBSET Nat /\ U # {}
  <2>1. \A m \in T : n - m \in Nat
    OBVIOUS
  <2>2. PICK m \in T : TRUE
    OBVIOUS
  <2> QED BY <2>1, <2>2
<1>2. PICK u \in U : \A v \in U : u <= v
  BY <1>1, Smallest
<1>3. PICK m \in T : u = n - m
  BY <1>2
<1>4. \A k \in T : k <= m
  <2> SUFFICES ASSUME NEW k \in T PROVE k <= m
    OBVIOUS
  <2>1. n - k \in U /\ u <= n - k
    BY <1>2
  <2> QED BY <1>3, <2>1
<1> QED BY <1>3, <1>4 DEF Latest

FrameRecord == [of : {"room", "voice", "chime"}, level : Nat, at : Nat, dt : Nat]
EarRecord ==
  [elapsed : Nat, floor : Nat, peak : Nat, held : Seq(FrameRecord), spoke : Nat, silence : Nat,
   capture : BOOLEAN, recogniser : BOOLEAN,
   reason : {"none", "silence", "max-duration", "no-speech"}]
TruthRecord ==
  [dead : BOOLEAN, chime : Nat, gauged : BOOLEAN, voiced : Nat, pause : Nat, watched : BOOLEAN,
   disturbed : BOOLEAN, missed : BOOLEAN, invented : BOOLEAN]

EndpointTyped ==
  ear \in EarRecord /\ truth \in TruthRecord /\ words \in {"open", "hanging", "complete"}

(* A frame is as loud as what it is of, for a meter that lives.            *)
Metered(f) ==
  IF truth.dead THEN f.level = 0
  ELSE IF f.of = "room" THEN f.level \in Rooms ELSE f.level \in Loud

(* The floor may have climbed once in each frame since the window.         *)
Climbed(time) == IF time < CalibrateTo THEN 0 ELSE time - CalibrateTo + 1

(* The floor and the peak tell the room from what is not, as far as they   *)
(* were gauged.                                                            *)
Tuned(floor, peak, gauged, time) ==
  /\ \A l \in Loud : 10 * l > 3 * peak
  /\ truth.dead => peak = 0
  /\ ~truth.dead => /\ \A r \in Rooms : r <= floor + Headroom
                    /\ time > 0 => peak > 0
                    /\ gauged => \A l \in Loud :
                         l + Climbed(time) > floor + Headroom + MaxUtterance

LoudIn(frames) == {i \in DOMAIN frames : frames[i].of # "room"}
VoiceIn(frames) == {i \in DOMAIN frames : frames[i].of = "voice"}

(* What is held for later.                                                 *)
Holding ==
  /\ \A i \in DOMAIN ear.held : Metered(ear.held[i]) /\ ear.held[i].at <= ear.elapsed
  /\ ear.elapsed < CalibrateTo => ear.spoke = 0
  /\ ear.elapsed >= CalibrateTo => ear.held = <<>>
  /\ ~truth.disturbed => LoudIn(ear.held) = {} /\ ear.spoke = 0
  /\ truth.dead => ear.spoke = 0

(* Together with what it still holds the loop has followed the shopper.    *)
Follows ==
  ear.elapsed < CalibrateTo \/ Gauged =>
    /\ truth.voiced <= Capped(ear.spoke + Duration(ear.held, VoiceIn(ear.held)), MinSpeech)
    /\ LoudIn(ear.held) = {} => truth.pause = ear.silence
    /\ \A k \in LoudIn(ear.held) :
         (\A j \in LoudIn(ear.held) : j <= k) =>
           truth.pause = Capped(ear.elapsed - ear.held[k].at, HangingTime)

(* A frame that was watched had its verdict.                               *)
Watching ==
  /\ truth.watched => /\ ear.capture
                      /\ ear.reason = Reason(ear.spoke, ear.silence, words, ear.elapsed)
  /\ ~truth.watched => ear.reason = "none" /\ ear.elapsed <= StartsBy

Overheard ==
  /\ EndpointTyped
  /\ Tuned(ear.floor, ear.peak, truth.gauged, ear.elapsed)
  /\ Holding
  /\ Follows
  /\ truth.voiced + truth.pause <= ear.elapsed
  /\ OnlyVoiceCounts /\ (truth.missed => truth.gauged)
  /\ Watching

LEMMA BoundsAre ==
  /\ CalibrateFrom \in Nat /\ CalibrateTo \in Nat /\ MinSpeech \in Nat /\ CompleteTime \in Nat
  /\ SilenceTime \in Nat /\ HangingTime \in Nat /\ GiveUpTime \in Nat /\ MaxUtterance \in Nat
  /\ StartsBy \in Nat /\ ToneTime \in Nat /\ Headroom = 6
  /\ Rooms \subseteq 2..255 /\ Loud \subseteq 2..255
  /\ \A d \in Frames : d \in Nat /\ d >= 1 /\ d <= CalibrateTo
BY EndpointAssumption DEF Headroom, Loudest

(* A frame, as the loop takes it.                                          *)
Framing(frame, dt) ==
  /\ frame \in FrameRecord /\ Metered(frame)
  /\ dt \in Frames /\ frame.dt = dt /\ frame.at = ear.elapsed + dt

LEMMA FrameIs ==
  ASSUME EndpointTyped, NEW sound \in Sound, NEW dt \in Frames
  PROVE  /\ Framing(Frame(sound, ear.elapsed + dt, dt), dt)
         /\ Frame(sound, ear.elapsed + dt, dt).of = sound.of
<1> DEFINE f == Frame(sound, ear.elapsed + dt, dt)
<1>1. /\ sound.of \in {"room", "voice", "chime"}
      /\ IF sound.of = "room" THEN sound.level \in Rooms ELSE sound.level \in Loud
      /\ sound.level \in Nat
  <2>1. Voices \subseteq Loud /\ Tone \in Loud /\ Rooms \subseteq Nat /\ Loud \subseteq Nat
    <3>1. Rooms \subseteq 2..255 /\ Loud \subseteq 2..255 /\ 2..255 \subseteq Nat
      BY BoundsAre
    <3> QED BY <3>1, Zenon DEF Loud
  <2>2. CASE sound \in [of : {"room"}, level : Rooms]
    BY <2>1, <2>2
  <2>3. CASE sound \in [of : {"voice"}, level : Voices]
    BY <2>1, <2>3
  <2>4. CASE sound \in [of : {"chime"}, level : {Tone}]
    BY <2>1, <2>4
  <2> QED BY <2>2, <2>3, <2>4 DEF Sound
<1>2. f = [of |-> sound.of, level |-> LevelOf(sound), at |-> ear.elapsed + dt, dt |-> dt]
  BY DEF Frame
<1>3. LevelOf(sound) \in Nat /\ LevelOf(sound) = IF truth.dead THEN 0 ELSE sound.level
  BY <1>1 DEF LevelOf
<1>4. ear.elapsed + dt \in Nat /\ dt \in Nat
  BY BoundsAre DEF EndpointTyped, EarRecord
<1>5. f.of = sound.of /\ f.level = LevelOf(sound) /\ f.at = ear.elapsed + dt /\ f.dt = dt
  BY <1>2
<1>6. f \in FrameRecord
  BY <1>1, <1>2, <1>3, <1>4 DEF FrameRecord
<1> HIDE DEF f
<1>7. Metered(f)
  BY <1>1, <1>3, <1>5 DEF Metered
<1>8. Framing(f, dt)
  BY <1>5, <1>6, <1>7 DEF Framing
<1> QED BY <1>5, <1>8 DEF f

Gauges(frame) ==
  \/ truth.gauged
  \/ frame.of = "room" /\ frame.at >= CalibrateFrom /\ Calibrating(ear.elapsed)

(* The loop's floor and peak stay tuned.                                   *)
LEMMA StaysTuned ==
  ASSUME EndpointTyped, Tuned(ear.floor, ear.peak, truth.gauged, ear.elapsed),
         NEW dt, NEW frame, Framing(frame, dt), NEW floor \in Floors(frame.at, frame.level)
  PROVE  /\ floor \in Nat /\ Peak(frame.level) \in Nat
         /\ Tuned(floor, Peak(frame.level), Gauges(frame), frame.at)
<1> DEFINE level == frame.level
           peak == Peak(level)
<1>1. /\ ear.floor \in Nat /\ ear.peak \in Nat /\ ear.elapsed \in Nat /\ level \in Nat
      /\ dt \in Nat /\ dt >= 1 /\ frame.at = ear.elapsed + dt /\ Metered(frame)
      /\ frame.of \in {"room", "voice", "chime"} /\ truth.dead \in BOOLEAN
  BY BoundsAre DEF EndpointTyped, EarRecord, TruthRecord, Framing, FrameRecord
<1>2. peak = IF level > ear.peak THEN level ELSE IF ear.peak - 1 > 0 THEN ear.peak - 1 ELSE 0
  BY DEF Peak, Most
<1>3. \/ frame.at < CalibrateTo /\ frame.at < CalibrateFrom /\ floor = ear.floor
      \/ frame.at < CalibrateTo /\ floor \in {level, ear.floor} /\ floor <= level /\ floor <= ear.floor
      \/ ~(frame.at < CalibrateTo) /\ level <= ear.floor /\ floor = level
      \/ ~(frame.at < CalibrateTo) /\ level > ear.floor /\ floor \in {ear.floor, ear.floor + 1}
  BY <1>1, BoundsAre DEF Floors, Calibrating, Least
<1>4. floor \in Nat /\ peak \in Nat
  BY <1>1, <1>2, <1>3
<1>5. /\ \A l \in Loud : l \in Nat /\ 10 * l > 3 * ear.peak /\ l >= 2
      /\ \A r \in Rooms : r \in Nat /\ r >= 2
      /\ \A l \in Loud, r \in Rooms : l > r + Headroom + MaxUtterance
      /\ \A l, m \in Loud : 10 * l > 3 * m
      /\ \A a, b \in Rooms : a <= b + Headroom
  BY BoundsAre, EndpointAssumption DEF Tuned
<1>6. \A l \in Loud : 10 * l > 3 * peak
  <2> SUFFICES ASSUME NEW l \in Loud PROVE 10 * l > 3 * peak
    OBVIOUS
  <2>1. CASE ~(level > ear.peak)
    BY <1>1, <1>2, <1>5, <2>1
  <2>2. CASE level > ear.peak
    <3>1. peak = level
      BY <1>2, <2>2
    <3>2. CASE truth.dead
      BY <1>1, <1>5, <3>1, <3>2 DEF Metered
    <3>3. CASE ~truth.dead /\ frame.of = "room"
      <4>1. level \in Rooms
        BY <1>1, <3>3 DEF Metered
      <4>2. l > level + Headroom + MaxUtterance /\ l \in Nat
        BY <1>5, <4>1
      <4>3. level < l
        BY <1>1, <4>2, BoundsAre
      <4> QED BY <1>1, <3>1, <4>2, <4>3
    <3>4. CASE ~truth.dead /\ frame.of # "room"
      BY <1>1, <1>5, <3>1, <3>4 DEF Metered
    <3> QED BY <3>2, <3>3, <3>4
  <2> QED BY <2>1, <2>2
<1>7. truth.dead => peak = 0
  BY <1>1, <1>2 DEF Metered, Tuned
<1>8. ASSUME ~truth.dead
      PROVE  (\A r \in Rooms : r <= floor + Headroom) /\ peak > 0
  <2>1. level >= 2
    BY <1>1, <1>5, <1>8 DEF Metered
  <2>2. peak > 0
    BY <1>1, <1>2, <2>1
  <2>3. \A r \in Rooms : r <= ear.floor + Headroom
    BY <1>8 DEF Tuned
  <2>4. \A r \in Rooms : r <= level + Headroom
    <3> SUFFICES ASSUME NEW r \in Rooms PROVE r <= level + Headroom
      OBVIOUS
    <3>1. CASE frame.of = "room"
      BY <1>1, <1>5, <1>8, <3>1 DEF Metered
    <3>2. CASE frame.of # "room"
      <4>1. level > r + Headroom + MaxUtterance
        BY <1>1, <1>5, <1>8, <3>2 DEF Metered
      <4> QED BY <1>1, <1>5, <4>1, BoundsAre
    <3> QED BY <3>1, <3>2
  <2>5. \A r \in Rooms : r <= floor + Headroom
    <3> SUFFICES ASSUME NEW r \in Rooms PROVE r <= floor + Headroom
      OBVIOUS
    <3>1. r <= ear.floor + Headroom /\ r <= level + Headroom /\ r \in Nat
      BY <1>5, <2>3, <2>4
    <3> QED BY <1>1, <1>3, <3>1, BoundsAre
  <2> QED BY <2>2, <2>5
<1>9. ASSUME ~truth.dead, Gauges(frame), NEW l \in Loud
      PROVE  l + Climbed(frame.at) > floor + Headroom + MaxUtterance
  <2>1. l \in Nat
    BY <1>5
  <2>2. CASE truth.gauged
    <3>1. l + Climbed(ear.elapsed) > ear.floor + Headroom + MaxUtterance
      BY <1>9, <2>2 DEF Tuned
    <3>2. /\ Climbed(ear.elapsed) \in Nat /\ Climbed(frame.at) \in Nat
          /\ Climbed(ear.elapsed) <= Climbed(frame.at)
          /\ frame.at >= CalibrateTo => Climbed(ear.elapsed) + 1 <= Climbed(frame.at)
      BY <1>1, BoundsAre DEF Climbed
    <3>3. floor <= ear.floor \/ (frame.at >= CalibrateTo /\ floor <= ear.floor + 1)
      BY <1>1, <1>3, BoundsAre
    <3> QED BY <1>1, <1>4, <2>1, <3>1, <3>2, <3>3, BoundsAre
  <2>3. CASE ~truth.gauged
    <3>1. frame.of = "room" /\ frame.at >= CalibrateFrom
      BY <1>9, <2>3 DEF Gauges
    <3>2. l > level + Headroom + MaxUtterance
      BY <1>1, <1>5, <1>9, <3>1 DEF Metered
    <3>3. floor <= level
      BY <1>1, <1>3, <3>1, BoundsAre
    <3>4. Climbed(frame.at) \in Nat
      BY <1>1, BoundsAre DEF Climbed
    <3> QED BY <1>1, <1>4, <2>1, <3>2, <3>3, <3>4, BoundsAre
  <2> QED BY <2>2, <2>3
<1> QED BY <1>4, <1>6, <1>7, <1>8, <1>9 DEF Tuned

(* What a frame is judged to be.                                           *)
LEMMA JudgedRightly ==
  ASSUME EndpointTyped, Tuned(ear.floor, ear.peak, truth.gauged, ear.elapsed),
         ear.elapsed <= MaxUtterance,
         NEW dt, NEW frame, Framing(frame, dt), NEW floor \in Floors(frame.at, frame.level),
         ~Calibrating(frame.at),
         NEW f, f.level \in Nat, Metered(f)
  PROVE  /\ f.of = "room" \/ truth.dead => ~Above(f.level, floor, Peak(frame.level))
         /\ Gauges(frame) /\ ~truth.dead /\ f.of # "room" => Above(f.level, floor, Peak(frame.level))
<1> DEFINE peak == Peak(frame.level)
<1>1. floor \in Nat /\ peak \in Nat /\ Tuned(floor, peak, Gauges(frame), frame.at)
  BY StaysTuned
<1>2. CASE truth.dead
  <2>1. f.level = 0
    BY <1>2 DEF Metered
  <2> QED BY <1>2, <2>1, BoundsAre DEF Above
<1>3. CASE ~truth.dead /\ f.of = "room"
  <2>1. f.level \in Rooms
    BY <1>3 DEF Metered
  <2>2. f.level <= floor + Headroom
    BY <1>1, <1>3, <2>1 DEF Tuned
  <2> QED BY <1>1, <1>3, <2>2, BoundsAre DEF Above
<1>4. CASE ~truth.dead /\ f.of # "room"
  <2> SUFFICES ASSUME Gauges(frame) PROVE Above(f.level, floor, peak)
    BY <1>4
  <2>1. f.level \in Loud /\ 10 * f.level > 3 * peak
    BY <1>1, <1>4 DEF Metered, Tuned
  <2>2. f.level > floor + Headroom
    <3>1. /\ ear.elapsed \in Nat /\ ear.floor \in Nat /\ frame.level \in Nat /\ dt \in Nat /\ dt >= 1
          /\ frame.at = ear.elapsed + dt
      BY BoundsAre DEF EndpointTyped, EarRecord, Framing, FrameRecord
    <3>2. \/ frame.level <= ear.floor /\ floor = frame.level
          \/ frame.level > ear.floor /\ floor \in {ear.floor, ear.floor + 1}
      <4>1. floor \in IF frame.level <= ear.floor THEN {frame.level}
                      ELSE {ear.floor, ear.floor + 1}
        BY DEF Floors
      <4> QED BY <3>1, <4>1
    <3>3. CASE truth.gauged
      <4>1. f.level + Climbed(ear.elapsed) > ear.floor + Headroom + MaxUtterance
        BY <1>4, <2>1, <3>3 DEF Tuned
      <4>2. Climbed(ear.elapsed) \in Nat /\ Climbed(ear.elapsed) <= MaxUtterance - 1
        BY <3>1, BoundsAre, EndpointAssumption DEF Climbed
      <4>3. floor <= ear.floor + 1
        BY <3>1, <3>2
      <4> QED BY <1>1, <3>1, <4>1, <4>2, <4>3, BoundsAre
    <3>4. CASE ~truth.gauged
      <4>1. frame.of = "room"
        BY <3>4 DEF Gauges
      <4>2. f.level > frame.level + Headroom + MaxUtterance
        BY <1>4, <2>1, <4>1, EndpointAssumption DEF Framing, Metered
      <4>3. floor <= frame.level
        BY <3>1, <3>2
      <4> QED BY <1>1, <3>1, <4>2, <4>3, BoundsAre
    <3> QED BY <3>3, <3>4
  <2>3. f.level > Headroom
    BY <1>1, <2>2, BoundsAre
  <2> QED BY <2>1, <2>2, <2>3 DEF Above
<1> QED BY <1>2, <1>3, <1>4

(* The reason of a frame: there is none while the room is measured.        *)
LEMMA ReasonIs ==
  ASSUME NEW spoke \in Nat, NEW silence \in Nat, NEW w \in {"open", "hanging", "complete"},
         NEW now \in Nat, EndpointTyped
  PROVE  LET reason == Reason(spoke, silence, w, now)
         IN  /\ silenceWindow(w) \in Nat
             /\ CompleteTime <= silenceWindow(w) /\ silenceWindow(w) <= HangingTime
             /\ reason \in {"none", "silence", "max-duration", "no-speech"}
             /\ ~ear.capture => reason = "none"
             /\ reason = "silence" => spoke > MinSpeech /\ silence > silenceWindow(w)
             /\ reason # "none" => spoke > MinSpeech \/ now > GiveUpTime
             /\ ear.capture /\ reason = "none" =>
                  /\ now <= MaxUtterance
                  /\ spoke = 0 => now <= GiveUpTime
                  /\ ~(spoke > MinSpeech /\ silence > silenceWindow(w))
<1> DEFINE reason == Reason(spoke, silence, w, now)
           done == spoke > MinSpeech /\ silence > silenceWindow(w)
<1>1. /\ silenceWindow(w) \in Nat
      /\ CompleteTime <= silenceWindow(w) /\ silenceWindow(w) <= HangingTime
  <2>1. silenceWindow(w) \in {CompleteTime, SilenceTime, HangingTime}
    BY DEF silenceWindow
  <2> QED BY <2>1, BoundsAre, EndpointAssumption
<1>2. CASE ear.capture /\ done
  <2>1. spoke # 0
    BY <1>2, BoundsAre
  <2>2. reason = "silence"
    BY <1>2, <2>1, Zenon DEF Reason
  <2> QED BY <1>1, <1>2, <2>2
<1>3. CASE ear.capture /\ ~done /\ now > MaxUtterance
  <2>1. reason = "max-duration"
    <3>1. ~(now \in GiveUpTime + 1..MaxUtterance)
      BY <1>3, BoundsAre
    <3> QED BY <1>3, <3>1, Zenon DEF Reason
  <2>2. now > GiveUpTime
    BY <1>3, BoundsAre, EndpointAssumption
  <2> QED BY <1>1, <1>3, <2>1, <2>2
<1>4. CASE ear.capture /\ ~done /\ ~(now > MaxUtterance) /\ spoke = 0 /\ now \in GiveUpTime + 1..MaxUtterance
  <2>1. reason = "no-speech"
    BY <1>4, Zenon DEF Reason
  <2>2. now > GiveUpTime
    BY <1>4, BoundsAre
  <2> QED BY <1>1, <1>4, <2>1, <2>2
<1>5. CASE /\ ~(ear.capture /\ done) /\ ~(ear.capture /\ ~done /\ now > MaxUtterance)
           /\ ~(ear.capture /\ ~done /\ spoke = 0 /\ now \in GiveUpTime + 1..MaxUtterance)
  <2>1. reason = "none"
    BY <1>5, Zenon DEF Reason
  <2>2. ear.capture => now <= MaxUtterance /\ ~done
    BY <1>5, BoundsAre
  <2>3. ear.capture /\ spoke = 0 => now <= GiveUpTime
    BY <1>5, <2>2, BoundsAre
  <2> QED BY <1>1, <2>1, <2>2, <2>3
<1> QED BY <1>2, <1>3, <1>4, <1>5

(* A loop that goes on is within the longest utterance.                    *)
LEMMA Ceiling ==
  ASSUME Overheard, ear.reason = "none"
  PROVE  ear.elapsed <= MaxUtterance
<1>1. /\ ear.elapsed \in Nat /\ ear.spoke \in Nat /\ ear.silence \in Nat
      /\ words \in {"open", "hanging", "complete"} /\ EndpointTyped /\ truth.watched \in BOOLEAN
  BY DEF Overheard, EndpointTyped, EarRecord, TruthRecord
<1>2. CASE truth.watched
  <2>1. ear.capture /\ Reason(ear.spoke, ear.silence, words, ear.elapsed) = "none"
    BY <1>2 DEF Overheard, Watching
  <2> QED BY <1>1, <2>1, ReasonIs
<1>3. CASE ~truth.watched
  BY <1>1, <1>3, BoundsAre, EndpointAssumption DEF Overheard, Watching
<1> QED BY <1>1, <1>2, <1>3

(* The frames that are judged, and which of them count.                    *)
LEMMA JudgedFrames ==
  ASSUME Overheard, NEW dt, NEW frame, Framing(frame, dt)
  PROVE  LET judged == Append(ear.held, frame)
         IN  /\ Len(ear.held) \in Nat /\ Len(judged) = Len(ear.held) + 1
             /\ DOMAIN ear.held = 1..Len(ear.held) /\ DOMAIN judged = 1..Len(judged)
             /\ \A i \in 1..Len(ear.held) : judged[i] = ear.held[i]
             /\ judged[Len(judged)] = frame
             /\ Timed(ear.held) /\ Timed(judged)
             /\ \A i \in DOMAIN judged : judged[i] \in FrameRecord /\ Metered(judged[i])
<1> DEFINE judged == Append(ear.held, frame)
<1>1. ear.held \in Seq(FrameRecord) /\ frame \in FrameRecord /\ Metered(frame)
  BY DEF Overheard, EndpointTyped, EarRecord, Framing
<1>2. /\ judged \in Seq(FrameRecord) /\ Len(judged) = Len(ear.held) + 1 /\ Len(ear.held) \in Nat
      /\ DOMAIN ear.held = 1..Len(ear.held) /\ DOMAIN judged = 1..Len(judged)
      /\ \A i \in 1..Len(ear.held) : judged[i] = ear.held[i]
      /\ judged[Len(judged)] = frame
  BY <1>1
<1> HIDE DEF judged
<1>3. \A i \in DOMAIN judged : i = Len(judged) \/ i \in 1..Len(ear.held)
  BY <1>2
<1>4. \A i \in DOMAIN judged : judged[i] \in FrameRecord /\ Metered(judged[i])
  <2> SUFFICES ASSUME NEW i \in DOMAIN judged PROVE judged[i] \in FrameRecord /\ Metered(judged[i])
    OBVIOUS
  <2>1. CASE i = Len(judged)
    BY <1>1, <1>2, <2>1
  <2>2. CASE i \in 1..Len(ear.held)
    <3>1. Metered(ear.held[i]) /\ ear.held[i] \in FrameRecord
      BY <1>1, <1>2, <2>2 DEF Overheard, Holding
    <3> QED BY <1>2, <2>2, <3>1
  <2> QED BY <1>3, <2>1, <2>2
<1>5. Timed(ear.held)
  <2>1. \A i \in 1..Len(ear.held) : ear.held[i] \in FrameRecord
    BY <1>1
  <2> QED BY <1>2, <2>1 DEF Timed, FrameRecord
<1>6. Timed(judged)
  <2>1. Len(judged) \in Nat /\ \A i \in 1..Len(judged) : judged[i] \in FrameRecord
    BY <1>2, <1>4
  <2> QED BY <2>1 DEF Timed, FrameRecord
<1>7. /\ Len(ear.held) \in Nat /\ Len(judged) = Len(ear.held) + 1
      /\ DOMAIN ear.held = 1..Len(ear.held) /\ DOMAIN judged = 1..Len(judged)
      /\ \A i \in 1..Len(ear.held) : judged[i] = ear.held[i]
      /\ judged[Len(judged)] = frame
      /\ Timed(ear.held) /\ Timed(judged)
      /\ \A i \in DOMAIN judged : judged[i] \in FrameRecord /\ Metered(judged[i])
  BY <1>2, <1>4, <1>5, <1>6
<1> QED BY <1>7 DEF judged

LEMMA CountedRightly ==
  ASSUME Overheard, ear.reason = "none", NEW dt, NEW frame, Framing(frame, dt),
         NEW floor \in Floors(frame.at, frame.level), ~Calibrating(frame.at)
  PROVE  LET judged == Append(ear.held, frame)
             counted == Counted(judged, floor, Peak(frame.level))
         IN  /\ counted \subseteq LoudIn(judged)
             /\ truth.dead => counted = {}
             /\ Gauges(frame) /\ ~truth.dead => counted = LoudIn(judged)
<1> DEFINE judged == Append(ear.held, frame)
           counted == Counted(judged, floor, Peak(frame.level))
<1>1. \A i \in DOMAIN judged : judged[i].level \in Nat /\ Metered(judged[i])
  BY JudgedFrames DEF FrameRecord
<1>2. EndpointTyped /\ Tuned(ear.floor, ear.peak, truth.gauged, ear.elapsed) /\ ear.elapsed <= MaxUtterance
  BY Ceiling DEF Overheard
<1> HIDE DEF judged
<1>3. \A i \in DOMAIN judged :
        /\ judged[i].of = "room" \/ truth.dead => ~Above(judged[i].level, floor, Peak(frame.level))
        /\ Gauges(frame) /\ ~truth.dead /\ judged[i].of # "room" =>
             Above(judged[i].level, floor, Peak(frame.level))
  BY <1>1, <1>2, JudgedRightly
<1>4. /\ counted \subseteq LoudIn(judged)
      /\ truth.dead => counted = {}
      /\ Gauges(frame) /\ ~truth.dead => counted = LoudIn(judged)
  BY <1>3 DEF Counted, LoudIn
<1> QED BY <1>4 DEF judged

(* What a frame adds to the time of voice.                                 *)
LEMMA VoiceIs ==
  ASSUME Overheard, NEW dt, NEW frame, Framing(frame, dt)
  PROVE  LET judged == Append(ear.held, frame)
         IN  /\ Duration(ear.held, VoiceIn(ear.held)) \in Nat /\ Duration(judged, VoiceIn(judged)) \in Nat
             /\ Duration(judged, VoiceIn(judged)) =
                  Duration(ear.held, VoiceIn(ear.held)) + IF frame.of = "voice" THEN frame.dt ELSE 0
<1> DEFINE judged == Append(ear.held, frame)
<1>1. /\ Len(ear.held) \in Nat /\ Len(judged) = Len(ear.held) + 1
      /\ DOMAIN ear.held = 1..Len(ear.held) /\ DOMAIN judged = 1..Len(judged)
      /\ \A i \in 1..Len(ear.held) : judged[i] = ear.held[i]
      /\ judged[Len(judged)] = frame
      /\ Timed(ear.held) /\ Timed(judged)
  BY JudgedFrames
<1> HIDE DEF judged
<1>2. \A i \in 1..Len(ear.held) : i \in VoiceIn(ear.held) <=> i \in VoiceIn(judged)
  <2>1. \A i \in 1..Len(ear.held) : i \in 1..Len(judged)
    BY <1>1
  <2> QED BY <1>1, <2>1 DEF VoiceIn
<1>3. /\ Duration(ear.held, VoiceIn(ear.held)) \in Nat /\ Duration(judged, VoiceIn(judged)) \in Nat
      /\ Len(judged) \in VoiceIn(judged) =>
           Duration(judged, VoiceIn(judged)) = Duration(ear.held, VoiceIn(ear.held)) + judged[Len(judged)].dt
      /\ Len(judged) \notin VoiceIn(judged) =>
           Duration(judged, VoiceIn(judged)) = Duration(ear.held, VoiceIn(ear.held))
  <2>1. Timed(ear.held) /\ Timed(judged) /\ Len(judged) = Len(ear.held) + 1
    BY <1>1
  <2>2. \A i \in 1..Len(ear.held) :
          /\ ear.held[i].dt = judged[i].dt
          /\ i \in VoiceIn(ear.held) <=> i \in VoiceIn(judged)
    BY <1>1, <1>2
  <2>3. OneMore(ear.held, VoiceIn(ear.held), judged, VoiceIn(judged))
    BY <2>1, <2>2, DurationOfMore
  <2> QED BY <2>3 DEF OneMore
<1>4. Len(judged) \in VoiceIn(judged) <=> frame.of = "voice"
  <2>1. Len(judged) \in 1..Len(judged)
    BY <1>1
  <2> QED BY <1>1, <2>1 DEF VoiceIn
<1>5. frame.dt \in Nat
  BY DEF Framing, FrameRecord
<1>6. /\ Duration(ear.held, VoiceIn(ear.held)) \in Nat /\ Duration(judged, VoiceIn(judged)) \in Nat
      /\ Duration(judged, VoiceIn(judged)) =
           Duration(ear.held, VoiceIn(ear.held)) + IF frame.of = "voice" THEN frame.dt ELSE 0
  <2>1. CASE frame.of = "voice"
    BY <1>1, <1>3, <1>4, <1>5, <2>1
  <2>2. CASE frame.of # "voice"
    BY <1>1, <1>3, <1>4, <1>5, <2>2
  <2> QED BY <2>1, <2>2
<1> QED BY <1>6 DEF judged

(* What a judgement adds to the time spoken.                               *)
LEMMA SpokenIs ==
  ASSUME Overheard, ear.reason = "none", NEW dt, NEW frame, Framing(frame, dt),
         NEW floor \in Floors(frame.at, frame.level), ~Calibrating(frame.at)
  PROVE  LET judged == Append(ear.held, frame)
             counted == Counted(judged, floor, Peak(frame.level))
         IN  /\ Duration(judged, counted) \in Nat
             /\ counted = {} => Duration(judged, counted) = 0
             /\ Duration(ear.held, VoiceIn(ear.held)) \in Nat
             /\ Gauges(frame) /\ ~truth.dead =>
                  Duration(ear.held, VoiceIn(ear.held)) + (IF frame.of = "voice" THEN frame.dt ELSE 0)
                    <= Duration(judged, counted)
<1> DEFINE judged == Append(ear.held, frame)
           counted == Counted(judged, floor, Peak(frame.level))
<1>1. /\ Len(ear.held) \in Nat /\ Len(judged) = Len(ear.held) + 1
      /\ DOMAIN ear.held = 1..Len(ear.held) /\ DOMAIN judged = 1..Len(judged)
      /\ \A i \in 1..Len(ear.held) : judged[i] = ear.held[i]
      /\ judged[Len(judged)] = frame
      /\ Timed(ear.held) /\ Timed(judged)
  BY JudgedFrames
<1>2. Gauges(frame) /\ ~truth.dead => counted = LoudIn(judged)
  BY CountedRightly
<1> HIDE DEF judged, counted
<1>3. Duration(judged, counted) \in Nat
  <2>1. PICK sum : IsSum(sum, judged, counted, Len(judged)) /\ Duration(judged, counted) = sum[Len(judged)]
    BY <1>1, DurationIs
  <2>2. Len(judged) \in 0..Len(judged)
    BY <1>1
  <2> QED BY <2>1, <2>2 DEF IsSum
<1>4. counted = {} => Duration(judged, counted) = 0
  BY <1>1, DurationOfNone
<1>5. /\ Duration(ear.held, VoiceIn(ear.held)) \in Nat /\ Duration(judged, VoiceIn(judged)) \in Nat
      /\ Duration(judged, VoiceIn(judged)) =
           Duration(ear.held, VoiceIn(ear.held)) + IF frame.of = "voice" THEN frame.dt ELSE 0
  BY VoiceIs DEF judged
<1>8. ASSUME Gauges(frame), ~truth.dead
      PROVE  Duration(judged, VoiceIn(judged)) <= Duration(judged, counted)
  <2>1. \A i \in 1..Len(judged) : i \in VoiceIn(judged) => i \in counted
    BY <1>2, <1>8 DEF VoiceIn, LoudIn
  <2> QED BY <1>1, <2>1, DurationGrows
<1>9. /\ Duration(judged, counted) \in Nat
      /\ counted = {} => Duration(judged, counted) = 0
      /\ Duration(ear.held, VoiceIn(ear.held)) \in Nat
      /\ Gauges(frame) /\ ~truth.dead =>
           Duration(ear.held, VoiceIn(ear.held)) + (IF frame.of = "voice" THEN frame.dt ELSE 0)
             <= Duration(judged, counted)
  BY <1>3, <1>4, <1>5, <1>8
<1> QED BY <1>9 DEF judged, counted

(* What a frame does to the loop, and to what there was to hear.           *)
Heeds(sound, dt, w, floor) ==
  LET frame == Frame(sound, ear.elapsed + dt, dt)
      peak == Peak(frame.level)
  IN  /\ floor \in Floors(frame.at, frame.level)
      /\ Listen(frame, floor, peak, w) /\ Witness(frame, floor, peak) /\ words' = w
      /\ ear.reason = "none" /\ (ear.capture \/ ear.elapsed + dt <= StartsBy)

LEMMA HearIs ==
  ASSUME Hear
  PROVE  \E sound \in Sound, dt \in Frames, w \in Captions : \E floor : Heeds(sound, dt, w, floor)
BY DEF Hear, Heeds, Heard

(* The fields of ear' and truth'.                                          *)
LEMMA ListenIs ==
  ASSUME EndpointTyped, NEW frame, NEW floor, NEW peak, NEW w, Listen(frame, floor, peak, w)
  PROVE  LET counted == Counted(Judged(frame), floor, peak)
         IN  /\ ear'.elapsed = frame.at /\ ear'.floor = floor /\ ear'.peak = peak
             /\ ear'.held = IF Calibrating(frame.at) THEN Append(ear.held, frame) ELSE <<>>
             /\ ear'.spoke = Capped(ear.spoke + Duration(Judged(frame), counted), MinSpeech)
             /\ ear'.silence = Capped(IF counted = {} THEN ear.silence + frame.dt
                                      ELSE frame.at - Judged(frame)[Latest(counted)].at, HangingTime)
             /\ ear'.reason = Reason(ear'.spoke, ear'.silence, w, frame.at)
             /\ ear'.capture = ear.capture /\ ear'.recogniser = ear.recogniser
             /\ ear' = [elapsed |-> ear'.elapsed, floor |-> ear'.floor, peak |-> ear'.peak,
                        held |-> ear'.held, spoke |-> ear'.spoke, silence |-> ear'.silence,
                        capture |-> ear'.capture, recogniser |-> ear'.recogniser,
                        reason |-> ear'.reason]
BY Zenon DEF EndpointTyped, EarRecord, Listen

LEMMA WitnessIs ==
  ASSUME EndpointTyped, NEW frame, NEW floor, NEW peak, Witness(frame, floor, peak)
  PROVE  LET judged == Judged(frame)
             passes(i) == Above(judged[i].level, floor, peak)
         IN  /\ truth'.dead = truth.dead /\ truth'.gauged = Gauges(frame)
             /\ truth'.chime = IF frame.of = "chime" THEN Most(truth.chime - frame.dt, 0) ELSE truth.chime
             /\ truth'.watched = ear.capture
             /\ truth'.voiced = IF frame.of = "voice" THEN Capped(truth.voiced + frame.dt, MinSpeech)
                                ELSE truth.voiced
             /\ truth'.pause = IF frame.of # "room" THEN 0 ELSE Capped(truth.pause + frame.dt, HangingTime)
             /\ truth'.disturbed = (truth.disturbed \/ frame.of # "room")
             /\ truth'.missed = (truth.missed \/ (Gauges(frame) /\ \E i \in DOMAIN judged :
                                   judged[i].of = "voice" /\ ~passes(i)))
             /\ truth'.invented = (truth.invented \/ \E i \in DOMAIN judged :
                                     judged[i].of = "room" /\ passes(i))
             /\ truth' = [dead |-> truth'.dead, chime |-> truth'.chime, gauged |-> truth'.gauged,
                          voiced |-> truth'.voiced, pause |-> truth'.pause, watched |-> truth'.watched,
                          disturbed |-> truth'.disturbed, missed |-> truth'.missed,
                          invented |-> truth'.invented]
BY DEF EndpointTyped, TruthRecord, Witness, Gauges

LEMMA CappedIs ==
  ASSUME NEW limit \in Nat, NEW a \in Nat
  PROVE  Capped(a, limit) \in Nat /\ Capped(a, limit) <= a
BY DEF Capped, Least

LEMMA CappedAdds ==
  ASSUME NEW limit \in Nat, NEW a \in Nat, NEW d \in Nat
  PROVE  Capped(Capped(a, limit) + d, limit) = Capped(a + d, limit)
BY DEF Capped, Least

LEMMA CappedGrows ==
  ASSUME NEW limit \in Nat, NEW a \in Nat, NEW b \in Nat, a <= b
  PROVE  Capped(a, limit) <= Capped(b, limit)
BY DEF Capped, Least

(* Where the loop can tell the shopper from the room its silence is the    *)
(* shopper's pause.                                                        *)
LEMMA SilenceIs ==
  ASSUME Overheard, ear.reason = "none", NEW dt, NEW frame, Framing(frame, dt),
         NEW floor \in Floors(frame.at, frame.level), ~Calibrating(frame.at)
  PROVE  LET judged == Append(ear.held, frame)
             counted == Counted(judged, floor, Peak(frame.level))
             since == IF counted = {} THEN ear.silence + frame.dt
                      ELSE frame.at - judged[Latest(counted)].at
         IN  /\ since \in Nat
             /\ Gauges(frame) /\ ~truth.dead =>
                  Capped(since, HangingTime) =
                    IF frame.of # "room" THEN 0 ELSE Capped(truth.pause + frame.dt, HangingTime)
<1> DEFINE judged == Append(ear.held, frame)
           counted == Counted(judged, floor, Peak(frame.level))
           since == IF counted = {} THEN ear.silence + frame.dt
                    ELSE frame.at - judged[Latest(counted)].at
<1>1. /\ Len(ear.held) \in Nat /\ Len(judged) = Len(ear.held) + 1
      /\ DOMAIN ear.held = 1..Len(ear.held) /\ DOMAIN judged = 1..Len(judged)
      /\ \A i \in 1..Len(ear.held) : judged[i] = ear.held[i]
      /\ judged[Len(judged)] = frame
      /\ \A i \in DOMAIN judged : judged[i] \in FrameRecord
  BY JudgedFrames
<1>2. /\ counted \subseteq LoudIn(judged)
      /\ Gauges(frame) /\ ~truth.dead => counted = LoudIn(judged)
  BY CountedRightly
<1>3. /\ ear.elapsed \in Nat /\ ear.silence \in Nat /\ truth.pause \in Nat /\ truth.gauged \in BOOLEAN
      /\ frame.dt = dt /\ dt \in Nat /\ frame.at = ear.elapsed + dt
  BY BoundsAre DEF Overheard, EndpointTyped, EarRecord, TruthRecord, Framing
<1>4. HangingTime \in Nat
  BY BoundsAre
<1>5. \A i \in DOMAIN judged : judged[i].at \in Nat /\ judged[i].at <= frame.at
  <2> SUFFICES ASSUME NEW i \in DOMAIN judged PROVE judged[i].at \in Nat /\ judged[i].at <= frame.at
    OBVIOUS
  <2>1. judged[i].at \in Nat
    BY <1>1 DEF FrameRecord
  <2>2. CASE i = Len(judged)
    BY <1>1, <1>3, <2>1, <2>2
  <2>3. CASE i # Len(judged)
    <3>1. i \in DOMAIN ear.held /\ judged[i] = ear.held[i]
      BY <1>1, <2>3
    <3>2. ear.held[i].at <= ear.elapsed
      BY <3>1 DEF Overheard, Holding
    <3> QED BY <1>3, <2>1, <3>1, <3>2
  <2> QED BY <2>2, <2>3
<1> HIDE DEF judged, counted
<1>6. counted # {} => Latest(counted) \in counted /\ \A m \in counted : m <= Latest(counted)
  <2>1. Len(judged) \in Nat /\ counted \in SUBSET (1..Len(judged))
    BY <1>1, <1>2 DEF LoudIn
  <2> QED BY <2>1, LatestIs
<1>7. since \in Nat
  <2>1. CASE counted = {}
    BY <1>3, <2>1
  <2>2. CASE counted # {}
    <3>1. Latest(counted) \in DOMAIN judged
      BY <1>2, <1>6, <2>2 DEF LoudIn
    <3> QED BY <1>3, <1>5, <2>2, <3>1
  <2> QED BY <2>1, <2>2
<1>8. ASSUME Gauges(frame), ~truth.dead
      PROVE  Capped(since, HangingTime) =
               IF frame.of # "room" THEN 0 ELSE Capped(truth.pause + frame.dt, HangingTime)
  <2>1. counted = LoudIn(judged)
    BY <1>2, <1>8
  <2>2. /\ LoudIn(ear.held) = {} => truth.pause = ear.silence
        /\ \A k \in LoudIn(ear.held) :
             (\A j \in LoudIn(ear.held) : j <= k) =>
               truth.pause = Capped(ear.elapsed - ear.held[k].at, HangingTime)
    <3>1. ear.elapsed < CalibrateTo \/ Gauged
      BY <1>8 DEF Gauges, Calibrating, Gauged
    <3> QED BY <3>1 DEF Overheard, Follows
  <2>3. \A i \in 1..Len(ear.held) : i \in LoudIn(ear.held) <=> i \in LoudIn(judged)
    <3>1. \A i \in 1..Len(ear.held) : i \in 1..Len(judged)
      BY <1>1
    <3> QED BY <1>1, <3>1 DEF LoudIn
  <2>4. Len(judged) \in LoudIn(judged) <=> frame.of # "room"
    <3>1. Len(judged) \in 1..Len(judged)
      BY <1>1
    <3> QED BY <1>1, <3>1 DEF LoudIn
  <2>5. LoudIn(judged) \subseteq 1..Len(judged) /\ LoudIn(ear.held) \subseteq 1..Len(ear.held)
    BY <1>1 DEF LoudIn
  <2>6. CASE frame.of # "room"
    <3>1. Len(judged) \in counted /\ Latest(counted) \in counted /\ Len(judged) <= Latest(counted)
      BY <1>6, <2>1, <2>4, <2>6
    <3>2. Latest(counted) = Len(judged)
      BY <1>1, <2>1, <2>5, <3>1
    <3>3. since = 0
      BY <1>1, <1>3, <3>1, <3>2
    <3>4. Capped(0, HangingTime) = 0
      BY <1>4 DEF Capped, Least
    <3> HIDE DEF since
    <3> QED BY <2>6, <3>3, <3>4
  <2>7. CASE frame.of = "room" /\ counted = {}
    <3>1. LoudIn(ear.held) = {}
      BY <2>1, <2>3, <2>5, <2>7
    <3>2. since = truth.pause + frame.dt
      BY <2>2, <2>7, <3>1
    <3> QED BY <2>7, <3>2
  <2>8. CASE frame.of = "room" /\ counted # {}
    <3> DEFINE k == Latest(counted)
    <3>1. k \in counted /\ (\A j \in counted : j <= k) /\ k # Len(judged)
      BY <1>6, <2>1, <2>4, <2>8
    <3> HIDE DEF k
    <3>2. k \in 1..Len(ear.held) /\ k \in LoudIn(ear.held)
      <4>1. k \in 1..Len(judged)
        BY <2>1, <2>5, <3>1
      <4>2. k \in 1..Len(ear.held)
        BY <1>1, <3>1, <4>1
      <4> QED BY <2>1, <2>3, <3>1, <4>2
    <3>3. \A j \in LoudIn(ear.held) : j <= k
      BY <2>1, <2>3, <2>5, <3>1
    <3>4. truth.pause = Capped(ear.elapsed - ear.held[k].at, HangingTime)
      BY <2>2, <3>2, <3>3
    <3>5. ear.held[k].at \in Nat /\ ear.held[k].at <= ear.elapsed /\ judged[k] = ear.held[k]
      <4>1. judged[k] = ear.held[k] /\ k \in DOMAIN judged /\ k \in DOMAIN ear.held
        BY <1>1, <3>2
      <4> QED BY <1>5, <4>1 DEF Overheard, Holding
    <3>6. since = frame.at - ear.held[k].at
      BY <2>8, <3>5 DEF k
    <3> DEFINE gap == ear.elapsed - ear.held[k].at
    <3>7. gap \in Nat /\ since = gap + frame.dt
      BY <1>3, <3>5, <3>6
    <3> HIDE DEF gap
    <3>8. Capped(Capped(gap, HangingTime) + frame.dt, HangingTime) = Capped(gap + frame.dt, HangingTime)
      BY <1>3, <1>4, <3>7, CappedAdds
    <3> QED BY <2>8, <3>4, <3>7, <3>8 DEF gap
  <2> QED BY <2>6, <2>7, <2>8
<1>9. /\ since \in Nat
      /\ Gauges(frame) /\ ~truth.dead =>
           Capped(since, HangingTime) =
             IF frame.of # "room" THEN 0 ELSE Capped(truth.pause + frame.dt, HangingTime)
  BY <1>7, <1>8
<1> QED BY <1>9 DEF judged, counted

LEMMA EmptyIs ==
  /\ Timed(<<>>) /\ DOMAIN <<>> = {} /\ LoudIn(<<>>) = {}
  /\ \A c : Duration(<<>>, c) = 0
<1>1. Timed(<<>>) /\ Len(<<>>) = 0 /\ DOMAIN <<>> = {}
  BY DEF Timed
<1>2. \A c : Duration(<<>>, c) = 0
  <2>1. \A i \in 1..Len(<<>>) : FALSE
    BY <1>1
  <2> QED BY <1>1, <2>1, DurationOfNone
<1> QED BY <1>1, <1>2 DEF LoudIn

(* The verdict of a frame is that of the state it leaves.                  *)
LEMMA WatchKeeps ==
  ASSUME Overheard, NEW sound, NEW dt \in Frames, NEW w \in {"open", "hanging", "complete"}, NEW floor,
         Heeds(sound, dt, w, floor), ear'.spoke \in Nat, ear'.silence \in Nat
  PROVE  Watching' /\ ear'.reason \in {"none", "silence", "max-duration", "no-speech"}
<1> DEFINE frame == Frame(sound, ear.elapsed + dt, dt)
<1>1. /\ EndpointTyped /\ ear.elapsed \in Nat /\ dt \in Nat /\ frame.at = ear.elapsed + dt
      /\ Listen(frame, floor, Peak(frame.level), w) /\ Witness(frame, floor, Peak(frame.level))
      /\ words' = w /\ (ear.capture \/ ear.elapsed + dt <= StartsBy)
  BY BoundsAre DEF Overheard, EndpointTyped, EarRecord, Heeds, Frame
<1> HIDE DEF frame
<1>2. /\ ear'.elapsed = frame.at /\ ear'.capture = ear.capture /\ ear'.recogniser = ear.recogniser
      /\ ear'.reason = Reason(ear'.spoke, ear'.silence, w, frame.at)
  BY <1>1, ListenIs
<1>3. truth'.watched = ear.capture
  BY <1>1, WitnessIs
<1>4. frame.at \in Nat
  BY <1>1
<1>5. Reason(ear.spoke, ear.silence, words, ear.elapsed)' = Reason(ear'.spoke, ear'.silence, w, frame.at)
  BY <1>1, <1>2, Zenon DEF Reason, silenceWindow
<1>6. /\ ear'.reason \in {"none", "silence", "max-duration", "no-speech"}
      /\ ~ear.capture => ear'.reason = "none"
  BY <1>1, <1>2, <1>4, ReasonIs
<1> QED BY <1>1, <1>2, <1>3, <1>5, <1>6 DEF Watching

(* What was there to hear, up to the frame.                                *)
LEMMA TruthKeeps ==
  ASSUME Overheard, NEW dt, NEW frame, Framing(frame, dt), NEW floor, NEW peak,
         Witness(frame, floor, peak)
  PROVE  /\ truth' \in TruthRecord
         /\ truth'.voiced + truth'.pause <= frame.at
<1>1. /\ truth \in TruthRecord /\ truth.voiced + truth.pause <= ear.elapsed /\ EndpointTyped
      /\ ear.elapsed \in Nat /\ ear.capture \in BOOLEAN
  BY DEF Overheard, EndpointTyped, EarRecord
<1>2. frame.dt \in Nat /\ frame.at = ear.elapsed + frame.dt
  BY BoundsAre DEF Framing
<1>3. /\ truth.voiced \in Nat /\ truth.pause \in Nat /\ truth.chime \in Nat /\ truth.dead \in BOOLEAN
      /\ truth.gauged \in BOOLEAN /\ truth.disturbed \in BOOLEAN /\ truth.missed \in BOOLEAN
      /\ truth.invented \in BOOLEAN
  BY <1>1 DEF TruthRecord
<1>4. /\ Capped(truth.voiced + frame.dt, MinSpeech) \in Nat
      /\ Capped(truth.voiced + frame.dt, MinSpeech) <= truth.voiced + frame.dt
      /\ Capped(truth.pause + frame.dt, HangingTime) \in Nat
      /\ Capped(truth.pause + frame.dt, HangingTime) <= truth.pause + frame.dt
  <2>1. /\ truth.voiced + frame.dt \in Nat /\ truth.pause + frame.dt \in Nat
        /\ MinSpeech \in Nat /\ HangingTime \in Nat
    BY <1>2, <1>3, BoundsAre
  <2> QED BY <2>1, CappedIs
<1>5. /\ truth'.voiced = IF frame.of = "voice" THEN Capped(truth.voiced + frame.dt, MinSpeech)
                         ELSE truth.voiced
      /\ truth'.pause = IF frame.of # "room" THEN 0 ELSE Capped(truth.pause + frame.dt, HangingTime)
  BY <1>1, WitnessIs
<1>6. truth'.voiced \in Nat /\ truth'.pause \in Nat
  BY <1>3, <1>4, <1>5
<1>7. truth'.voiced + truth'.pause <= frame.at
  <2>1. CASE frame.of = "room"
    <3>1. truth'.voiced = truth.voiced /\ truth'.pause <= truth.pause + frame.dt
      BY <1>4, <1>5, <2>1
    <3> QED BY <1>1, <1>2, <1>3, <1>6, <3>1
  <2>2. CASE frame.of # "room"
    <3>1. truth'.voiced <= truth.voiced + frame.dt /\ truth'.pause = 0
      BY <1>2, <1>3, <1>4, <1>5, <2>2
    <3> QED BY <1>1, <1>2, <1>3, <1>6, <3>1
  <2> QED BY <2>1, <2>2
<1>8. truth'.chime \in Nat
  <2>1. truth'.chime = IF frame.of = "chime" THEN Most(truth.chime - frame.dt, 0) ELSE truth.chime
    BY <1>1, WitnessIs
  <2>2. Most(truth.chime - frame.dt, 0) \in Nat
    BY <1>2, <1>3 DEF Most
  <2> QED BY <1>3, <2>1, <2>2
<1>9. /\ truth'.dead \in BOOLEAN /\ truth'.gauged \in BOOLEAN /\ truth'.watched \in BOOLEAN
      /\ truth'.disturbed \in BOOLEAN /\ truth'.missed \in BOOLEAN /\ truth'.invented \in BOOLEAN
  <2>1. ear.capture \in BOOLEAN
    BY <1>1
  <2> QED BY <1>1, <1>3, <2>1, WitnessIs DEF Gauges
<1>10. truth' = [dead |-> truth'.dead, chime |-> truth'.chime, gauged |-> truth'.gauged,
                 voiced |-> truth'.voiced, pause |-> truth'.pause, watched |-> truth'.watched,
                 disturbed |-> truth'.disturbed, missed |-> truth'.missed,
                 invented |-> truth'.invented]
  BY <1>1, WitnessIs
<1>11. truth' \in TruthRecord
  BY <1>6, <1>8, <1>9, <1>10 DEF TruthRecord
<1> QED BY <1>7, <1>11

(* What a frame leaves of the invariant but what it does to the words.     *)
Listened ==
  /\ ear'.spoke \in Nat /\ ear'.silence \in Nat /\ ear'.held \in Seq(FrameRecord)
  /\ Holding' /\ Follows' /\ OnlyVoiceCounts' /\ (truth'.missed => truth'.gauged)

(* A frame of the window is held back.                                     *)
LEMMA HeldBack ==
  ASSUME Overheard, ear.reason = "none", NEW dt, NEW frame, Framing(frame, dt), NEW w,
         NEW floor, Calibrating(frame.at),
         Listen(frame, floor, Peak(frame.level), w), Witness(frame, floor, Peak(frame.level))
  PROVE  Listened
<1> DEFINE held == Append(ear.held, frame)
           D == Duration(ear.held, VoiceIn(ear.held))
<1>1. /\ EndpointTyped /\ ear.elapsed \in Nat /\ ear.spoke \in Nat /\ ear.silence \in Nat
      /\ ear.held \in Seq(FrameRecord)
      /\ truth.voiced \in Nat /\ truth.pause \in Nat
      /\ frame \in FrameRecord /\ Metered(frame) /\ frame.dt \in Nat /\ frame.dt >= 1
      /\ frame.at = ear.elapsed + frame.dt
  BY BoundsAre DEF Overheard, EndpointTyped, EarRecord, TruthRecord, Framing
<1>2. /\ frame.at < CalibrateTo /\ ear.elapsed < CalibrateTo /\ CalibrateTo \in Nat
      /\ MinSpeech \in Nat /\ HangingTime \in Nat
  BY <1>1, BoundsAre DEF Calibrating
<1>3. Judged(frame) = <<>>
  BY DEF Judged
<1>4. Counted(Judged(frame), floor, Peak(frame.level)) = {}
  BY <1>3, EmptyIs DEF Counted
<1>5. /\ ear'.elapsed = frame.at /\ ear'.held = held
      /\ ear'.spoke = Capped(ear.spoke + Duration(<<>>, {}), MinSpeech)
      /\ ear'.silence = Capped(ear.silence + frame.dt, HangingTime)
  <2> DEFINE c == Counted(Judged(frame), floor, Peak(frame.level))
  <2>1. /\ ear'.elapsed = frame.at
        /\ ear'.spoke = Capped(ear.spoke + Duration(Judged(frame), c), MinSpeech)
        /\ ear'.silence = Capped(IF c = {} THEN ear.silence + frame.dt
                                 ELSE frame.at - Judged(frame)[Latest(c)].at, HangingTime)
    BY <1>1, ListenIs
  <2>2. ear'.held = IF Calibrating(frame.at) THEN Append(ear.held, frame) ELSE <<>>
    BY <1>1, ListenIs
  <2>3. c = {}
    BY <1>4
  <2> HIDE DEF c
  <2> QED BY <1>3, <2>1, <2>2, <2>3
<1>6. ear.spoke = 0
  BY <1>2 DEF Overheard, Holding
<1>7. ear'.spoke = 0
  <2>1. Duration(<<>>, {}) = 0
    BY EmptyIs
  <2>2. Capped(0, MinSpeech) = 0
    BY <1>2 DEF Capped, Least
  <2> QED BY <1>5, <1>6, <2>1, <2>2
<1>8. ear'.silence \in Nat
  <2>1. ear.silence + frame.dt \in Nat /\ HangingTime \in Nat
    BY <1>1, <1>2
  <2>2. Capped(ear.silence + frame.dt, HangingTime) \in Nat
    BY <2>1, CappedIs
  <2> QED BY <1>5, <2>2
<1>9. /\ truth'.dead = truth.dead /\ truth'.gauged = Gauges(frame)
      /\ truth'.voiced = IF frame.of = "voice" THEN Capped(truth.voiced + frame.dt, MinSpeech)
                         ELSE truth.voiced
      /\ truth'.pause = IF frame.of # "room" THEN 0 ELSE Capped(truth.pause + frame.dt, HangingTime)
      /\ truth'.disturbed = (truth.disturbed \/ frame.of # "room")
  BY <1>1, WitnessIs
<1>10. truth'.missed = truth.missed /\ truth'.invented = truth.invented
  <2>1. \A i \in DOMAIN Judged(frame) : FALSE
    BY <1>3, EmptyIs
  <2>2. truth.missed \in BOOLEAN /\ truth.invented \in BOOLEAN
    BY <1>1 DEF EndpointTyped, TruthRecord
  <2> QED BY <1>1, <2>1, <2>2, WitnessIs
<1>11. /\ Len(ear.held) \in Nat /\ Len(held) = Len(ear.held) + 1
       /\ DOMAIN ear.held = 1..Len(ear.held) /\ DOMAIN held = 1..Len(held)
       /\ \A i \in 1..Len(ear.held) : held[i] = ear.held[i]
       /\ held[Len(held)] = frame
       /\ \A i \in DOMAIN held : held[i] \in FrameRecord /\ Metered(held[i])
  BY JudgedFrames
<1>12. held \in Seq(FrameRecord)
  BY <1>1
<1>13. /\ D \in Nat /\ Duration(held, VoiceIn(held)) \in Nat
       /\ Duration(held, VoiceIn(held)) = D + IF frame.of = "voice" THEN frame.dt ELSE 0
  BY VoiceIs
<1> HIDE DEF held, D
<1>14. OnlyVoiceCounts' /\ (truth'.missed => truth'.gauged)
  <2>1. ~truth.invented /\ (Gauged => ~truth.missed) /\ (truth.missed => truth.gauged)
    BY DEF Overheard, OnlyVoiceCounts
  <2>2. ~truth'.dead => ~truth'.missed
    BY <1>9, <1>10, <2>1 DEF Gauged
  <2>3. truth'.missed => truth'.gauged
    BY <1>9, <1>10, <2>1 DEF Gauges
  <2> QED BY <1>10, <2>1, <2>2, <2>3 DEF OnlyVoiceCounts, Gauged
<1>15. \A i \in 1..Len(ear.held) : i \in LoudIn(ear.held) <=> i \in LoudIn(held)
  <2>1. \A i \in 1..Len(ear.held) : i \in 1..Len(held)
    BY <1>11
  <2> QED BY <1>11, <2>1 DEF LoudIn
<1>16. Len(held) \in LoudIn(held) <=> frame.of # "room"
  <2>1. Len(held) \in 1..Len(held)
    BY <1>11
  <2> QED BY <1>11, <2>1 DEF LoudIn
<1>17. LoudIn(held) \subseteq 1..Len(held) /\ LoudIn(ear.held) \subseteq 1..Len(ear.held)
  BY <1>11 DEF LoudIn
<1>18. frame.of = "room" => LoudIn(held) = LoudIn(ear.held)
  <2> SUFFICES ASSUME frame.of = "room" PROVE LoudIn(held) = LoudIn(ear.held)
    OBVIOUS
  <2>1. \A i \in LoudIn(held) : i \in 1..Len(ear.held)
    BY <1>11, <1>16, <1>17
  <2>2. \A i \in LoudIn(ear.held) : i \in LoudIn(held)
    BY <1>15, <1>17
  <2> QED BY <1>15, <2>1, <2>2
<1>19. Holding'
  <2>1. \A i \in DOMAIN held :
          /\ IF truth'.dead THEN held[i].level = 0
             ELSE IF held[i].of = "room" THEN held[i].level \in Rooms ELSE held[i].level \in Loud
          /\ held[i].at <= frame.at
    <3> SUFFICES ASSUME NEW i \in DOMAIN held
                 PROVE  /\ IF truth'.dead THEN held[i].level = 0
                           ELSE IF held[i].of = "room" THEN held[i].level \in Rooms
                           ELSE held[i].level \in Loud
                        /\ held[i].at <= frame.at
      OBVIOUS
    <3>1. Metered(held[i]) /\ held[i].at \in Nat
      BY <1>11 DEF FrameRecord
    <3>2. held[i].at <= frame.at
      <4>1. CASE i = Len(held)
        BY <1>1, <1>11, <3>1, <4>1
      <4>2. CASE i # Len(held)
        <5>1. i \in DOMAIN ear.held /\ held[i] = ear.held[i]
          BY <1>11, <4>2
        <5>2. ear.held[i].at <= ear.elapsed
          BY <5>1 DEF Overheard, Holding
        <5> QED BY <1>1, <3>1, <5>1, <5>2
      <4> QED BY <4>1, <4>2
    <3> QED BY <1>9, <3>1, <3>2 DEF Metered
  <2>2. \A i \in DOMAIN ear'.held : Metered(ear.held[i])' /\ ear'.held[i].at <= ear'.elapsed
    BY <1>5, <2>1, Zenon DEF Metered
  <2>3. ~truth'.disturbed => LoudIn(ear'.held) = {}
    BY <1>5, <1>9, <1>18 DEF Overheard, Holding
  <2>4. ~(ear'.elapsed >= CalibrateTo)
    BY <1>1, <1>2, <1>5
  <2> QED BY <1>7, <2>2, <2>3, <2>4 DEF Holding, LoudIn
<1>20. Follows'
  <2> DEFINE E == Duration(held, VoiceIn(held))
  <2>1. /\ truth.voiced <= Capped(ear.spoke + D, MinSpeech)
        /\ LoudIn(ear.held) = {} => truth.pause = ear.silence
        /\ \A k \in LoudIn(ear.held) :
             (\A j \in LoudIn(ear.held) : j <= k) =>
               truth.pause = Capped(ear.elapsed - ear.held[k].at, HangingTime)
    BY <1>2 DEF Overheard, Follows, D
  <2>2. E \in Nat /\ E = D + IF frame.of = "voice" THEN frame.dt ELSE 0
    BY <1>13
  <2> HIDE DEF E
  <2>3. truth'.voiced <= Capped(E, MinSpeech)
    <3>1. ear.spoke + D = D /\ truth.voiced <= Capped(D, MinSpeech)
      BY <1>6, <1>13, <2>1
    <3>2. CASE frame.of = "voice"
      <4>1. E = D + frame.dt /\ truth'.voiced = Capped(truth.voiced + frame.dt, MinSpeech)
        BY <1>9, <2>2, <3>2
      <4>2. Capped(D, MinSpeech) \in Nat /\ Capped(Capped(D, MinSpeech) + frame.dt, MinSpeech) = Capped(D + frame.dt, MinSpeech)
        <5>1. D \in Nat /\ frame.dt \in Nat /\ MinSpeech \in Nat
          BY <1>1, <1>2, <1>13
        <5> QED BY <5>1, CappedIs, CappedAdds
      <4>3. truth.voiced + frame.dt \in Nat /\ Capped(D, MinSpeech) + frame.dt \in Nat
            /\ truth.voiced + frame.dt <= Capped(D, MinSpeech) + frame.dt
        BY <1>1, <3>1, <4>2
      <4>4. Capped(truth.voiced + frame.dt, MinSpeech) <= Capped(Capped(D, MinSpeech) + frame.dt, MinSpeech)
        BY <1>2, <4>3, CappedGrows
      <4> QED BY <4>1, <4>2, <4>4
    <3>3. CASE frame.of # "voice"
      BY <1>9, <1>13, <2>2, <3>1, <3>3
    <3> QED BY <3>2, <3>3
  <2>4. truth'.voiced <= Capped(ear'.spoke + Duration(ear'.held, VoiceIn(ear'.held)), MinSpeech)
    <3>1. ear'.spoke + E = E
      BY <1>7, <2>2
    <3> QED BY <1>5, <2>3, <3>1 DEF E
  <2>5. LoudIn(held) = {} => truth'.pause = ear'.silence
    BY <1>5, <1>9, <1>16, <1>18, <2>1
  <2>6. ASSUME NEW k \in LoudIn(held), \A j \in LoudIn(held) : j <= k
        PROVE  truth'.pause = Capped(frame.at - held[k].at, HangingTime)
    <3>1. CASE frame.of # "room"
      <4>1. k \in 1..Len(held) /\ Len(held) <= k
        BY <1>16, <1>17, <2>6, <3>1
      <4>2. k = Len(held) /\ held[k] = frame
        BY <1>11, <4>1
      <4>3. frame.at - held[k].at = 0
        BY <1>1, <4>2
      <4>4. Capped(0, HangingTime) = 0
        BY <1>2 DEF Capped, Least
      <4> QED BY <1>9, <3>1, <4>3, <4>4
    <3>2. CASE frame.of = "room"
      <4>1. k \in LoudIn(ear.held) /\ \A j \in LoudIn(ear.held) : j <= k
        BY <1>18, <2>6, <3>2
      <4>2. k \in DOMAIN ear.held /\ held[k] = ear.held[k] /\ k \in DOMAIN held
        BY <1>11, <1>17, <2>6, <4>1
      <4>3. truth.pause = Capped(ear.elapsed - ear.held[k].at, HangingTime)
        BY <2>1, <4>1
      <4>4. ear.held[k].at \in Nat /\ ear.held[k].at <= ear.elapsed
        <5>1. held[k].at \in Nat
          BY <1>11, <4>2 DEF FrameRecord
        <5> QED BY <4>2, <5>1 DEF Overheard, Holding
      <4> DEFINE gap == ear.elapsed - ear.held[k].at
      <4>5. gap \in Nat /\ frame.at - held[k].at = gap + frame.dt
        BY <1>1, <4>2, <4>4
      <4> HIDE DEF gap
      <4>6. Capped(Capped(gap, HangingTime) + frame.dt, HangingTime) = Capped(gap + frame.dt, HangingTime)
        <5>1. gap \in Nat /\ frame.dt \in Nat /\ HangingTime \in Nat
          BY <1>1, <1>2, <4>5
        <5> QED BY <5>1, CappedAdds
      <4> QED BY <1>9, <3>2, <4>3, <4>5, <4>6 DEF gap
    <3> QED BY <3>1, <3>2
  <2> QED BY <1>5, <2>4, <2>5, <2>6 DEF Follows, LoudIn, VoiceIn
<1> QED BY <1>5, <1>7, <1>8, <1>12, <1>14, <1>19, <1>20 DEF Listened

(* A later frame is judged, the first with all that was held.              *)
LEMMA JudgedAtOnce ==
  ASSUME Overheard, ear.reason = "none", NEW dt, NEW frame, Framing(frame, dt), NEW w,
         NEW floor \in Floors(frame.at, frame.level), ~Calibrating(frame.at),
         Listen(frame, floor, Peak(frame.level), w), Witness(frame, floor, Peak(frame.level))
  PROVE  Listened
<1> DEFINE judged == Append(ear.held, frame)
           counted == Counted(judged, floor, Peak(frame.level))
           since == IF counted = {} THEN ear.silence + frame.dt
                    ELSE frame.at - judged[Latest(counted)].at
           T == Duration(judged, counted)
           D == Duration(ear.held, VoiceIn(ear.held))
<1>1. /\ EndpointTyped /\ ear.elapsed \in Nat /\ ear.spoke \in Nat /\ ear.silence \in Nat
      /\ truth.voiced \in Nat /\ truth.pause \in Nat
      /\ frame.dt \in Nat /\ frame.dt >= 1 /\ frame.at = ear.elapsed + frame.dt
  BY BoundsAre DEF Overheard, EndpointTyped, EarRecord, TruthRecord, Framing, FrameRecord
<1>2. /\ ~(frame.at < CalibrateTo) /\ CalibrateTo \in Nat /\ MinSpeech \in Nat /\ HangingTime \in Nat
  BY BoundsAre DEF Calibrating
<1>3. Judged(frame) = judged
  BY DEF Judged
<1>4. /\ ear'.elapsed = frame.at /\ ear'.held = <<>>
      /\ ear'.spoke = Capped(ear.spoke + T, MinSpeech)
      /\ ear'.silence = Capped(since, HangingTime)
  <2> DEFINE c == Counted(Judged(frame), floor, Peak(frame.level))
  <2>1. /\ ear'.elapsed = frame.at
        /\ ear'.held = IF Calibrating(frame.at) THEN Append(ear.held, frame) ELSE <<>>
        /\ ear'.spoke = Capped(ear.spoke + Duration(Judged(frame), c), MinSpeech)
        /\ ear'.silence = Capped(IF c = {} THEN ear.silence + frame.dt
                                 ELSE frame.at - Judged(frame)[Latest(c)].at, HangingTime)
    BY <1>1, ListenIs
  <2>2. c = counted
    BY <1>3
  <2> HIDE DEF c, counted, judged
  <2> QED BY <1>3, <2>1, <2>2
<1>5. /\ truth'.dead = truth.dead /\ truth'.gauged = Gauges(frame)
      /\ truth'.voiced = IF frame.of = "voice" THEN Capped(truth.voiced + frame.dt, MinSpeech)
                         ELSE truth.voiced
      /\ truth'.pause = IF frame.of # "room" THEN 0 ELSE Capped(truth.pause + frame.dt, HangingTime)
      /\ truth'.disturbed = (truth.disturbed \/ frame.of # "room")
  BY <1>1, WitnessIs
<1>6. /\ truth'.missed = (truth.missed \/ (Gauges(frame) /\ \E i \in DOMAIN judged :
                            judged[i].of = "voice" /\ i \notin counted))
      /\ truth'.invented = (truth.invented \/ \E i \in DOMAIN judged :
                              judged[i].of = "room" /\ i \in counted)
  <2>1. /\ truth'.missed = (truth.missed \/ (Gauges(frame) /\ \E i \in DOMAIN judged :
                              judged[i].of = "voice" /\ ~Above(judged[i].level, floor, Peak(frame.level))))
        /\ truth'.invented = (truth.invented \/ \E i \in DOMAIN judged :
                                judged[i].of = "room" /\ Above(judged[i].level, floor, Peak(frame.level)))
    <3>1. /\ truth'.missed = (truth.missed \/ (Gauges(frame) /\ \E i \in DOMAIN Judged(frame) :
                /\ Judged(frame)[i].of = "voice"
                /\ ~Above(Judged(frame)[i].level, floor, Peak(frame.level))))
          /\ truth'.invented = (truth.invented \/ \E i \in DOMAIN Judged(frame) :
                /\ Judged(frame)[i].of = "room"
                /\ Above(Judged(frame)[i].level, floor, Peak(frame.level)))
      BY <1>1, WitnessIs
    <3> HIDE DEF judged, counted
    <3> QED BY <1>3, <3>1
  <2>2. \A i \in DOMAIN judged : i \in counted <=> Above(judged[i].level, floor, Peak(frame.level))
    BY DEF Counted
  <2> HIDE DEF judged, counted
  <2> QED BY <2>1, <2>2
<1>7. /\ counted \subseteq LoudIn(judged)
      /\ truth.dead => counted = {}
      /\ Gauges(frame) /\ ~truth.dead => counted = LoudIn(judged)
  BY CountedRightly
<1>8. /\ T \in Nat /\ D \in Nat /\ (counted = {} => T = 0)
      /\ Gauges(frame) /\ ~truth.dead => D + (IF frame.of = "voice" THEN frame.dt ELSE 0) <= T
  BY SpokenIs
<1>9. /\ since \in Nat
      /\ Gauges(frame) /\ ~truth.dead =>
           Capped(since, HangingTime) =
             IF frame.of # "room" THEN 0 ELSE Capped(truth.pause + frame.dt, HangingTime)
  BY SilenceIs
<1>10. frame.of = "room" /\ LoudIn(ear.held) = {} => LoudIn(judged) = {}
  <2>1. /\ Len(ear.held) \in Nat /\ Len(judged) = Len(ear.held) + 1
        /\ DOMAIN ear.held = 1..Len(ear.held) /\ DOMAIN judged = 1..Len(judged)
        /\ \A i \in 1..Len(ear.held) : judged[i] = ear.held[i]
        /\ judged[Len(judged)] = frame
    BY JudgedFrames
  <2> HIDE DEF judged
  <2> SUFFICES ASSUME frame.of = "room", LoudIn(ear.held) = {}, NEW i \in DOMAIN judged
               PROVE  judged[i].of = "room"
    BY DEF LoudIn
  <2>2. CASE i = Len(judged)
    BY <2>1, <2>2
  <2>3. CASE i # Len(judged)
    <3>1. i \in DOMAIN ear.held /\ judged[i] = ear.held[i]
      BY <2>1, <2>3
    <3> QED BY <3>1 DEF LoudIn
  <2> QED BY <2>2, <2>3
<1> HIDE DEF judged, counted, since, T, D
<1>11. ear'.spoke \in Nat /\ ear'.silence \in Nat
  <2>1. ear.spoke + T \in Nat
    BY <1>1, <1>8
  <2>2. Capped(ear.spoke + T, MinSpeech) \in Nat /\ Capped(since, HangingTime) \in Nat
    <3>1. MinSpeech \in Nat /\ HangingTime \in Nat /\ since \in Nat
      BY <1>2, <1>9
    <3> QED BY <2>1, <3>1, CappedIs
  <2> QED BY <1>4, <2>2
<1>12. ear'.held \in Seq(FrameRecord)
  BY <1>4
<1>13. OnlyVoiceCounts' /\ (truth'.missed => truth'.gauged)
  <2>1. ~truth.invented /\ (Gauged => ~truth.missed) /\ (truth.missed => truth.gauged)
    BY DEF Overheard, OnlyVoiceCounts
  <2>2. ~truth'.invented
    BY <1>6, <1>7, <2>1 DEF LoudIn
  <2>3. truth'.missed => truth'.gauged
    BY <1>5, <1>6, <2>1 DEF Gauges
  <2>4. ~truth'.dead => ~truth'.missed
    <3> SUFFICES ASSUME ~truth'.dead, truth'.missed PROVE FALSE
      OBVIOUS
    <3>1. ~truth.dead /\ ~truth.missed
      BY <1>5, <2>1 DEF Gauged
    <3>2. PICK i \in DOMAIN judged : judged[i].of = "voice" /\ i \notin counted /\ Gauges(frame)
      BY <1>6, <3>1
    <3> QED BY <1>7, <3>1, <3>2 DEF LoudIn
  <2> QED BY <2>2, <2>3, <2>4 DEF OnlyVoiceCounts, Gauged
<1>14. Holding'
  <2>1. ~truth'.disturbed => ear'.spoke = 0
    <3> SUFFICES ASSUME ~truth'.disturbed PROVE ear'.spoke = 0
      OBVIOUS
    <3>1. ~truth.disturbed /\ frame.of = "room"
      BY <1>5
    <3>2. LoudIn(ear.held) = {} /\ ear.spoke = 0
      BY <3>1 DEF Overheard, Holding
    <3>3. counted = {}
      BY <1>7, <1>10, <3>1, <3>2
    <3>4. ear.spoke + T = 0
      BY <1>8, <3>2, <3>3
    <3>5. Capped(0, MinSpeech) = 0
      BY <1>2 DEF Capped, Least
    <3> QED BY <1>4, <3>4, <3>5
  <2>2. truth'.dead => ear'.spoke = 0
    <3> SUFFICES ASSUME truth'.dead PROVE ear'.spoke = 0
      OBVIOUS
    <3>1. counted = {} /\ ear.spoke = 0
      BY <1>5, <1>7 DEF Overheard, Holding
    <3>2. ear.spoke + T = 0
      BY <1>8, <3>1
    <3>3. Capped(0, MinSpeech) = 0
      BY <1>2 DEF Capped, Least
    <3> QED BY <1>4, <3>2, <3>3
  <2>3. DOMAIN ear'.held = {} /\ LoudIn(ear'.held) = {}
    BY <1>4, EmptyIs
  <2>4. ~(ear'.elapsed < CalibrateTo)
    BY <1>2, <1>4
  <2> QED BY <1>4, <2>1, <2>2, <2>3, <2>4 DEF Holding, LoudIn
<1>15. Follows'
  <2>1. LoudIn(ear'.held) = {} /\ Duration(ear'.held, VoiceIn(ear'.held)) = 0
    BY <1>4, EmptyIs
  <2>2. ASSUME truth'.gauged, ~truth'.dead
        PROVE  truth'.voiced <= ear'.spoke /\ truth'.pause = ear'.silence
    <3>1. Gauges(frame) /\ ~truth.dead
      BY <1>5, <2>2
    <3>2. truth'.pause = ear'.silence
      BY <1>4, <1>5, <1>9, <3>1
    <3>3. ear.elapsed < CalibrateTo \/ Gauged
      BY <3>1 DEF Gauges, Calibrating, Gauged
    <3>4. truth.voiced <= Capped(ear.spoke + D, MinSpeech)
      BY <3>3 DEF Overheard, Follows, D
    <3> DEFINE S == ear.spoke + D
               v == IF frame.of = "voice" THEN frame.dt ELSE 0
    <3>5. S \in Nat /\ v \in Nat /\ D + v <= T /\ ear.spoke + T \in Nat /\ S + v <= ear.spoke + T
      BY <1>1, <1>8, <3>1
    <3>6. truth.voiced <= Capped(S, MinSpeech)
      BY <3>4
    <3>7. S \in Nat /\ v \in Nat /\ S + v \in Nat /\ MinSpeech \in Nat
      BY <1>2, <3>5
    <3>8. truth'.voiced = (IF frame.of = "voice" THEN Capped(truth.voiced + v, MinSpeech) ELSE truth.voiced)
          /\ (frame.of # "voice" => v = 0)
      BY <1>5
    <3> HIDE DEF S, v
    <3>9. /\ Capped(S, MinSpeech) \in Nat
          /\ Capped(Capped(S, MinSpeech) + v, MinSpeech) = Capped(S + v, MinSpeech)
      BY <3>7, CappedIs, CappedAdds
    <3>10. Capped(S + v, MinSpeech) <= Capped(ear.spoke + T, MinSpeech)
      BY <3>5, <3>7, CappedGrows
    <3>11. truth'.voiced <= Capped(S + v, MinSpeech)
      <4>1. CASE frame.of = "voice"
        <5>1. /\ truth.voiced + v \in Nat /\ Capped(S, MinSpeech) + v \in Nat
              /\ truth.voiced + v <= Capped(S, MinSpeech) + v
          BY <1>1, <3>6, <3>7, <3>9
        <5>2. Capped(truth.voiced + v, MinSpeech) <= Capped(Capped(S, MinSpeech) + v, MinSpeech)
          BY <3>7, <5>1, CappedGrows
        <5> QED BY <3>8, <3>9, <4>1, <5>2
      <4>2. CASE frame.of # "voice"
        <5>1. S + v = S
          BY <3>7, <3>8, <4>2
        <5> QED BY <3>6, <3>8, <4>2, <5>1
      <4> QED BY <4>1, <4>2
    <3>12. Capped(S + v, MinSpeech) \in Nat /\ Capped(ear.spoke + T, MinSpeech) \in Nat
      BY <3>5, <3>7, CappedIs
    <3>13. truth'.voiced \in Nat
      <4>1. truth.voiced + v \in Nat
        BY <1>1, <3>7
      <4>2. Capped(truth.voiced + v, MinSpeech) \in Nat
        BY <3>7, <4>1, CappedIs
      <4> QED BY <1>1, <3>8, <4>2
    <3> QED BY <1>4, <3>2, <3>10, <3>11, <3>12, <3>13
  <2>3. Capped(ear'.spoke + 0, MinSpeech) = ear'.spoke
    <3>1. ear.spoke + T \in Nat /\ 0 \in Nat
      BY <1>1, <1>8
    <3>2. Capped(Capped(ear.spoke + T, MinSpeech) + 0, MinSpeech) = Capped(ear.spoke + T + 0, MinSpeech)
      <4>1. MinSpeech \in Nat
        BY <1>2
      <4> QED BY <3>1, <4>1, CappedAdds
    <3>3. ear.spoke + T + 0 = ear.spoke + T
      BY <3>1
    <3> QED BY <1>4, <3>2, <3>3
  <2>4. ~(ear'.elapsed < CalibrateTo)
    BY <1>2, <1>4
  <2> QED BY <2>1, <2>2, <2>3, <2>4 DEF Follows, Gauged, LoudIn, VoiceIn
<1> QED BY <1>11, <1>12, <1>13, <1>14, <1>15 DEF Listened

LEMMA HearKeeps ==
  ASSUME Overheard, Hear
  PROVE  Overheard'
<1>0. PICK sound \in Sound, dt \in Frames, w \in Captions : \E floor : Heeds(sound, dt, w, floor)
  BY HearIs
<1>1. PICK floor : Heeds(sound, dt, w, floor)
  BY <1>0
<1> DEFINE frame == Frame(sound, ear.elapsed + dt, dt)
           peak == Peak(frame.level)
<1>2. /\ EndpointTyped /\ ear \in EarRecord /\ words \in {"open", "hanging", "complete"}
      /\ Tuned(ear.floor, ear.peak, truth.gauged, ear.elapsed)
  BY DEF Overheard, EndpointTyped
<1>3. w \in {"open", "hanging", "complete"}
  BY <1>2 DEF Captions
<1>4. Framing(frame, dt)
  BY <1>2, FrameIs
<1>5. /\ floor \in Floors(frame.at, frame.level)
      /\ Listen(frame, floor, peak, w) /\ Witness(frame, floor, peak)
      /\ words' = w /\ ear.reason = "none"
  BY <1>1 DEF Heeds
<1>6. floor \in Nat /\ peak \in Nat /\ Tuned(floor, peak, Gauges(frame), frame.at)
  BY <1>2, <1>4, <1>5, StaysTuned
<1> HIDE DEF frame
<1>7. Listened
  <2>1. CASE Calibrating(frame.at)
    BY <1>4, <1>5, <2>1, HeldBack
  <2>2. CASE ~Calibrating(frame.at)
    BY <1>4, <1>5, <2>2, JudgedAtOnce
  <2> QED BY <2>1, <2>2
<1>8. Watching' /\ ear'.reason \in {"none", "silence", "max-duration", "no-speech"}
  BY <1>1, <1>3, <1>7, WatchKeeps DEF Listened
<1>9. truth' \in TruthRecord /\ truth'.voiced + truth'.pause <= frame.at
  BY <1>4, <1>5, TruthKeeps
<1>10. /\ ear'.elapsed = frame.at /\ ear'.floor = floor /\ ear'.peak = peak
       /\ ear'.capture = ear.capture /\ ear'.recogniser = ear.recogniser
       /\ ear' = [elapsed |-> ear'.elapsed, floor |-> ear'.floor, peak |-> ear'.peak,
                  held |-> ear'.held, spoke |-> ear'.spoke, silence |-> ear'.silence,
                  capture |-> ear'.capture, recogniser |-> ear'.recogniser,
                  reason |-> ear'.reason]
  BY <1>2, <1>5, ListenIs
<1>11. frame.at \in Nat
  BY <1>4 DEF Framing, FrameRecord
<1>12. ear' \in EarRecord
  <2>1. ear.capture \in BOOLEAN /\ ear.recogniser \in BOOLEAN
    BY <1>2 DEF EarRecord
  <2> QED BY <1>6, <1>7, <1>8, <1>10, <1>11, <2>1 DEF EarRecord, Listened
<1>13. truth'.dead = truth.dead /\ truth'.gauged = Gauges(frame)
  BY <1>2, <1>5, WitnessIs
<1>14. Tuned(ear.floor, ear.peak, truth.gauged, ear.elapsed)'
  BY <1>6, <1>10, <1>13 DEF Tuned, Climbed
<1>15. EndpointTyped'
  BY <1>3, <1>5, <1>9, <1>12 DEF EndpointTyped
<1> QED BY <1>7, <1>8, <1>9, <1>10, <1>14, <1>15 DEF Listened, Overheard

LEMMA CaptureReadyKeeps ==
  ASSUME Overheard, CaptureReady
  PROVE  Overheard'
<1>1. PICK has \in BOOLEAN : ear' = [ear EXCEPT !.capture = TRUE, !.recogniser = has]
  BY DEF CaptureReady
<1>2. ear.reason = "none" /\ ~ear.capture /\ truth' = truth /\ words' = words
  BY DEF CaptureReady
<1>3. ear \in EarRecord /\ truth \in TruthRecord
  BY DEF Overheard, EndpointTyped
<1>4. /\ ear' \in EarRecord
      /\ ear'.elapsed = ear.elapsed /\ ear'.floor = ear.floor /\ ear'.peak = ear.peak
      /\ ear'.held = ear.held /\ ear'.spoke = ear.spoke /\ ear'.silence = ear.silence
      /\ ear'.reason = ear.reason /\ ear'.capture = TRUE
  BY <1>1, <1>3, Zenon DEF EarRecord
<1>5. EndpointTyped'
  BY <1>2, <1>3, <1>4 DEF EndpointTyped, Overheard
<1>6. Tuned(ear.floor, ear.peak, truth.gauged, ear.elapsed)'
  BY <1>2, <1>4 DEF Overheard, Tuned
<1>7. Holding'
  BY <1>2, <1>4 DEF Overheard, Holding, Metered, LoudIn
<1>8. Follows'
  BY <1>2, <1>4 DEF Overheard, Follows, Gauged, LoudIn, VoiceIn
<1>9. Watching'
  BY <1>2, <1>4 DEF Overheard, Watching
<1>10. (truth.voiced + truth.pause <= ear.elapsed)' /\ OnlyVoiceCounts' /\ (truth.missed => truth.gauged)'
  BY <1>2, <1>4 DEF Overheard, OnlyVoiceCounts, Gauged
<1> QED BY <1>5, <1>6, <1>7, <1>8, <1>9, <1>10 DEF Overheard

LEMMA OverheardAtFirst == EndpointInit => Overheard
<1> SUFFICES ASSUME EndpointInit PROVE Overheard
  OBVIOUS
<1>1. /\ ear.elapsed = 0 /\ ear.floor = 255 /\ ear.peak = 0 /\ ear.held = <<>> /\ ear.spoke = 0
      /\ ear.silence = 0 /\ ear.capture = FALSE /\ ear.reason = "none" /\ words = "open"
  BY DEF EndpointInit, Loudest
<1>2. ear \in EarRecord
  BY DEF EndpointInit, Loudest, EarRecord
<1>3. /\ truth \in TruthRecord /\ ~truth.gauged /\ truth.voiced = 0 /\ truth.pause = 0
      /\ ~truth.watched /\ ~truth.missed /\ ~truth.invented
  <2>1. truth \in [dead : BOOLEAN, chime : {ToneTime}, gauged : {FALSE}, voiced : {0},
                   pause : {0}, watched : {FALSE}, disturbed : {FALSE}, missed : {FALSE},
                   invented : {FALSE}]
    BY DEF EndpointInit
  <2>2. ToneTime \in Nat
    BY BoundsAre
  <2>3. truth \in TruthRecord
    <3>1. /\ truth.dead \in BOOLEAN /\ truth.chime \in Nat /\ truth.gauged \in BOOLEAN
          /\ truth.voiced \in Nat /\ truth.pause \in Nat /\ truth.watched \in BOOLEAN
          /\ truth.disturbed \in BOOLEAN /\ truth.missed \in BOOLEAN /\ truth.invented \in BOOLEAN
      <4>1. /\ truth.dead \in BOOLEAN /\ truth.gauged \in {FALSE} /\ truth.watched \in {FALSE}
            /\ truth.disturbed \in {FALSE} /\ truth.missed \in {FALSE} /\ truth.invented \in {FALSE}
        BY <2>1, Zenon
      <4>2. truth.chime = ToneTime /\ truth.voiced = 0 /\ truth.pause = 0
        BY <2>1, Zenon
      <4>3. truth.chime \in Nat /\ truth.voiced \in Nat /\ truth.pause \in Nat
        BY <2>2, <4>2
      <4>4. /\ truth.gauged \in BOOLEAN /\ truth.watched \in BOOLEAN /\ truth.disturbed \in BOOLEAN
            /\ truth.missed \in BOOLEAN /\ truth.invented \in BOOLEAN
        BY <4>1, Zenon
      <4> QED BY <4>1, <4>3, <4>4, Zenon
    <3>2. truth = [dead |-> truth.dead, chime |-> truth.chime, gauged |-> truth.gauged,
                   voiced |-> truth.voiced, pause |-> truth.pause, watched |-> truth.watched,
                   disturbed |-> truth.disturbed, missed |-> truth.missed, invented |-> truth.invented]
      BY <2>1
    <3> QED BY <3>1, <3>2 DEF TruthRecord
  <2> QED BY <2>1, <2>3
<1>4. EndpointTyped
  BY <1>1, <1>2, <1>3 DEF EndpointTyped
<1>5. Tuned(ear.floor, ear.peak, truth.gauged, ear.elapsed)
  <2>1. \A l \in Loud : 10 * l > 3 * 0
    <3>1. \A l \in Loud : l \in Nat /\ l >= 2
      BY BoundsAre
    <3> QED BY <3>1
  <2>2. \A r \in Rooms : r <= 255 + Headroom
    BY BoundsAre
  <2> QED BY <1>1, <1>3, <2>1, <2>2 DEF Tuned
<1>6. Holding
  BY <1>1, BoundsAre, EndpointAssumption, EmptyIs DEF Holding
<1>7. Follows
  <2>1. Duration(ear.held, VoiceIn(ear.held)) = 0 /\ LoudIn(ear.held) = {}
    BY <1>1, EmptyIs
  <2>2. ear.spoke + 0 = 0 /\ Capped(0, MinSpeech) = 0
    BY <1>1, BoundsAre DEF Capped, Least
  <2> QED BY <1>1, <1>3, <2>1, <2>2 DEF Follows
<1>8. Watching
  BY <1>1, <1>3, BoundsAre DEF Watching
<1> QED BY <1>1, <1>3, <1>4, <1>5, <1>6, <1>7, <1>8 DEF Overheard, OnlyVoiceCounts

(* A capture is asked for what it took when the recording has ended.       *)
TakenAtEnd == taken # NotTaken => ear.reason # "none"

LEMMA TakenStep == TakenAtEnd /\ [EndpointNext]_endpointVars => TakenAtEnd'
<1> SUFFICES ASSUME TakenAtEnd, [EndpointNext]_endpointVars PROVE TakenAtEnd'
  OBVIOUS
<1>1. CASE Hear \/ CaptureReady
  <2>1. taken = NotTaken /\ taken' = taken
    BY <1>1 DEF Hear, CaptureReady, TakenAtEnd
  <2> QED BY <2>1 DEF TakenAtEnd
<1>2. CASE CaptureStops \/ UNCHANGED endpointVars
  BY <1>2 DEF CaptureStops, endpointVars, TakenAtEnd
<1> QED BY <1>1, <1>2 DEF EndpointNext

LEMMA RecordingStep == Overheard /\ [EndpointNext]_endpointVars => Overheard'
<1> SUFFICES ASSUME Overheard, [EndpointNext]_endpointVars PROVE Overheard'
  OBVIOUS
<1>1. CASE Hear
  BY <1>1, HearKeeps
<1>2. CASE CaptureReady
  BY <1>2, CaptureReadyKeeps
<1>3. CASE CaptureStops \/ UNCHANGED endpointVars
  <2>1. ear' = ear /\ words' = words /\ truth' = truth
    BY <1>3 DEF CaptureStops, endpointVars
  <2>2. Reason(ear.spoke, ear.silence, words, ear.elapsed)' = Reason(ear.spoke, ear.silence, words, ear.elapsed)
    BY <2>1, Zenon DEF Reason, silenceWindow
  <2> QED BY <2>1, <2>2 DEF Overheard, EndpointTyped, Tuned, Holding, Metered, LoudIn, VoiceIn, Follows,
          Gauged, OnlyVoiceCounts, Watching
<1> QED BY <1>1, <1>2, <1>3 DEF EndpointNext

(* The recording is what was said: the shopper's frames count and no       *)
(* others, a pause is not the end and the end not a pause, and what is     *)
(* sent was spoken.                                                        *)
LEMMA HeardIs == Overheard /\ TakenAtEnd => HeardAsSpoken
<1> SUFFICES ASSUME Overheard, TakenAtEnd PROVE HeardAsSpoken
  OBVIOUS
<1>1. /\ EndpointTyped /\ ear.elapsed \in Nat /\ ear.spoke \in Nat /\ ear.silence \in Nat
      /\ ear.peak \in Nat /\ truth.voiced \in Nat /\ truth.pause \in Nat
      /\ truth.voiced + truth.pause <= ear.elapsed
      /\ words \in {"open", "hanging", "complete"} /\ truth.watched \in BOOLEAN
  BY DEF Overheard, EndpointTyped, EarRecord, TruthRecord
<1>2. /\ MinSpeech \in Nat /\ MinSpeech > 0 /\ CalibrateTo \in Nat /\ GiveUpTime \in Nat
      /\ CompleteTime \in Nat /\ MaxUtterance \in Nat
      /\ CalibrateTo < GiveUpTime /\ GiveUpTime < MaxUtterance
      /\ CalibrateTo <= MinSpeech + CompleteTime
  BY BoundsAre, EndpointAssumption
<1>3. /\ silenceWindow(words) \in Nat /\ CompleteTime <= silenceWindow(words)
      /\ truth.watched =>
           /\ ear.capture
           /\ ear.reason = "silence" => ear.spoke > MinSpeech /\ ear.silence > silenceWindow(words)
           /\ ear.reason # "none" => ear.spoke > MinSpeech \/ ear.elapsed > GiveUpTime
           /\ ear.reason = "none" =>
                /\ ear.elapsed <= MaxUtterance
                /\ ear.spoke = 0 => ear.elapsed <= GiveUpTime
                /\ ~(ear.spoke > MinSpeech /\ ear.silence > silenceWindow(words))
  <2>1. truth.watched => ear.capture /\ ear.reason = Reason(ear.spoke, ear.silence, words, ear.elapsed)
    BY DEF Overheard, Watching
  <2> QED BY <1>1, <2>1, ReasonIs
<1>4. ear.reason # "none" => truth.watched
  BY DEF Overheard, Watching
<1>5. ear.elapsed < CalibrateTo => ear.spoke = 0
  BY DEF Overheard, Holding
<1>6. ear.elapsed >= CalibrateTo /\ Gauged => truth.voiced <= ear.spoke /\ truth.pause = ear.silence
  <2> SUFFICES ASSUME ear.elapsed >= CalibrateTo, Gauged
               PROVE  truth.voiced <= ear.spoke /\ truth.pause = ear.silence
    OBVIOUS
  <2>1. ear.held = <<>>
    BY DEF Overheard, Holding
  <2>2. LoudIn(ear.held) = {} /\ Duration(ear.held, VoiceIn(ear.held)) = 0
    BY <2>1, EmptyIs
  <2>3. ear.spoke + 0 = ear.spoke /\ Capped(ear.spoke, MinSpeech) <= ear.spoke
        /\ Capped(ear.spoke, MinSpeech) \in Nat
    <3>1. ear.spoke \in Nat /\ MinSpeech \in Nat
      BY <1>1, <1>2
    <3> QED BY <3>1, CappedIs
  <2>4. truth.voiced <= Capped(ear.spoke, MinSpeech) /\ truth.pause = ear.silence
    BY <2>2, <2>3 DEF Overheard, Follows
  <2> QED BY <1>1, <2>3, <2>4
<1>7. ear.reason # "none" => ear.elapsed >= CalibrateTo
  BY <1>1, <1>2, <1>3, <1>4, <1>5
<1>8. OnlyVoiceCounts
  BY DEF Overheard
<1>9. PausesAreRespected
  <2> SUFFICES ASSUME ear.reason = "silence", Gauged PROVE truth.pause > silenceWindow(words)
    BY DEF PausesAreRespected
  <2> QED BY <1>3, <1>4, <1>6, <1>7
<1>10. EndsWhenDone
  <2> SUFFICES ASSUME ear.reason = "none", truth.watched
               PROVE  /\ ear.elapsed <= MaxUtterance
                      /\ ~truth.disturbed => ear.elapsed <= GiveUpTime
                      /\ Gauged /\ truth.voiced > MinSpeech => truth.pause <= silenceWindow(words)
    BY DEF EndsWhenDone, Listening
  <2>1. ~truth.disturbed => ear.spoke = 0
    BY DEF Overheard, Holding
  <2>2. ASSUME Gauged, truth.voiced > MinSpeech PROVE truth.pause <= silenceWindow(words)
    <3>1. CASE ear.elapsed < CalibrateTo
      BY <1>1, <1>2, <1>3, <2>2, <3>1
    <3>2. CASE ~(ear.elapsed < CalibrateTo)
      <4>1. ear.spoke > MinSpeech /\ truth.pause = ear.silence
        BY <1>1, <1>2, <1>6, <2>2, <3>2
      <4> QED BY <1>1, <1>3, <4>1
    <3> QED BY <3>1, <3>2
  <2> QED BY <1>3, <2>1, <2>2
<1>11. SentWasSpoken
  <2> SUFFICES ASSUME taken # NotTaken
               PROVE  /\ Gauged /\ truth.voiced >= MinSpeech /\ taken.holds = "sound" => Sent
                      /\ ~truth.disturbed /\ ~truth.dead => ~Sent
                      /\ truth.dead => (Sent <=> Delivered)
                      /\ Sent => taken.holds = "sound" \/ taken.by = "recorder"
    BY DEF SentWasSpoken, TakenAtEnd
  <2> ear.reason # "none"
    BY DEF TakenAtEnd
  <2>1. Gauged /\ truth.voiced >= MinSpeech /\ taken.holds = "sound" => Sent
    BY <1>1, <1>2, <1>6, <1>7 DEF Sent, Delivered
  <2>2. ~truth.disturbed /\ ~truth.dead => ~Sent
    <3>1. ~truth.disturbed => ear.spoke = 0
      BY DEF Overheard, Holding
    <3>2. ear.elapsed > 0
      BY <1>1, <1>2, <1>7, BoundsAre, EndpointAssumption
    <3>3. ~truth.dead => ear.peak > 0
      BY <3>2 DEF Overheard, Tuned
    <3> QED BY <1>1, <1>2, <3>1, <3>3 DEF Sent
  <2>3. truth.dead => (Sent <=> Delivered)
    BY DEF Overheard, Tuned, Sent
  <2>4. Sent => taken.holds = "sound" \/ taken.by = "recorder"
    BY DEF Sent, Delivered
  <2> QED BY <2>1, <2>2, <2>3, <2>4
<1> QED BY <1>8, <1>9, <1>10, <1>11 DEF HeardAsSpoken

(* What is sent as a turn is what the shopper said and wants sent: no room *)
(* that wanders within the headroom is heard as a voice, no word is lost   *)
(* to the measuring of the room, no pause shorter than the words allow     *)
(* ends the turn, none goes on for ever, and what was tapped off is not    *)
(* sent.  For any loudness, any frames and times that fit one another.     *)
THEOREM TurnsAreWhatWasSaid == DictationSpec => []OnlyWhatWasSaid
<1> DEFINE Inv == Page /\ Overheard /\ TakenAtEnd
<1>1. DictationInit => Inv
  <2>1. EndpointInit => TakenAtEnd
    BY DEF EndpointInit, TakenAtEnd
  <2> QED BY <2>1, PageInit, OverheardAtFirst DEF DictationInit
<1>2. Inv /\ [DictationNext]_dictationVars => Inv'
  <2> SUFFICES ASSUME Inv, [DictationNext]_dictationVars PROVE Inv'
    OBVIOUS
  <2>1. [Next]_vars /\ [EndpointNext]_endpointVars
    BY DEF DictationNext, dictationVars
  <2> QED BY <2>1, PageStep, RecordingStep, TakenStep
<1>3. Inv => OnlyWhatWasSaid
  BY NothingCancelledIsSent, HeardIs DEF OnlyWhatWasSaid
<1> QED BY <1>1, <1>2, <1>3, PTL DEF DictationSpec
=============================================================================
