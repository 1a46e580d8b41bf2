-------------------------------- MODULE Chat --------------------------------
(***************************************************************************)
(* The way of a message through handleChat (server.ts): the service level  *)
(* of resilience/ladder.ts, the two lanes that answer without a model      *)
(* (page-facts.ts, intents.ts), the model, and what of it is remembered.   *)
(* Three places hold products: the cards on screen, the chips under them,  *)
(* and session.products, against which the next message is read.           *)
(*                                                                         *)
(* A message is what the two classifiers make of it; the words are theirs. *)
(***************************************************************************)
EXTENDS Integers, Sequences, FiniteSets

CONSTANTS
  Goods,        \* products
  Hues,         \* COLOURS, a sequence
  Hue,          \* the colours a product mentions
  Tag,          \* its lowest price in minor units, or NoPrice
  NoPrice,
  Unit,         \* minor units in the unit a chip is worded in
  MaxVisible,   \* MAX_VISIBLE_PRODUCTS
  MaxChips,     \* max of suggestChips
  MaxMessages,  \* bound: messages of the conversation
  Nowhere       \* not on a product page

ASSUME ChatAssumption ==
  /\ Unit \in Nat \ {0} /\ MaxVisible \in Nat \ {0} /\ MaxChips \in Nat /\ MaxMessages \in Nat
  /\ IsFiniteSet(Goods) /\ NoPrice \notin Nat /\ \A p \in Goods : Tag[p] \in Nat \cup {NoPrice}

VARIABLES
  page,      \* the product page the shopper is on
  cards,     \* the cards of the panel
  chips,     \* the filters its chips say
  memory,    \* session.products as saved
  turn,      \* the turn under way: [step, message, work]
  messages,
  promise    \* history: the chips' products are remembered: "made", "kept", "broken"

chatVars == <<page, cards, chips, memory, turn, messages, promise>>

Plain(kind) == [kind |-> kind, by |-> "none", colour |-> "none", minor |-> 0]
NoMessage == Plain("none")
NoTurn == [step |-> "idle", message |-> NoMessage, work |-> <<>>]
Items(s) == {s[k] : k \in 1..Len(s)}

ChatInit ==
  /\ page = Nowhere /\ cards = <<>> /\ chips = {} /\ memory = <<>> /\ turn = NoTurn
  /\ messages = 0 /\ promise = "kept"

-----------------------------------------------------------------------------
(* ladder.ts                                                               *)

Levels == <<"full", "reduced", "faq_only", "handoff", "unavailable">>
Rank(level) == CHOOSE k \in 1..Len(Levels) : Levels[k] = level
worstOf(levels) == CHOOSE l \in levels : \A o \in levels : Rank(o) <= Rank(l)

(* decideLevel(), of the share used, whether the shop can be billed, and   *)
(* its breaker; handleChat sets the other two inputs to false.             *)
decideLevel(used, unbillable, breakerOpen) ==
  worstOf({"full"} \cup (IF used = "all" THEN {"faq_only"} ELSE {})
                   \cup (IF used = "most" THEN {"reduced"} ELSE {})
                   \cup (IF unbillable THEN {"handoff"} ELSE {})
                   \cup (IF breakerOpen THEN {"faq_only"} ELSE {}))

(* shopperMessage(): the rungs that need no model.                         *)
BottomRung(level) == level \in {"handoff", "unavailable"}

ServiceLevels ==
  {decideLevel(used, unbillable, open) :
     used \in {"some", "most", "all"}, unbillable \in BOOLEAN, open \in BOOLEAN}

-----------------------------------------------------------------------------
(* intents.ts                                                              *)

Filter(by, colour, minor) == [kind |-> "filter", by |-> by, colour |-> colour, minor |-> minor]

Filters == {Filter("colour", c, 0) : c \in Items(Hues)}
             \cup {Filter(by, "none", m) : by \in {"under", "over"}, m \in {Unit, 2 * Unit}}
             \cup {Filter(by, "none", 0) : by \in {"cheaper", "dearer"}}
Messages == Filters \cup {Plain(kind) : kind \in {"fact", "cart", "other"}}

Priced(p) == Tag[p] # NoPrice
mentionsColour(p, c) == c \in Hue[p]

(* The stable sort of applyFilter(): the unpriced last, either way.        *)
Sorted(s, sign) ==
  LET Before(i, j) ==
        \/ Priced(s[i]) /\ ~Priced(s[j])
        \/ Priced(s[i]) /\ Priced(s[j]) /\ sign * Tag[s[i]] < sign * Tag[s[j]]
        \/ /\ Priced(s[i]) = Priced(s[j]) /\ i < j
           /\ Priced(s[i]) => Tag[s[i]] = Tag[s[j]]
  IN  [k \in 1..Len(s) |-> s[CHOOSE i \in 1..Len(s) :
                               Cardinality({j \in 1..Len(s) : Before(j, i)}) = k - 1]]

(* The products at these places, in their order.                           *)
Picked(s, places) ==
  [k \in 1..Cardinality(places) |->
     s[CHOOSE i \in places : Cardinality({j \in places : j < i}) = k - 1]]

applyFilter(s, f) ==
  LET Passes(p) ==
        CASE f.by = "colour" -> mentionsColour(p, f.colour)
          [] f.by = "under"  -> Priced(p) /\ Tag[p] <= f.minor
          [] f.by = "over"   -> Priced(p) /\ Tag[p] >= f.minor
          [] OTHER           -> TRUE
      out == Picked(s, {k \in 1..Len(s) : Passes(s[k])})
  IN  CASE f.by = "cheaper" -> Sorted(out, 1)
        [] f.by = "dearer"  -> Sorted(out, -1)
        [] OTHER            -> out

(* The filter lane answers out of these products.                          *)
Narrows(s, f) ==
  LET kept == applyFilter(s, f)
  IN  s # <<>> /\ kept # <<>> /\ (f.by = "colour" => Len(kept) # Len(s))

(* The colour nearest to half of the cards, and the price before the last, *)
(* worded in whole units.                                                  *)
Candidates(s) ==
  LET Matches(c) == Cardinality({k \in 1..Len(s) : mentionsColour(s[k], c)})
      Off(c) == IF 2 * Matches(c) >= Len(s) THEN 2 * Matches(c) - Len(s) ELSE Len(s) - 2 * Matches(c)
      Splits == {k \in 1..Len(Hues) : Matches(Hues[k]) \notin {0, Len(s)}}
      Best == CHOOSE k \in Splits : \A j \in Splits :
                Off(Hues[k]) < Off(Hues[j]) \/ (Off(Hues[k]) = Off(Hues[j]) /\ k <= j)
      Prices == {Tag[s[k]] : k \in {i \in 1..Len(s) : Priced(s[i])}}
      Split == CHOOSE v \in Prices : Cardinality({w \in Prices : w > v}) = 1
      Worded == ((Split + Unit - 1) \div Unit) * Unit
      Colour == IF Splits = {} THEN <<>>
                ELSE <<Filter("colour", Hues[Best], 0)>>
      Price == IF Cardinality(Prices) < 2 THEN <<>>
               ELSE <<Filter("cheaper", "none", 0), Filter("under", "none", Worded)>>
  IN  Colour \o Price

(* suggestChips(): what would change something, the first few; a single    *)
(* product gets the chip that asks for something like it.                  *)
suggestChips(s) ==
  LET Changes(f) == LET kept == applyFilter(s, f)
                    IN  IF f.by = "cheaper" THEN kept # s
                        ELSE Len(kept) \notin {0, Len(s)}
      chip == Candidates(s)
      Good == {k \in 1..Len(chip) : Changes(chip[k])}
  IN  IF Len(s) < 2 THEN {}
      ELSE {chip[k] : k \in {g \in Good : Cardinality({j \in Good : j < g}) < MaxChips}}

-----------------------------------------------------------------------------
(* handleChat                                                              *)

(* A message is sent, be it a chip's: the level, and the bottom rung.      *)
Send(m) ==
  /\ turn.step = "idle" /\ messages < MaxMessages
  /\ messages' = messages + 1
  /\ \E level \in ServiceLevels :
       turn' = IF BottomRung(level) THEN NoTurn ELSE [step |-> "page", message |-> m, work |-> memory]
  /\ UNCHANGED <<page, cards, chips, memory, promise>>

(* answerPageFactWithoutModel(): the product's card, and no more.          *)
AnswerPageFact ==
  /\ turn.step = "page" /\ turn.message.kind = "fact" /\ page # Nowhere
  /\ cards' = <<page>>
  /\ turn' = [turn EXCEPT !.step = "save"]
  /\ UNCHANGED <<page, chips, memory, messages, promise>>

(* Not a question about the page, or one the catalog cannot answer.        *)
NoPageFact ==
  /\ turn.step = "page"
  /\ turn' = [turn EXCEPT !.step = "intent"]
  /\ UNCHANGED <<page, cards, chips, memory, messages, promise>>

(* answerWithoutModel(): the cart is read out, the cards stay.             *)
AnswerCart ==
  /\ turn.step = "intent" /\ turn.message.kind = "cart"
  /\ turn' = [turn EXCEPT !.step = "save"]
  /\ UNCHANGED <<page, cards, chips, memory, messages, promise>>

(* answerWithoutModel(): what is remembered is narrowed, and shown.        *)
AnswerFilter ==
  /\ turn.step = "intent" /\ turn.message.kind = "filter" /\ Narrows(turn.work, turn.message)
  /\ LET kept == applyFilter(turn.work, turn.message)
     IN  /\ cards' = kept /\ chips' = suggestChips(kept)
         /\ turn' = [turn EXCEPT !.step = "save", !.work = kept]
  /\ promise' = "made"
  /\ UNCHANGED <<page, memory, messages>>

(* Both lanes declined.                                                    *)
AskModel ==
  /\ turn.step = "intent"
  /\ turn.message.kind = "filter" => ~Narrows(turn.work, turn.message)
  /\ turn' = [turn EXCEPT !.step = "model"]
  /\ UNCHANGED <<page, cards, chips, memory, messages, promise>>

(* The first search that finds something is on screen at once.             *)
EarlyCards(found) ==
  /\ turn.step = "model"
  /\ cards' = found
  /\ turn' = [turn EXCEPT !.step = "writing"]
  /\ UNCHANGED <<page, chips, memory, messages, promise>>

(* Fault: chips for all the cards, also those that are not remembered.     *)
RememberAfterChips(shown) ==
  /\ cards' = shown /\ chips' = suggestChips(shown)
  /\ turn' = [turn EXCEPT !.step = "save",
                          !.work = SubSeq(shown, 1, IF Len(shown) < MaxVisible THEN Len(shown) ELSE MaxVisible)]

(* The final cards are the products the answer names; the first of them    *)
(* are remembered, and the chips made for those.                           *)
Reconcile(shown) ==
  LET kept == SubSeq(shown, 1, IF Len(shown) < MaxVisible THEN Len(shown) ELSE MaxVisible)
  IN  /\ cards' = shown /\ chips' = suggestChips(kept)
      /\ turn' = [turn EXCEPT !.step = "save", !.work = kept]

ModelAnswers(shown) ==
  /\ turn.step \in {"model", "writing"}
  /\ turn.step = "model" => shown = <<>>
  /\ Reconcile(shown) /\ promise' = "made"
  /\ UNCHANGED <<page, memory, messages>>

(* An error frame, or nothing at all if the shopper left.                  *)
ModelThrows ==
  /\ turn.step \in {"model", "writing"}
  /\ turn' = NoTurn
  /\ UNCHANGED <<page, cards, chips, memory, messages, promise>>

(* sessions.put()                                                          *)
SaveSession ==
  /\ turn.step = "save"
  /\ memory' = turn.work /\ turn' = NoTurn
  /\ promise' = IF promise = "made" THEN "kept" ELSE promise
  /\ UNCHANGED <<page, cards, chips, messages>>

(* The store fails; the response is ended all the same.                    *)
SaveFails ==
  /\ turn.step = "save"
  /\ turn' = NoTurn
  /\ promise' = IF promise = "made" THEN "broken" ELSE promise
  /\ UNCHANGED <<page, cards, chips, memory, messages>>

(* The session is swept; the next message starts an empty one.             *)
SessionExpires ==
  /\ turn.step = "idle" /\ memory # <<>>
  /\ memory' = <<>> /\ promise' = "broken"
  /\ UNCHANGED <<page, cards, chips, turn, messages>>

(* The shopper walks about the shop; the panel comes along.                *)
Browse(p) ==
  /\ turn.step = "idle" /\ p # page
  /\ page' = p
  /\ UNCHANGED <<cards, chips, memory, turn, messages, promise>>

Answers == UNION {[1..n -> Goods] : n \in 0..Cardinality(Goods)}
Lists == {s \in Answers : \A i, j \in 1..Len(s) : i # j => s[i] # s[j]}

ChatNext ==
  \/ \E m \in Messages \cup chips : Send(m)
  \/ AnswerPageFact \/ NoPageFact \/ AnswerCart \/ AnswerFilter \/ AskModel
  \/ \E found \in Lists \ {<<>>} : EarlyCards(found)
  \/ \E shown \in Lists : ModelAnswers(shown)
  \/ ModelThrows \/ SaveSession \/ SaveFails \/ SessionExpires
  \/ \E p \in Goods \cup {Nowhere} : Browse(p)

ChatSpec == ChatInit /\ [][ChatNext]_chatVars

-----------------------------------------------------------------------------
(* Properties.                                                             *)

(* A chip is a promise: whatever was asked since it was put up, whether    *)
(* answered by a lane, by the model or not at all, tapping it narrows the  *)
(* products remembered, with no model -- unless the answer it came with    *)
(* could not be saved or the session has gone.                             *)
ChipsAreAnswered ==
  turn.step = "idle" /\ promise = "kept" => \A f \in chips : Narrows(memory, f)
=============================================================================
