------------------------------- MODULE Figures -------------------------------
(***************************************************************************)
(* Grounding, at the characters of a reply: the tripwire that reads it as  *)
(* it is typed (grounding/src/incremental.ts), the money and stock it      *)
(* finds there (money.ts, extract.ts), the repair and the verdict over the *)
(* whole of it (validate.ts), for one model call of orchestrator/loop.ts.  *)
(*                                                                         *)
(* A character of a price is itself; a word is one symbol, and so is a     *)
(* stock phrase, a comparative, or the name of a product that reads like   *)
(* a stock phrase.  Of the ways to write money only the one with a symbol  *)
(* in front is modelled.                                                   *)
(***************************************************************************)
EXTENDS Integers, Sequences, SequencesExt, FiniteSetsExt

CONSTANTS
  Prose,    \* bound: the replies the model may write
  Evidence, \* bound: what the turn's tools may have returned, a sequence of results
  Budgets   \* bound: the figures the shopper's message may name, as sets

(* A result is [money, available, soldOut, names]: the amounts in it, its  *)
(* available flags, whether a cart said sold out, and whether it names the *)
(* product that reads like a stock phrase.                                 *)

Results == [money : Seq(Nat), available : SUBSET BOOLEAN, soldOut : BOOLEAN, names : BOOLEAN]

ASSUME FiguresAssumption ==
  /\ \A s \in Prose : s \in Seq(STRING)
  /\ \A rs \in Evidence : rs \in Seq(Results)

VARIABLES
  prose,    \* the whole reply
  claims,   \* the claims declared with it: [kind, source, assertion]
  results,  \* the tool results of the turn
  budget,   \* extractMoneyFromText of the shopper's message
  typed,    \* characters that have arrived
  emitted,  \* of them, handed to the shopper
  call,     \* "idle", "streaming", "tripped", "over" or "judged"
  judgedReply, \* what is judged: the reply, its cents restored
  verdict   \* the codes of its errors

figureVars == <<prose, claims, results, budget, typed, emitted, call, judgedReply, verdict>>

Digits == <<"0", "1", "2", "3", "4", "5", "6", "7", "8", "9">>
Digit == [c \in Range(Digits) |-> CHOOSE n \in 0..9 : Digits[n + 1] = c]
Words == {"word", "under", "in stock", "sold out", "Sold Out Board"}

-----------------------------------------------------------------------------
(* money.ts                                                                *)

At(s, i) == IF i \in DOMAIN s THEN s[i] ELSE "end"
IsDigit(c) == c \in DOMAIN Digit

(* The figures of a text: where one starts, its digits end and it ends.    *)
DigitsEnd(s, i) == Max({j \in i..Len(s) : \A k \in i + 1..j : IsDigit(s[k])})
CentsEnd(s, j) ==
  CASE At(s, j + 1) = "." /\ IsDigit(At(s, j + 2)) ->
         IF IsDigit(At(s, j + 3)) THEN j + 3 ELSE j + 2
    [] OTHER -> j

Written(s) ==
  {[from |-> i, digits |-> DigitsEnd(s, i), to |-> CentsEnd(s, DigitsEnd(s, i))] :
     i \in {i \in 1..Len(s) - 1 : s[i] = "$" /\ IsDigit(s[i + 1])}}

Number(s) ==
  LET n[i \in 0..Len(s)] == IF i = 0 THEN 0 ELSE 10 * n[i - 1] + Digit[s[i]]
  IN  n[Len(s)]

Whole(s, f) == 100 * Number(SubSeq(s, f.from + 1, f.digits))
Cents(s, f) ==
  CASE f.to = f.digits -> 0
    [] f.to = f.digits + 2 -> 10 * Digit[s[f.to]]
    [] OTHER -> Number(SubSeq(s, f.digits + 2, f.to))
Amount(s, f) == Whole(s, f) + Cents(s, f)

extractMoneyFromText(s) == {Amount(s, f) : f \in Written(s)}

(* isDerivable: a source, the sum of two or three of them, or of all.      *)
isDerivable(value, sources) ==
  \E I \in SUBSET DOMAIN sources :
    /\ Cardinality(I) \in {1, 2, 3, Len(sources)} \ {0}
    /\ value = SumFunctionOnSet(sources, I)

(* The one source a figure in whole units may have lost its cents of.      *)
Abbreviated(s, f, sources) ==
  IF \/ f.to # f.digits /\ SubSeq(s, f.digits + 1, f.to) # <<".", "0", "0">>
     \/ IsDigit(At(s, f.to + 1)) \/ (At(s, f.to + 1) = "." /\ IsDigit(At(s, f.to + 2)))
     \/ Whole(s, f) \in Range(sources)
  THEN {}
  ELSE {x \in Range(sources) : x > Whole(s, f) /\ x < Whole(s, f) + 100}

Exact(s, f, x) ==
  SubSeq(s, f.from, f.digits) \o <<".", Digits[(x % 100) \div 10 + 1], Digits[(x % 10) + 1]>>

Repaired(s, sources) == {f \in Written(s) : Cardinality(Abbreviated(s, f, sources)) = 1}

(* What becomes of a character: all of a figure is put where it starts.    *)
Piece(s, sources, repaired, i) ==
  IF \E f \in repaired : f.from = i
  THEN LET f == CHOOSE f \in repaired : f.from = i IN Exact(s, f, Min(Abbreviated(s, f, sources)))
  ELSE IF \E f \in repaired : i \in f.from + 1..f.to THEN <<>> ELSE <<s[i]>>

restoreCents(s, sources) ==
  LET repaired == Repaired(s, sources)
  IN  FlattenSeq([i \in DOMAIN s |-> Piece(s, sources, repaired, i)])

-----------------------------------------------------------------------------
(* extract.ts                                                              *)

(* detectStock: out of stock first; a phrase within a name is a name.      *)
detectStock(s, named) ==
  CASE "sold out" \in Range(s) \/ ("Sold Out Board" \in Range(s) /\ ~named) -> "out"
    [] OTHER -> IF "in stock" \in Range(s) THEN "in" ELSE "nothing"

(* What the results hold together.                                         *)
Money(rs) == FlattenSeq([i \in DOMAIN rs |-> rs[i].money])
Available(rs) == UNION {rs[i].available : i \in DOMAIN rs}
SoldOut(rs) == \E i \in DOMAIN rs : rs[i].soldOut
Names(rs) == \E i \in DOMAIN rs : rs[i].names

Contradicts(stock, available, excused) ==
  /\ available # {}
  /\ \/ stock = "in" /\ TRUE \notin available
     \/ stock = "out" /\ FALSE \notin available /\ ~excused

-----------------------------------------------------------------------------
(* incremental.ts                                                          *)

(* Fault: a full stop is taken for the end of the sentence.                *)
SettledAtStop(s) ==
  LET growing == {f.from : f \in {f \in Written(s) : f.to = Len(s)}}
  IN  IF growing # {} THEN SubSeq(s, 1, Min(growing) - 1)
      ELSE IF s # <<>> /\ Last(s) \in Words THEN Front(s) ELSE s

(* Without a last word, or a last number: its stop may be a decimal point. *)
settledPrefix(s) ==
  LET stop == IF s # <<>> /\ Last(s) = "." THEN 1 ELSE 0
      growing == {f.from : f \in {f \in Written(s) :
                    f.to + stop = Len(s) /\ (stop = 0 \/ f.to = f.digits)}}
  IN  IF growing # {} THEN SubSeq(s, 1, Min(growing) - 1)
      ELSE IF s # <<>> /\ Last(s) \in Words THEN Front(s) ELSE s

completedSentences(s) ==
  SubSeq(s, 1, Max({0} \cup {i \in DOMAIN s : s[i] = "."}))

(* check: the tripwire knows of no cart notice and of no budget.           *)
Trips(s) ==
  LET settled == settledPrefix(s) IN
  \/ \E v \in extractMoneyFromText(settled) : ~isDerivable(v, Money(results))
  \/ Contradicts(detectStock(completedSentences(settled), Names(results)), Available(results), FALSE)

-----------------------------------------------------------------------------
(* validate.ts                                                             *)

(* A figure after "under": in whole units, or to the cent.                 *)
isComparative(s, v) ==
  \E f \in Written(s) :
    /\ At(s, f.from - 1) = " " /\ At(s, f.from - 2) = "under"
    /\ Whole(s, f) = 100 * ((v + 50) \div 100) \/ Amount(s, f) = v

ClaimErrors(c) ==
  LET money == extractMoneyFromText(c.assertion)
      known == c.source \in DOMAIN results
      source == IF known THEN <<results[c.source]>> ELSE results
      underivable == \E v \in money : ~isDerivable(v, Money(source))
      stock == detectStock(c.assertion, Names(source))
  IN  {e \in {"unknown_citation", "price_not_in_source", "stock_contradicts_source"} :
        CASE e = "unknown_citation" -> ~known /\ (underivable \/ (money = {} /\ results = <<>>))
          [] e = "price_not_in_source" -> known /\ c.kind = "price" /\ underivable
          [] OTHER -> /\ known /\ c.kind = "stock"
                      /\ Contradicts(stock, Available(source), SoldOut(results))}

(* Fault: a figure of the shopper's is taken for a price.                  *)
UncitedOrBudget(s) ==
  \E v \in extractMoneyFromText(s) : v \notin budget /\ ~isDerivable(v, Money(results))

Uncited(s) ==
  \E v \in extractMoneyFromText(s) :
    ~(v \in budget /\ isComparative(s, v)) /\ ~isDerivable(v, Money(results))

(* The errors; what is only a warning decides nothing.                     *)
validateGrounding(s) ==
  LET stock == detectStock(s, Names(results))
      asserts == extractMoneyFromText(s) # {} \/ stock # "nothing"
  IN  (UNION {ClaimErrors(c) : c \in claims})
      \cup IF asserts /\ results = <<>> THEN {"no_tool_results"}
           ELSE {e \in {"uncited_price", "stock_contradicts_source"} :
                  IF e = "uncited_price" THEN Uncited(s)
                  ELSE Contradicts(stock, Available(results), SoldOut(results))}

-----------------------------------------------------------------------------
FiguresInit ==
  /\ prose = <<>> /\ results = <<>> /\ budget = {} /\ claims = {}
  /\ typed = 0 /\ emitted = 0 /\ call = "idle" /\ judgedReply = <<>> /\ verdict = {}

(* The model answers, over what the turn's tools have returned.            *)
CallModel ==
  /\ call = "idle" /\ call' = "streaming"
  /\ prose' \in Prose /\ results' \in Evidence /\ budget' \in Budgets
  /\ UNCHANGED <<claims, typed, emitted, judgedReply, verdict>>

Given == UNCHANGED <<prose, results, budget>>

(* A delta of any length; the stream is aborted at what trips.             *)
Types ==
  /\ call = "streaming"
  /\ \E n \in typed + 1..Len(prose) :
       LET text == SubSeq(prose, 1, n) IN
       /\ typed' = n
       /\ IF Trips(text) THEN call' = "tripped" /\ UNCHANGED emitted
          ELSE call' = call /\ emitted' = Max({emitted, Len(settledPrefix(text))})
  /\ UNCHANGED <<claims, judgedReply, verdict>> /\ Given

(* The claims follow the reply, and may cite no result there is.           *)
Claims ==
  {[kind |-> k, source |-> i, assertion |-> prose] : k \in {"price", "stock"}, i \in 0..1}

(* A clean end releases what was held back.                                *)
ReplyEnds ==
  /\ call = "streaming" /\ typed = Len(prose)
  /\ call' = "over" /\ emitted' = Len(prose)
  /\ claims' \in {{}} \cup {{c} : c \in Claims}
  /\ UNCHANGED <<typed, judgedReply, verdict>> /\ Given

Judge ==
  /\ call = "over" /\ call' = "judged"
  /\ judgedReply' = restoreCents(prose, SetToSeq(Range(Money(results))))
  /\ verdict' = validateGrounding(judgedReply')
  /\ UNCHANGED <<claims, typed, emitted>> /\ Given

FiguresNext == CallModel \/ Types \/ ReplyEnds \/ Judge

FiguresSpec == FiguresInit /\ [][FiguresNext]_figureVars

-----------------------------------------------------------------------------
(* While the reply is typed, in deltas of any length, no digit of a figure *)
(* is shown before all of it is known, and none of one the tool results do *)
(* not bear out; and no answer is lost to a figure that was half typed:    *)
(* what trips is a figure of the whole reply, or what it says of stock up  *)
(* to one of its stops.                                                    *)
TripwireIsExact ==
  /\ call = "streaming" =>
       \A f \in Written(prose) :
         emitted > f.from => emitted >= f.to /\ isDerivable(Amount(prose, f), Money(results))
  /\ call = "tripped" =>
       \/ \E f \in Written(prose) : ~isDerivable(Amount(prose, f), Money(results))
       \/ \E i \in DOMAIN prose :
            /\ prose[i] = "."
            /\ Contradicts(detectStock(SubSeq(prose, 1, i), Names(results)), Available(results), FALSE)

(* An accepted answer has only figures the results bear out and the        *)
(* shopper's own where a limit is meant, and no claim of it is contradicted *)
(* by the source it names; the repair changed a figure only into a price   *)
(* of the catalog.                                                         *)
AcceptedIsGrounded ==
  call = "judged" /\ verdict = {} =>
    /\ \A f \in Written(judgedReply) :
         \/ isDerivable(Amount(judgedReply, f), Money(results))
         \/ /\ Amount(judgedReply, f) \in budget /\ Amount(judgedReply, f) \in extractMoneyFromText(prose)
            /\ \E g \in Written(judgedReply) : At(judgedReply, g.from - 2) = "under"
    /\ \A c \in claims : c.kind = "price" /\ c.source \in DOMAIN results =>
         \A v \in extractMoneyFromText(c.assertion) : isDerivable(v, results[c.source].money)

(* money.ts: the repair "can only replace an abbreviation with the full    *)
(* value it abbreviated": a figure that is borne out as it stands stays.   *)
RepairOnlyAbbreviations ==
  call = "judged" =>
    \A v \in extractMoneyFromText(prose) :
      isDerivable(v, Money(results)) => v \in extractMoneyFromText(judgedReply)
=============================================================================
