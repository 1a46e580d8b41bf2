------------------------------ MODULE MCServing ------------------------------
(* What serves one shopper's turns at the gateway, in one run: the parts   *)
(* have no state in common, so a behaviour is of one of them, chosen at    *)
(* the start.                                                              *)
EXTENDS SpeechCache, Transcriber, Caches, Conversation, Stream, Facts, Figures, Search, TLC

CONSTANTS
  Parts,   \* the parts a behaviour may be of
  cap, boot, sock

-----------------------------------------------------------------------------
MCHues == <<"black", "red">>
MCHue == (cap :> {"red"}) @@ (boot :> {"red", "black"}) @@ (sock :> {"black"})
MCTag == (cap :> 1) @@ (boot :> 3) @@ (sock :> NoPrice)

-----------------------------------------------------------------------------
MCReplies == {<<"uni", "a">>, <<"q", "nl">>}

-----------------------------------------------------------------------------
(* Variants with and without options, figures, titles and known stock; a   *)
(* product's have the same options and titles of their own.                *)
Sold(t, options, amount, currency, display, available) ==
  [title |-> t, options |-> options, amount |-> amount, currency |-> currency,
   display |-> display, available |-> available]
InSize(x) == [a \in {"Size"} |-> x]
InBoth(x, y) == [a \in {"Size", "Color"} |-> IF a = "Size" THEN x ELSE y]

MCVariants ==
  {Sold("S", InSize("S"), 1, "eur", 1, "yes"), Sold("M", InSize("M"), 2, "eur", 2, "no"),
   Sold("M / blue", InBoth("M", "blue"), 4, "eur", 4, "no"),
   Sold("L", InSize("L"), 3, "usd", 3, "unknown"),
   Sold("M / red", InBoth("M", "red"), 0, "eur", 0, "yes"),
   Sold("L / blue", InBoth("L", "blue"), 5, "eur", 0, "yes"),
   Sold("none", <<>>, 2, "eur", 2, "yes"), Sold("S", <<>>, 0, "eur", 1, "unknown"),
   Sold("M", <<>>, 3, "eur", 3, "no")}

MCShelf ==
  {p \in UNION {[1..n -> MCVariants] : n \in 1..3} :
     \A i, j \in DOMAIN p : /\ i # j => p[i].title # p[j].title
                            /\ DOMAIN p[i].options = DOMAIN p[j].options}
MCAnother == <<Sold("S", InSize("S"), 9, "eur", 9, "yes")>>

Reports(name, handle, title, spelling) ==
  [spelling |-> spelling, handle |-> handle, title |-> title, variantName |-> name]
MCPages ==
  {Reports("none", TRUE, TRUE, "number"), Reports("M", FALSE, TRUE, "number"),
   Reports("S", TRUE, TRUE, "opaque"), Reports("L", FALSE, FALSE, "number")}

-----------------------------------------------------------------------------
(* Two clauses, a figure or a word of stock in each, and a stop or not.    *)
Figure ==
  {<<"$", "1">>, <<"$", "1", "8">>, <<"$", "1", "8", ".", "9", "5">>,
   <<"$", "1", "8", ".", "0", "0">>, <<"$", "1", ".", "5">>, <<"$", "9">>}
Clause ==
  Figure \cup {<<"under", " ">> \o f : f \in Figure}
         \cup {<<"in stock">>, <<"sold out">>, <<"Sold Out Board">>}
MCProse ==
  {<<"word", " ">> \o c \o s \o d \o e :
     c \in Clause, d \in Clause, s \in {<<" ">>, <<".", " ">>}, e \in {<<>>, <<".">>}}

Result(money, available, soldOut, names) ==
  [money |-> money, available |-> available, soldOut |-> soldOut, names |-> names]
MCEvidence ==
  {<<>>,
   <<Result(<<1895, 150>>, {TRUE}, FALSE, TRUE)>>,
   <<Result(<<100, 1800>>, {FALSE}, FALSE, FALSE)>>,
   <<Result(<<995>>, {FALSE}, FALSE, FALSE), Result(<<100>>, {TRUE}, TRUE, FALSE)>>,
   <<Result(<<400, 500, 995, 1895>>, {TRUE}, TRUE, FALSE)>>}
MCBudgets == {{1800}}

-----------------------------------------------------------------------------
MCText == (boot :> {"red", "boot"}) @@ (cap :> {"wool", "cap"})
MCMeaning == (boot :> {"shoes"}) @@ (cap :> {"hat", "wool"})
MCNoise == {"best", "nice"}
MCStopwords == {"this", "best"}
MCFiller == {"like"}
MCAsked ==
  {[words |-> {"this", "red", "like"}, intent |-> TRUE], [words |-> {"shoes"}, intent |-> TRUE],
   [words |-> {"hat"}, intent |-> FALSE]}
MCPageTitles == {{"boot"}}
MCQueries == {{"shoes"}, {"red", "boot", "nice"}, {"best"}}
MCSubjects == {{"hat"}}

-----------------------------------------------------------------------------
(* Up to two variants, with and without a price or a display of the store's*)
(* own, in currencies with a sign that marks money, with one that does not *)
(* and with none; a range that disagrees with them.                        *)
MCSigns == ("usd" :> "dollar") @@ ("inr" :> "rupee")
Coin(amount, currency) == [amount |-> amount, currency |-> currency, display |-> <<>>]
MCCoins ==
  {Coin(995, "usd"), Coin(1895, "usd"), Coin(995, "inr"), Coin(1895, "sek"), Coin(0, "none"),
   [Coin(1800, "usd") EXCEPT !.display = <<[sign |-> "dollar", amount |-> 1800]>>]}
MCRanges == {<<>>, <<Coin(100, "usd"), Coin(1895, "usd")>>, <<Coin(100, "inr"), Coin(100, "sek")>>}
MCWares ==
  LET Product == [variants : UNION {[1..n -> MCCoins] : n \in 0..2}, range : MCRanges]
  IN  {<<>>} \cup {<<p>> : p \in Product}
      \cup {<<p, [variants |-> <<Coin(400, "usd")>>, range |-> <<>>]>> : p \in Product}

-----------------------------------------------------------------------------
(* Statements that repeat, change and miss one another, and words that     *)
(* state nothing.                                                          *)
MCSizeWords == ("medium" :> "M") @@ ("uk 9" :> "UK 9")
MCColours == <<"black", "gray">>
MCOccasions == <<"wedding", "work">>
MCGrays == "gray" :> "grey"
Silence == [asksStock |-> FALSE, size |-> "none", limit |-> 0, likes |-> FALSE,
            colours |-> {}, occasions |-> {}]
MCUtterances ==
  {Silence, [Silence EXCEPT !.size = "medium", !.occasions = {"work", "wedding"}],
   [Silence EXCEPT !.size = "uk 9", !.limit = 5],
   [Silence EXCEPT !.asksStock = TRUE, !.size = "medium", !.likes = TRUE, !.colours = {"gray"}],
   [Silence EXCEPT !.colours = {"black"}, !.occasions = {"work"}]}

-----------------------------------------------------------------------------
MCWordings == {<<>>, <<"warm">>, <<"by 2026-12-24">>, <<"warm", "coat">>}

-----------------------------------------------------------------------------
VARIABLE part

AllVars == <<part, speechVars, sttVars, snapshotVars, policyVars, chatVars, streamVars,
             factVars, figureVars, searchVars, priceVars,
             sessionVars, settingsVars>>

MCInit ==
  /\ SpeechInit /\ SttInit /\ SnapshotInit /\ PoliciesInit /\ ChatInit
  /\ StreamInit /\ FactsInit /\ FiguresInit /\ SearchInit /\ PricesInit
  /\ SessionInit /\ SettingsInit
  /\ part \in Parts /\ (part # "session" => store = "sqlite")
  /\ (part # "settings" => row = NoRow)

(* Of the other parts nothing changes.                                     *)
Only(p) ==
  /\ UNCHANGED part
  /\ IF p = "speech" THEN TRUE ELSE UNCHANGED speechVars
  /\ IF p = "transcripts" THEN TRUE ELSE UNCHANGED sttVars
  /\ IF p = "snapshot" THEN TRUE ELSE UNCHANGED snapshotVars
  /\ IF p = "policies" THEN TRUE ELSE UNCHANGED policyVars
  /\ IF p = "chat" THEN TRUE ELSE UNCHANGED chatVars
  /\ IF p = "stream" THEN TRUE ELSE UNCHANGED streamVars
  /\ IF p = "facts" THEN TRUE ELSE UNCHANGED factVars
  /\ IF p = "figures" THEN TRUE ELSE UNCHANGED figureVars
  /\ IF p = "search" THEN TRUE ELSE UNCHANGED searchVars
  /\ IF p = "prices" THEN TRUE ELSE UNCHANGED priceVars
  /\ IF p = "session" THEN TRUE ELSE UNCHANGED sessionVars
  /\ IF p = "settings" THEN TRUE ELSE UNCHANGED settingsVars

MCNext ==
  \/ part = "speech" /\ SpeechNext /\ Only("speech")
  \/ part = "transcripts" /\ SttNext /\ Only("transcripts")
  \/ part = "snapshot" /\ SnapshotNext /\ Only("snapshot")
  \/ part = "policies" /\ PoliciesNext /\ Only("policies")
  \/ part = "chat" /\ ChatNext /\ Only("chat")
  \/ part = "stream" /\ StreamNext /\ Only("stream")
  \/ part = "facts" /\ FactsNext /\ Only("facts")
  \/ part = "figures" /\ FiguresNext /\ Only("figures")
  \/ part = "search" /\ SearchNext /\ Only("search")
  \/ part = "prices" /\ PricesNext /\ Only("prices")
  \/ part = "session" /\ SessionNext /\ Only("session")
  \/ part = "settings" /\ SettingsNext /\ Only("settings")

MCSpec == MCInit /\ [][MCNext]_AllVars
=============================================================================
