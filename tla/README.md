# StoreAgent in TLA+

StoreAgent is a shopping assistant for Shopify storefronts: a widget talks to a
Node gateway, which runs a conversational turn against a model and the shop's
own catalog and cart, charges the merchant for resolved conversations, and
measures what it brings.  This directory holds TLA+ models of its parts, the
TLC runs that check them, and theorems that the TLA+ proof system (TLAPS)
checks for every value of the constants.

Contents: [the system](#the-system), [modules](#modules-and-the-code),
[runs](#runs), [fairness](#fairness), [refinement](#refinement),
[proofs](#proofs),
[divergences](#where-the-code-and-its-documentation-part),
[not modelled](#what-is-not-modelled), [plan](#plan).

Paths below are relative to `packages/`; "gateway" stands for `gateway/src`.

## The system

One Node process serves everything.  JavaScript runs one callback at a time, so
that a stretch of code without an `await` is atomic; at every `await` any other
request, timer or webhook may run, and the process may die.  State lives in
four places: the memory of the process (lost at a restart), SQLite or Postgres
tables (kept), the shopper's browser, and other people's systems (Shopify, the
model and speech providers), which may answer late, fail, or act and lose the
answer.

| Component | Code | State | Operations | Hard part | Module |
|---|---|---|---|---|---|
| Billing: metering | `billing`, gateway `billing/service.ts`, `store.ts` | tables `resolved`, `overage`; Shopify's usage records | `settle`, `check`, `purge` | settlements run unawaited beside each other; answers lost after Shopify acted | Entitlement, Metering |
| Billing: subscription | gateway `billing/*`, `shopify/webhooks.ts` | the `subscriptions` row; Shopify's subscriptions | `beginUpgrade`, `cancel`, `applyWebhook`, `reconcile` | three writers, each acting on what it heard before an `await` | Subscription |
| Turn engine | `orchestrator`, `voice/chunker.ts`, `handleChat` | the turn's own: stream, attempt, what was painted and spoken | `runTurn`, `runToolLoop`, `callModel`, the SSE frames | text is shown before it is judged; two attempts, one bubble; documents cut anywhere | Turn, Stream |
| Grounding | `grounding` | none (pure), the tripwire's latch | `check`, `restoreCents`, `validateResponse` | what counts as a figure, and when a text is settled | Figures |
| Conversation lanes | `handleChat`, `orchestrator/src/intents.ts`, `page-facts.ts`, `resilience/src/ladder.ts` | cards on screen, chips, `session.products` | `decideLevel`, `answerPageFactWithoutModel`, `answerWithoutModel` | three copies of one list, each lane writing others of them | Chat, Facts |
| Catalog search | gateway `tool-executor.ts`, `orchestrator/src/speculate.ts` | the prefetch, cooldowns | `search_catalog`, `searchBroadening`, `get_product` | a search ahead of the model, over an index that is rebuilt meanwhile | Search, Prices |
| Preferences, session | `orchestrator/src/preferences.ts`, gateway `sessions.ts` | the session: what the shopper told | `extractPreferences`, `put`, `sweep` | overlapping requests write the whole row back | Session |
| Settings, prompt | gateway `admin/settings.ts`, `admin/render.ts`, `orchestrator/src/prompt.ts` | the settings row; the cached prefix | `validateSettings`, `merchantPackFor` | tabs with old forms; text of the merchant in every prompt | Settings |
| Circuit breaker | `resilience` | breaker entries by merchant | `canAttempt`, `onSuccess`, `onFailure`, `run` | calls end long after the entry changed; a bounded map | Breaker |
| Limits | gateway `limits` | buckets by address (memory), spend by day (table) | `check`, `consume`, `sweep` | lazy refill, eviction, two writes per charge | Limiter |
| Cart, UCP client | `ucp-client`, gateway `tool-executor.ts`, `sessions.ts` | the session row; carts at the storefront | `create_cart`, `add_to_cart`, `handleCartAdd` | read-merge-write over a network with retries | Cart |
| Catalog index | gateway `search` | vectors by shop, the queue's timers, builds under way | `touch`, `fire`, `warmIndex`, `build` | coalesced and joined rebuilds, webhooks, restarts | Catalog |
| Catalog snapshot, policies | gateway `search/catalog-snapshot.ts`, `shopify/policies.ts` | a cached browse by shop, a cached page by shop and topic | `products`, `invalidate`, `get` | one fetch shared among turns, its failure too | Snapshot, Policies |
| Install and tokens | gateway `shopify`, admin routes of `server.ts` | the `shops` row; Shopify's grants | OAuth callback, `provisionShop`, `freshShop`, webhooks | single-use refresh tokens, irreversible exchanges | Install |
| Attribution | `attribution`, gateway `store`, the pixel | exposures, cart links, conversions, funnel steps | `recordExposure`, `linkCart`, `recordConversion`, `purge` | one order heard twice, in either order | Attribution, OrderLedger |
| Speech | gateway `voice` | speech cache, transcriber preference | `announce`, `listen`, `transcribe`, `record` | a synthesis streamed to many listeners while it runs | SpeechCache, Transcriber |
| Widget | `gateway/public` | panel, playback queue, microphone capture | gestures, SSE events, media callbacks | captures torn down while starting, speech that comes back late, the end of a turn told from loudness alone | Widget, Voice, Endpoint |
| Signals, statistics, observability, config, eval, scripts | | counters | | see [not modelled](#what-is-not-modelled) | |

How they meet: `handleChat` asks Limits, reads the session, asks Billing
(`check`) and the ladder for a service level, tries the lanes that need no
model, and else runs the turn engine with the tool executor (which goes through
the merchant's breaker to catalog and cart), streams the reply, settles with
Billing, and writes the session back.  The widget paints what is streamed and
fetches the sentences that were announced to the speech cache.  Webhooks of
Shopify drive Billing, Install, the refresh queue, the snapshot and
Attribution.  Billing and the background jobs get their token from Install.

What makes each component correct is stated by its properties, listed with the
runs below; `PROJECT.json` lists every hazard at its line, with the properties
that would catch it.

## Modules and the code

Definitions carry the names of the code where there is one; `PROJECT.json` maps
each to its lines.  In every module an action is one stretch of code between
two `await`s, with all it changes.  A definition introduced by "Fault:" is a
plausible bug in the definition after it and is used by no specification; each
property was seen to fail with one of them in place.

### Billing, limits, install

**Entitlement** - plans, prices and `evaluate()`: the verdict on the next
conversation from plan, status, count and overage; pure operators, with the
same thresholds as `billing/src/entitlement.ts`.

**Metering** - one shop's `settle()`.  `Settle` counts a conversation and
decides, in one synchronous step; `SettleLocally`, `ShopifyAccepts`,
`ShopifyRefuses`, `SettleAnswered` and `SettleFails` are what follows its
`await`s, `Crash` what happens to all of them, `Purge` a GDPR redaction.
`resolved`, `overage`, `record` are the tables, `usage` Shopify's usage
records, `settling` the calls in flight.  `overaged` is a history variable: the
conversations judged overage.

**Subscription** - the row against Shopify's subscriptions `subs`.  `ops` are
the app's calls in flight (each: asked, answered, written), `hooks` the
webhooks on their way with their number of copies.  `managed` chooses between
the two pricing modes.  `approved` is history: what the merchant agreed to.

**Limiter** - `buckets`, `spend` and the clock.  Tokens are held in sixtieths,
so that refilling per second is exact.  `fair` (what a client may still spend
since its bucket was made) and `promise` (the last Retry-After) are history.

**Breaker** - entries by merchant, calls in flight (`calls`), upstream health
(`up`).  Time is the age of an open entry.  `row` is history: failures in a row.

**Install** - the token of a shop: `grants` is what Shopify knows of every
token somebody holds (a non-expiring one, or a pair that goes fresh, stale,
lapsed), `row` the stored one, `ops` the calls under way.  `freshShop` decides
what a call does first; renewed tokens are stored before they are used.

### A turn

**Turn** - one turn from message to last frame.  A reply is a sequence of
tokens told apart by what grounding makes of them (a supported figure, an
unsupported one, a price without cents, a figure of the shopper's question, an
availability claim, the end of a sentence).  `Read` is a network read that
brings several deltas, `Delta` the loop of the adapter over them with the
tripwire, `StreamEnds` the tail; `Accept`, `Reject`, `TripwireFires`, `Retry`,
`Unusable` the two attempts; `Done`, `Settle`, `Save` the handler's end;
`screen`, `buffer`, `queue` what the panel shows, what the chunker holds and
what was handed to speech.

**Stream** - below Turn: the model writes a JSON document in deltas of any
length, each the data line of an SSE record, with heartbeats and either line
end, and the network hands it over in reads of any length.  `buf` is the
parser's, `text` and `scan` the extractor's; a symbol stands for what no cut can
change, so the key is two symbols and an escape is several.  `Advance` is once
round the extractor's loop, `Handled` the adapter's loop over the events of a
read.  The document's first property is the reply, as the schema asks; between
the colon and the quote there is a blank or none.

**Figures** - below Turn: grounding at the characters of a price.  `Types` is a
delta with the tripwire's check and what it settles, `ReplyEnds` the tail,
`Judge` the repair (`restoreCents`) and the verdict over the repaired text, with
the claims the model cited.

**Chat** - the way of a message through `handleChat`: the level of the ladder,
the lanes, the model, and what is remembered.  `screen`, `chips` and `memory`
are the three places that hold products; a message is what the classifiers make
of it.  `promise` is history: whether the chips' answer was saved.

**Facts** - the lane that answers of the page's product.  `DirectAnswers`,
`BrowseFinds` and `resolveByName` are the store's own lookup behind its breaker,
the browse of one page and the search by name; `said` is what the sentence
states.  At its end stands `CatalogIsQuoted`, of the sentence and of Prices beside
it (`QuotesSpec`).

**Search** - the prefetch (`plan`), the model's search, and for either what
`search_catalog` does: by wording, by meaning, by meaning again over a rebuilt
index, and more broadly, while `live`, the catalog, changes and `index` is
rebuilt by others.

**Prices** - the amounts of a result: `displayPrice` beside each amount, the
line to quote of each product, the amounts taken out of the model's copy, and
what grounding finds again in the copy that is kept.

**Session** - what turns and card taps remember of a shopper, in the store that
gives out copies (SQLite) and the one that gives out the object (memory).

**Conversation** - Chat and Session beside one another: what one saved session
keeps from a turn to the next.

**Settings** - the form in any number of tabs, `validateSettings`, the row, and
`merchantPackFor` with `buildCachedPrefix` for each turn that begins.

### Shared caches, catalog, cart

**Snapshot**, **Policies** - the browse that turns share, with joins,
invalidation by webhook, sweep and failure; the policy page that each turn
fetches for itself, with headers, body, timeout and abort, and the entry that
the last one leaves.

**Caches** - Snapshot, Policies and Settings beside one another: what the
shoppers of a shop share.

**SpeechCache**, **Transcriber** - a clip filled by its own pump and played by
listeners that join and leave; a recording's uploads, judgements and fallback,
and the shop's recent record that decides which model goes first.

**Cart** - one session's row, the requests working on copies of it, the
storefronts' carts, and writes that timed out but may still arrive.  `asked`,
`kept`, `overlapped`, `overtaken` are history.

**Catalog** - one shop's index: the catalog is its version number, the index
remembers the version it was built from.  `waiting`, `again` are the refresh
queue, `rebuild` who rebuilds and what they read, `build` the build in flight
that others join.  `heard`, `walked`, `dropped` are history.

**Attribution**, **OrderLedger** - the attribution tables, statement by
statement, with the shopper's requests and Shopify's webhooks in flight; and
what the merchant is promised of the orders.  See [refinement](#refinement).

### The browser

**Voice**, **Widget** - the chunk keeps its state in one object `voice`, which
its functions pass on; so in Voice each function is an operator from the object
to the object, and what a function awaits is a task in it.  Widget has the
panel, the streamed turns, and an action for every callback that takes a task
up again.

**Endpoint** - below Widget: when a recording ends and what of it is sent.
`Hear` is an animation frame of `monitorSilence()`, some time after the last
one, with the loudness of the room, the shopper or the opening chime; `ear` is
what the loop keeps (the floor, the peak, the frames held back while the room
is measured, the time spoken, the silence), `words` the live caption by how it
ends.  `truth` is what there was to hear, which the loop cannot know: history,
with the meter that may be dead.  `CaptureStops` takes the recording, off the
samples or from the browser's recorder, which may hold sound, zeros (a dead
graph) or nothing, whatever the meter read; `Delivered` is what `pcmToWav` and
the recorder make of it, `Sent` the gate of `onCaptured`.  A floor climbs by a
whole level in a frame or not at all, and a peak fades by one, where the code
takes a fraction.
`DictationSpec` at its end puts Widget and Endpoint beside one another: how
words become a turn (`OnlyWhatWasSaid`).

### How modules are composed

**MC modules** extend modules and give their constants values; **Proofs
modules** extend modules and TLAPS.  Caches, Conversation and the ends of
Endpoint and Facts put components that share no state beside one another, each
step being of one of them (`CachesSpec`, `ConversationSpec`, `DictationSpec`,
`QuotesSpec`): a property of the whole, as `CachesAreCurrent`, is stated and
proved there.  In MCBilling,
MCTurns, MCServing and MCWidget a behaviour is of one part, chosen at the start,
and the properties of each are properties of the whole run; what a part is fair
in is assumed of the behaviours of that part.

Components are composed through what one assumes of another: Metering takes the
subscription row as an input that may become any of `Row` between two steps
(of the kinds Subscription produces), Subscription takes the token as there or not
(a call may fail), Turn takes tools and stores that may fail, Limiter's
requests are any routes, Search's index is one of those Catalog builds.
Entitlement is shared by Metering and Subscription, Voice is part of Widget,
whose `EndpointFires` takes Endpoint's outcome as given.  Of the assumptions on
constants those of Endpoint, Facts, Figures, Search and Settings say something of
the world; [proofs](#proofs) says what.

## Runs

Each run with the properties it checks.  "Bounds" says what is small and why it
is enough.

| Run | What it shows | Bounds |
|---|---|---|
| `billing`, part metering | No conversation is charged twice (`ChargedOnce`); the charges at Shopify are for conversations judged overage (`ChargesAreJustified`), which are only those beyond the allowance (`OverageBeyondAllowance`); the usage page never overstates (`LedgerNeverOverstates`) | 2 sessions, 2 months, 1 redaction, 2 usage lines, 5 rows (three plans, pending, no line): two settlements race for one ordinal, across a month's end, a plan change and a redaction |
| part subscription | A paid plan in force was approved (`PaidPlanWasApproved`); the row comes to agree with Shopify, in the usage line too where the subscription has one, and stays so (`EventuallyAgrees`) | 2 subscriptions, 2 calls at once, 2 changes at Shopify, 2 clicks, each webhook once: an old and a new subscription, with every order of their events; 2 listings in each mode, one of them without a usage line |
| `turns`, part turn | A finished bubble holds nothing ungrounded (`DoneIsGrounded`); turns whose agent called for a human and the control group's are free (`HandoffIsFree`); every turn ends (`TurnsEnd`) | 6 kinds of token, 2 tokens a call, 2 deltas a read, 2 tool rounds, both attempts, text and voice: a figure and what follows it, in one read or two, in either attempt |
| part breaker | A failing merchant is never called freely (`FailingIsOpen`) nor forgotten for another (`FailingIsRemembered`); one that recovers is served again (`Recovers`) | 2 merchants in a map of 1, 3 calls at once, threshold 2, 3 outages: a late end meets each state, and eviction is constant |
| `turn_trip` | *violation* of `NothingAfterTrip` | 3 tokens in reads of 2 |
| `turn_billed` | *violation* of `GivenUpIsFree` | 2 tokens, 1 tool round |
| `limiter` | A client's rate and a day's bill are bounded (`RateIsBounded`, `BillIsBounded`), and who waits as told is let in (`RetryAfterSuffices`) | 3 addresses in a map of 2, 2 shops, 2 days of 2 ticks, the dearest and a cheap route |
| `catalog` | A change heard of is fetched (`ChangesAreFetched`); a burst delays a rebuild only so far (`BurstsAreBounded`); the index comes to show the catalog (`EventuallyCurrent`) | 2 changes, 1 turn beside the queue, small debounce, ceiling, TTL and cooldowns with the order of the real ones; version 1 is a catalog with nothing to index |
| `install` | No interleaving of renewals, cycles and replacements strands a shop (`TokensAreKept`); a merchant's visits repair what died (`VisitsRepair`) | 2 calls at once, 1 uninstall: two renewals of one single-use token, an answer lost, a call from before the uninstall |
| `widget`, part widget | One voice speaks at a time (`OneVoiceAtATime`), what was retracted is not heard (`RetractedIsSilent`), the microphone is let go of (`MicIsReleased`), a recording that was tapped off is not sent (`CancelledIsNotSent` in `OnlyWhatWasSaid`) | 2 presses, 2 turns, 2 sentences, 1 loop of the end-pointer: an old one and a new one of each |
| part endpoint | each frame of voice counts, those too that came before the room was measured, and no frame of the room does; no pause shorter than the words allow ends the turn; it ends when the shopper is done, after silence, and at last in any case; what was spoken and recorded is sent, a room is not, and neither are the zeros of a dead capture (`HeardAsSpoken` in `OnlyWhatWasSaid`) | 2 levels of the room, a voice clear of both and a chime louder than it; frames of 80 and 240 ms, so that one may skip the whole calibration; times of the code in steps of some 80 ms, shortened where nothing happens but waiting (hanging 4, giving up 6, the longest utterance 9), in the order of the real ones; a capture by samples or by the recorder that took sound, zeros or nothing |
| `widget`, part cart | Retries add nothing twice (`NeverMoreThanAsked`); what was acknowledged stays unless adds overlapped or a late write overtook (`AddsAreKept`); every sale can be traced to its session (`SalesAreTraceable`) | 2 storefronts, 2 variants, 2 requests at once, 1 retry, 2 carts, 3 adds |
| `attribution` | The control group never talked to the assistant (`ControlGroupIsClean`); a linked order is credited in the end (`LinkedOrdersAreCredited`); the conversions table implements the ledger (`ImplementsLedger`) | 1 session, 1 order that cost 2 and of which the pixel claims 0, 2 or 3, 2 buckets, 1 change of the fraction, 1 restart, 1 request of the shopper beside the webhooks: sessions share no row, so that one with any bucket and fraction stands for each |
| `pixel_claim` | *violation* of `WebhookIsTheTruth` | as `attribution` |
| `serving`, part speech | Whoever listens hears every chunk once, in order, to its end (`AudioIsWhole`); the bytes counted are those held (`BytesAreAccounted`) | 2 sentences of 2 chunks, 2 players, room for 2 chunks, 1 failure |
| part transcripts | A shop drifts back to the primary model (`DriftsBack`) | 2 shops in a map of 1, 2 recordings at once, a window of 2 |
| part snapshot | no turn is served a catalog older than the last change heard of or the TTL (`SnapshotIsCurrent` in `CachesAreCurrent`) | 2 shops in a map of 1, 2 turns, 2 browses, 1 change |
| part policies | no shopper is read a policy replaced longer ago than the TTL (`PolicyIsRecent` in `CachesAreCurrent`) | 3 turns, 2 rewrites, a TTL of 2 |
| part settings | no save breaks a turn or is lost to a field its form does not have; each turn has the merchant's own words (`PromptIsTheMerchants` in `CachesAreCurrent`) | 2 tabs, 2 saves, 4 wordings: empty, good, volatile and too long |
| part chat | a chip, tapped later, narrows what is remembered (`ChipsAreAnswered` in `SessionIsRemembered`) | 3 products, 2 colours, 3 messages |
| part session | what a shopper told is told to the model from then on (`ToldOnce` in `SessionIsRemembered`) | 2 requests at once, 3 turns or taps, both stores, 5 utterances |
| part stream | The shopper reads the reply, from its start, whole (`ReplyIsWhole`) | 2 replies (an escape of four hex digits; a quote and a line break), deltas of 1 or 2 symbols, 2 records in flight, every cut by the network |
| part facts | the sentence is about the page's product and true (`FactsAreTrue` in `CatalogIsQuoted`) | products of up to 3 of 9 variants, listed or not, four kinds of page, a lookup that is there, missing, or failing |
| part prices | the line to quote holds what the variants cost and can be found again (`PriceLinesAreTrue` in `CatalogIsQuoted`) | up to 2 variants of 6 kinds of price, 3 ranges, one or two products |
| part figures | No digit of an unknown figure is shown and no answer is lost to a half-typed one (`TripwireIsExact`); an accepted answer has only figures borne out (`AcceptedIsGrounded`) | replies of two clauses of 15 kinds, with and without stops; 4 sets of results, one budget |
| part search | What is handed over was on sale, and "not there" is true (`SearchIsHonest`) | 2 products, 3 questions, 3 queries, 1 change, 1 rebuild beside the turn's own |
| `repair` | *violation* of `RepairOnlyAbbreviations` | the part figures alone |

Bounds that stand for nothing in the code are constants commented "bound".
Clocks are ages that stop at the largest value a comparison can tell apart,
except in Limiter, whose day is `DayLength` ticks.  Runs in which a bounded
counter or clock can run out, or a conversation simply ends, set
`CHECK_DEADLOCK FALSE`; `catalog` does not stop and is checked for deadlock.
Symmetry is used only where no liveness property is checked, over sessions,
addresses, shops, variants and requests that the module never tells apart.

Each module's type invariant states what its variables range over.  Those of
Metering, Subscription, Limiter, Catalog, Install, Breaker, Attribution, Cart
and Turn are theorems; those of the other modules with theorems are part of the
invariants these are proved by (Widget's in `Page`, Endpoint's in `Typed`).
None is among the properties above, which are kept to what could go
wrong.

Some properties name exceptions, each a history variable that records a thing
the code really does: `overlapped` and `overtaken` in Cart, `raced`, `garbled`,
`hurried` and `unfinished` in Widget, `unanswered` and `steady` in
Attribution, `swallowed` in Search.  What happens in them is described under
[divergences](#where-the-code-and-its-documentation-part).

## Fairness

Liveness is checked under what the code's scheduling gives, and no more:

* `turns`, where a turn runs: weak fairness of the turn's own progress.  Model calls have a
  timeout, tools and stores answer or fail; the loop is one async function.
* `turns`, of the breaker: time passes; calls end (they have timeouts); and strong fairness
  of probes of a merchant, since shoppers keep coming and a half-open entry
  keeps being asked.
* `billing`, where the behaviour is of the subscription: an admin page is opened now and then, calls end, and Shopify
  does not fail for ever (strong fairness of `FetchActive`, which needs the
  page's call to be in its asked state); each webhook is delivered or lost.
* `catalog`: time passes and the queue's timer fires; walks and builds do not
  fail for ever; a shopper searches now and then.
* `install`: calls end; merchants open both admin pages for ever, whose calls
  do not fail for ever; the uninstall webhook comes in the end (Shopify retries).
* `attribution`: Shopify repeats an order webhook until it is answered, and an
  answered one has run both of its statements; a redaction that was begun goes
  on.  Nothing is assumed of the shopper's own requests or of the pixel.

## Refinement

OrderLedger is what the merchant may rely on of the orders in the report: each
is entered once, under its name; who bought it, once known, never changes; the
amount is one that was said of it and never falls; a redaction forgets all.
Attribution implements it (`ImplementsLedger`) under the mapping of an entry to
the conversions row of the same name: every interleaving of pixel and webhook,
each repeated and each before or after the cart was linked, maps to an entry
heard again or to a stutter.  The pixel may claim any integer (`Claims`), since
the gateway takes what the browser sends.

Two promises the ledger does *not* make.  One entry for one order: a name is what
the pixel knows the order by, its id or the checkout's token, and the code keeps
a row for each.  And that the amount comes to be the price: a claim above it
outlives the webhook, against what the handler's comment says (run
`pixel_claim`).

## Proofs

TLAPS proves the theorems below for all values of the constants that the named
assumption of each module allows.  Every safety property of the passing
runs is a theorem; so are the action properties and the refinement.

**BillingProofs** - of Metering, `TypeCorrect` and the four safety properties,
each by an inductive strengthening of its own.  `ChargedOnce` needs only that a
usage record carries the key of its conversation (`KeyedUsage`).
`ChargesAreJustified` follows from `Justified`: every conversation on its way
to Shopify, or charged there, was judged overage, and every one judged overage
had been counted.  `OverageBeyondAllowance` is arithmetic on cardinalities: each
conversation judged overage was counted when `n` others already were, and one
step adds one to both sides (`Ordinals`).  `LedgerNeverOverstates` counts the
settlements that can still write the ledger: what it shows is at most the price
times the judged conversations whose settlement has ended (`Ledger`).

Of Subscription, `SubscriptionTypeCorrect` and `PaidPlansWereApproved`
(`PaidPlanWasApproved`).  The row alone does not carry it: `Paid` says that what
is active at Shopify, what a webhook in flight says is active and what a
reconcile was told is active was approved, and of the row's plan that it was
approved or is the free one, pending or not under managed pricing, where a
webhook with a name nobody knows leaves it in force.

**LimiterProofs** - `TypeCorrect` and the six properties.  `RateIsBounded` is
not inductive: the invariant `Tracks` relates a client's fair balance to its
bucket (tokens plus what was refilled since its stamp) for held buckets and to
a full bucket for others, which is why evicting a full bucket costs nothing.
`RetryAfterSuffices` needs the promise in the same invariant.  `BillIsBounded`
follows from "recorded spend is at least what was served", which the order of
the two writes keeps through a death between them.

**CatalogProofs** - the catalog, its prices, and the text that quotes them.

* Catalog: `TypeCorrect`, `RebuildsAreNotPutOff` (`BurstsAreBounded` for any
  debounce and ceiling) and `NoChangeForgotten` (`ChangesAreFetched`).  The
  first two are one inductive invariant, `Shape`: the type, the bound on timer
  plus age, and the shape of the queue (while it rebuilds it waits for no timer,
  only then is a change put aside, and who waits for a build has read
  something).  `ChangesAreFetched` is inductive on top of it.
* Caches: `SharedCachesAreCurrent` (`CachesAreCurrent`), for any number of
  shops, turns and browses.  Each invariant says how old what is kept can be: a
  browse reflects no less than the last webhook, and all that its age rules out
  (`HeldIsCurrent`), and so does one that was dropped while it was waited for
  (`WaitersAreServed`); a page has missed no edition that its age and the time
  it took do not excuse (`Since`); a row is an old one or was validated
  (`IsRow`), which with the prompt's text says that what a turn is given is what
  the row in force says.
* Figures: `TripwireStaysExact` (`TripwireIsExact`) for any reply in deltas of
  any length, and `AcceptedStaysGrounded` (`AcceptedIsGrounded`) for any reply,
  results, claims and budget.  A figure is fixed by the few characters around
  it (`IsFigure`), so what is settled in a part of a reply stays settled in all
  of it (`SettledInside`), and everything shown was settled in something that
  did not trip (`Streamed`).  For the verdict the text is followed through the
  repair from its end to its start: up to a figure that is repaired, and two
  characters into it, what is written is as it was (`Agrees`), so that a figure
  of the judged text is one of the reply's, moved (`MovedFigure`), or a price
  written out (`WrittenOut`).

* Prices, Facts: `CatalogStaysQuoted` (`CatalogIsQuoted`), for any products,
  questions, pages and ways of finding the product.  The line of a product holds
  what is priced and ends at its least and its most (`LineIs`), which outlives
  any number of rounds by the same objects and the reading of their strings by
  grounding (`Quoted`).  What the lane has is, at every step, the page's product
  or nothing, and what it says is answered from that (`Told`).
* Stream: `RepliesAreWhole` (`ReplyIsWhole`), for any reply, deltas and network
  reads of any length, any heartbeats and either line end.  The extractor holds
  no memory of the cuts: what it has shown and where it stands is a function of
  how much of the document has come (`Follows`, with `Layout` saying where each
  character of the reply is in the document), and `Extract` keeps it so for any
  chunk.  The parser's side is that the bytes are records of one width
  (`Carries`), so that after any read what it has taken is the first `k` of them
  and what it keeps is the start of the next (`Reads`); the lines not taken in
  name consecutive parts of the document (`Marked`).  `StreamInv` joins the two:
  what is in the buffer and on the wire is what lies between what the extractor
  has and what the model has written (`Unread`), and a terminal event is the last
  of it, so that a completed response has all of the document.

The attempt on the tripwire changed its statement: that whatever it stops for is
claimed by the *whole* reply is false of its words of stock, since "in stock."
followed by a later "sold out" reads as sold out, and the run's replies had been
too short to show it.  The property now says that the reply claims it up to one
of its stops, and the run's replies hold both.  The attempt on the verdict
showed a case in which the model's repair took an amount for abbreviated where
the pattern's lookahead does not ("$9.005"); the model was wrong and follows the
code now.

**InstallProofs** - `TypeCorrect`, `NoLegacyCalls` (`LegacyIsNeverUsed`) and
`NoShopIsStranded` (`TokensAreKept`) for any number of calls at once.
`freshShop` looks at the row before the call waits, so what it saw must stay
true of the grant: the invariant says that a call which holds a renewed token or
is about to use one holds a grant of the right kind (`Paired`), and grants that
somebody holds are never minted into.  From it each step that takes the shop's
last good token is shown to be an uninstall, ninety idle days, or a lost answer:
a renewal kills a token only in the step in which the call gets the next one.

`LegacyIsNeverUsed`, `MapIsBounded`, `ShopsWithinGlobal` and `ThrottledAreKept`
held in runs of their modules and are kept as theorems only.

**BreakerProofs** - `TypeCorrect`, `FailingIsNotServed` (`FailingIsOpen`) and
`FailingIsNotForgotten` (`FailingIsRemembered`), for any threshold, window,
number of merchants and size of the map.  `FailingIsOpen` does not mention the
entry's own count; `Counted` does: a closed entry counts the failures in a row,
short of the threshold, and a merchant without one has none.

**AttributionProofs** - `TypeCorrect`; `LedgerIsImplemented`
(`ImplementsLedger`), see [refinement](#refinement), for any sessions, orders,
buckets and requests at once: it needs only types and that a name without a row
maps to the ledger's empty entry (`Blank`), and then one step per statement of
the store, most of them a stutter; and `ControlGroupStaysClean`
(`ControlGroupIsClean`), by the chain from the bucket to the conversation: an
answer's arm was computed from the fraction in force (`Computed`), so was the
recorded one (`OnRecord`), the panel shows only by such an answer (`Shown`), and
only who was shown it talks (`Talked`).

**WidgetProofs** - one shopper's browser.

* Cart: `CartTypeCorrect`, `CartHoldsWhatWasAsked` (`NeverMoreThanAsked`),
  `CartSalesAreTraceable` and `CartKeepsItsAdds` (`AddsAreKept`).  The first
  counts asks: lines in a cart, lines about to be written or delayed, and the
  requests that have still to read, are together within what was asked
  (`Enough`), so that a retry, which writes what was read before, adds to
  neither side.  The last says that what a request has read is still what the
  cart holds, unless somebody overlapped or a write was overtaken (`Kept`).
* Widget: `PageHasOneVoice`, `RetractedSpeechIsSilent` and
  `MicrophoneIsReleased`, by one invariant `Page` for any number of presses,
  turns and sentences.  The playback is one chain of opening, fetching,
  beginning and sounding (`OneChain`), and says it plays only when something
  will go on (`Heeded`); there is one recording per press (`Single`); the
  microphone is held by a voice turn alone (`Held`), and a voice turn has always
  something left that ends it (`Going`).
* Endpoint with Widget: `TurnsAreWhatWasSaid` (`OnlyWhatWasSaid`), for any
  loudness, frames and times that fit one another.  The floor and the peak tell
  the room from the shopper as far as the room was gauged (`Tuned`), so that a
  frame is judged rightly, and what the loop has counted with what it holds back
  is what the shopper said (`Follows`).  The recording is taken at the end and
  once (`TakenAtEnd`), so that what is sent of it is judged by a loop that is
  over.

**ServingProofs** - what serves a turn.

* Turn: `TurnTypeCorrect`, `DoneTurnsAreGrounded` (`DoneIsGrounded`) and
  `HandoffsAreFree` (`HandoffIsFree`), for a model that writes anything of any
  length.  What a done bubble shows is what `runTurn` returned, so the invariant
  follows the result from where it is made: it was validated or is the reply
  that gives up (`Validated`), and its hand-off is what the tools did
  (`Accounted`).  Turns given up are not covered: `turn_billed` shows them billed.
* `ClipsAreWhole` (`AudioIsWhole`) and `ClipsAreAccounted`
  (`BytesAreAccounted`), for any sentences, listeners, ceiling and failures.  A
  sum over the clips is the number of their chunks (`BytesAreChunks`), and what
  `evict()` takes is an initial part of the idle clips in the order of their use
  (`Ordered`), so that dropping it reaches the ceiling (`EvictedIsEnough`).
* `ShopsDriftBack` (`DriftsBack`), for any window and trigger, and
  `SessionsAreRemembered` (`SessionIsRemembered`), for both stores and any
  number of overlapping requests.
* `SearchesAreHonest` (`SearchIsHonest`): what is denied was looked for under
  each wording that was tried, so the invariant says what each step has found
  out (`Searched`): the wordings before this one found nothing on sale, and what
  is near in meaning is among the hits of an index of its own.

**Assumptions.**  Bounds are naturals, and sets that are counted are finite (the
requests of a session or a cart, the goods of a page).  A value that stands for
the absence of something (`None`, `Absent`, `NoBuild`, `NoBrowse`, `Nobody`)
is not the thing.  Seven say more.  `SubscriptionAssumption`: what is listed
is of a paid plan, and what the app itself creates bears its plan's name.  `EndpointAssumption`: a live meter reads
something of any room, the room wanders within the headroom, voices and the
chime are clear of it, and the times are in the order the code's are (480 ms of
calibration are no more than the shortest speech and the shortest pause
together, and so on).  `SettingsAssumption`: the pack that is fallen back on is
not a merchant's wording, and what the prompt itself writes is not volatile.
`SearchAssumption`: a product has a text and a meaning.  `FiguresAssumption`:
replies and results are finite sequences.  `PricesAssumption`: amounts are
naturals, in products that are finite sequences.  `FactsAssumption`: a display is
of its amount, a variant with choices has a title, and no title is the title or a
choice of another variant (Shopify makes titles of the choices and refuses a
second variant with the same).  TLC evaluates each in the run of its module.

**Only model-checked**, and why:

* Liveness - `EventuallyAgrees`, `TurnsEnd`, `Recovers`, `EventuallyCurrent`,
  `VisitsRepair`, `LinkedOrdersAreCredited`: fairness and ENABLED are beyond the
  prover.

The library's induction theorems take an operator as a parameter, which the
installed provers cannot instantiate.  Where a proof needs induction it is by
least counterexample (`WFMin` of WellFoundedInduction, over a set of naturals),
which gives the existence and the equations of a recursive function: so
`RecursionIsDefined` and `CountsUp` in CatalogProofs (with `InStringIs`, `PushIs`
and `HandledIs`, what the loops of the extractor, the parser and the adapter
come to), `RunExists`, `SumExists` and `DurationIs` in WidgetProofs, and over
the subsets of a finite set `BytesAreChunks` in ServingProofs.

## Where the code and its documentation part

Found by runs that are expected to fail:

* `turn_trip`: after the tripwire aborts a stream, deltas of the same network
  read are still handed on (`orchestrator/src/loop.ts:555`), the rejected
  figure with them, against `loop.ts:524`.  The final verdict and the reset
  take it back (`DoneIsGrounded` holds).
* `turn_billed`: a turn the loop gave up on, for a refusal, an unreadable answer
  or too many tool rounds, is billed.  `escalate()` returns it with an ok verdict
  and no hand-off (`loop.ts:614`), and `settle()` is given these two
  (`server.ts:2457`); against `billing/src/usage.ts:20` ("Failures are free") and
  `server.ts:2453`, where what was handed to a human is free.
* `pixel_claim`: a total the pixel claims above the order's price stands for good
  (`MAX`, gateway `store/sqlite.ts:480`), against `server.ts:1867-1869`, where the
  webhook "overwrites revenue when it arrives".
* `repair`: a correct sum stated in whole units is rewritten into a single price
  a little above it (`grounding/src/money.ts:166`), against `money.ts:139-141`.

Met while modelling, visible in the models but without a run of their own.

*Turn and grounding.*  The tail of a cleanly ended stream is released without
the tripwire's look (`loop.ts:572`).  `money.ts:132` says that only a bare
amount is repaired, and its pattern takes one that ends in `.00`.  The tripwire
knows neither the notices of a sold-out cart (`incremental.ts:85` against
`validate.ts:55`) nor the shopper's own limits, so it stops answers the verdict
would accept.  A sentence is taken to end at the point of "$18.95".
The amounts of `CURRENCY_SYMBOL` include the rupee, which no pattern of
`money.ts:15` reads: such figures are not checked.  `formatMinor` divides yen
by a hundred.  The extractor returns after a `"reply"` that is not the key, and
looks on only when the next delta comes.

*Conversation.*  The page lane sends final cards without changing
`session.products` or the chips (`server.ts:1490`, against `:2303`).  The lanes
without a model neither mark the session engaged, nor record `cards_shown`, nor
append to the history.  A model turn that fails leaves its early cards on
screen.  The list of cart tools to switch off (`server.ts:2158`) misses
`add_to_cart`.  Asked for its sizes, a product whose variants have titles but no
options "only comes the one way" (`page-facts.ts:434`); one whose other
variants' availability is unknown is "sold out".  A shopper who leaves counts as
a failure of the product lookup's breaker.

*Search.*  A 429 on the search by meaning is swallowed, so the index may be
rebuilt during a rate limit, against `tool-executor.ts:328-336`; the cooldown is
set before the rebuild, so a rebuild of the prefetch, failed ones too, makes the
model's own search skip it and say "not there"; a rebuild that joins an older
one may lack the product.  A prefetch reused on half of its words hands over
what was said of another query.

*Session and settings.*  "Does it come in size 9?" is recorded as the shopper's
size (against `preferences.ts:102-105`), as is "I'm 30".  What a turn said whose
model call failed is not saved (SQLite).  Overlapping requests of a session
write the whole row back, and the last one wins.  Sessions are swept at boot
only.  `merchantPackFor` falls back on the demo pack, whose made-up shipping
policy `server.ts:1346-1352` calls the bug being fixed; only rows stored before
the validation reach it.  Of two open settings tabs the last save writes the
whole row.  One edit may be counted up to once a turn under way
(`server.ts:1378`).

*Speech.*  Once the acoustic model goes first, it is what the window judges.
`stt-preference.ts:74` forgets the shop inserted first, busy or not.  The second
upload uses the recorder's container although the relabelled one was accepted
(`service.ts:619`), and its words are not judged.  Speech fetched from the
provider has no timeout; an announcement does not make a clip recent.

*Widget.*  Speech that was stopped while being fetched clears the busy flag of
the sentence after it (`widget-voice.js:1707`, `:1718`, `:1734`, `:1774`,
against `:1630`), and undecodable audio moves the queue on twice: the exceptions
of `OneVoiceAtATime`.  A response that ends without its done frame never ends
the voice turn; a second press while the permission is pending leaves a stream
nobody stops; a tap-off during the awaits of `startCapture` leaves it running:
the exceptions of `MicIsReleased`.  The frames of the opening chime are held
back with the others and replayed as speech (`widget-voice.js:1405`), although
the window "starts AFTER the opening chime" (`:1320`) for the floor; so a
capture in which nobody speaks may miss the "no-speech" end and run for the
whole 20 s, and one long frame of it is enough to be sent: what `HeardAsSpoken`
says of a room with nothing in it says it of one without the chime too.  Who
talks through the whole window without a gap is measured as the room.  A tap-off while the transcript is pending
still sends it; a text turn's reset cuts a voice turn's speech.

*Caches.*  A browse that fails after the entry was invalidated and fetched anew
deletes the newer entry (`catalog-snapshot.ts:108`): one browse more, nothing
stale.  A policy fetch that failed or was aborted by one shopper is kept as an
absence for everybody's six hours, also over a text another turn just read; the
timeout covers the headers only.

*Attribution.*  The arm answered to the widget is computed anew and not the
recorded one: the exception `steady` of `ControlGroupIsClean`.  A redaction
leaves `funnel_steps` (against `sqlite.ts:254`).  The pixel makes up an id when
it cannot read the session's, and the merge keeps it; it names an order by the
checkout's token when it has no id, and the webhook by its id, which makes two
rows of one order, "impossible" by `sqlite.ts:472`.  The in-memory store
ignores a second report.  Orders are counted against sessions, so that the
variance of a rate above one is negative.

*Cart, billing, index, install, limits.*

* The mutex of `ucp-client/src/cart.ts:78` belongs to the `SafeCart` of one
  request, so two requests of a session lose one another's line
  (`overlapped` in Cart is where `AddsAreKept` makes its exception).  The
  session upsert keeps the old shop beside the new cart (gateway
  `store/sqlite.ts:394`), against `server.ts:1913`.
* `cancel()` (gateway `billing/service.ts:306`) cancels only the subscription
  the row names, so after a second upgrade was begun the first one goes on
  being paid until the next reconcile shows it.  `beginUpgrade`
  (`service.ts:291`) leaves a paying shop on the free plan's entitlement while
  the merchant looks at the approval page.
* A reconcile that finds a subscription without a usage line leaves in the row
  the line of an earlier one (`service.ts:265`): `Agrees` says nothing of the
  line there, and the row may name a line that is gone for good.
* A conversation that spans a month's end is counted in both months
  (`service.ts:87`), though `usage.ts:16` says once per session.
* A rebuild that joins an older build is taken for done
  (`search/catalog-index.ts:119`), though `search/refresh.ts:168` says the
  index is never quietly one version behind; the index's age repairs it.  Nobody
  calls the queue's `stop()` or `drain()` at shutdown.  An emptied catalog keeps
  its old vectors (`catalog-index.ts:160`); `EventuallyCurrent` exempts such
  versions.
* A row whose refresh token is gone is repaired by no visit (gateway
  `server.ts:916`), against `shopify/token-lifecycle.ts:73`: the exception
  `Wedged` of `VisitsRepair`.
* Webhooks under `/admin/shopify/` (`server.ts:579`) are not exempt from the
  limiter, though order webhooks must not be throttled (`limits/limiter.ts:78`).

## What is not modelled

* Arithmetic on samples (noise, presence, wav) and on statistics (the lift and
  its interval): numbers without a protocol.  Their verdicts are inputs of the
  models.
* The patterns that read natural language: intents, page questions,
  preferences, stock phrases, the amounts written in other ways than a symbol
  and digits.  What they may find is an input; what the code does with it is
  modelled.  Embeddings and ranking likewise.
* Markup, layout, wording and logging; the cards and the admin pages other than
  the settings form's fields.
* Cryptographic checks (HMAC, session tokens), wire formats, CORS, static files,
  health and metrics routes, configuration, start-up.
* `voice/src/session.ts`, a state machine nothing in the gateway or the widget
  uses; the Postgres spend store, which nothing creates; the cart operations of
  the UCP client that nothing calls.
* The evaluation harness, the scripts, the theme extension.

## Plan

What is left, in this order:

1. The wider texts: documents whose reply is not the first property, and the
   patterns of `money.ts` other than a symbol and digits.
2. Two sessions and two orders in `attribution`, once the fairness can be
   checked in the time of a run.
3. Lanes, breaker and ladder composed: Chat takes the breaker's state as given.
