------------------------------ MODULE Snapshot ------------------------------
(***************************************************************************)
(* One browse of a shop's catalog shared among turns:                      *)
(* search/catalog-snapshot.ts, asked by browse() of tool-executor.ts and   *)
(* cleared by the catalog webhook of server.ts.                            *)
(*                                                                         *)
(* The catalog is its version.  A browse reads page after page, so what it *)
(* returns is a version from between its start and its end.                *)
(***************************************************************************)
EXTENDS Integers, FiniteSets

CONSTANTS
  Stocks,      \* shops
  Browsers,    \* bound: turns asking at once
  Browses,     \* bound: browses begun
  Ttl,         \* ttlMs, in ticks
  MaxHeld,     \* MAX_SHOPS
  MaxVersion,  \* bound: changes of a catalog
  NoBrowse     \* undefined

ASSUME SnapshotAssumption ==
  /\ Ttl \in Nat \ {0} /\ MaxHeld \in Nat \ {0} /\ MaxVersion \in Nat
  /\ IsFiniteSet(Stocks) /\ NoBrowse \notin Browses

VARIABLES
  held,      \* entries: the browse of each shop, or NoBrowse
  browses,   \* [shop, from, age, state, version]
  asking,    \* turns: [browse, floor, got]
  version,   \* the catalog of each shop
  told,      \* history: its version when its last webhook was handled
  aged       \* history: its versions of the last Ttl ticks, the oldest last

snapshotVars == <<held, browses, asking, version, told, aged>>

NotBegun == [shop |-> NoBrowse, from |-> 0, age |-> 0, state |-> "new", version |-> 0]
NotAsking == [browse |-> NoBrowse, floor |-> 0, got |-> 0]

SnapshotInit ==
  /\ held = [s \in Stocks |-> NoBrowse]
  /\ browses = [b \in Browses |-> NotBegun]
  /\ asking = [t \in Browsers |-> NotAsking]
  /\ version = [s \in Stocks |-> 0] /\ told = [s \in Stocks |-> 0]
  /\ aged = [s \in Stocks |-> [k \in 1..Ttl |-> 0]]

Held == {s \in Stocks : held[s] # NoBrowse}
Fresh(s) == held[s] # NoBrowse /\ browses[held[s]].age < Ttl

(* What a turn that asks now has a right to: what the gateway was told of, *)
(* and what is older than the TTL.                                         *)
Due(s) == IF told[s] >= aged[s][Ttl] THEN told[s] ELSE aged[s][Ttl]

Asks(t, s, b) == asking' = [asking EXCEPT ![t] = [browse |-> b, floor |-> Due(s), got |-> -1]]

Idle(t) == asking[t].browse = NoBrowse

(* products(): the browse there is, under way or over.                     *)
Reuse(t, s) ==
  /\ Idle(t) /\ Fresh(s)
  /\ Asks(t, s, held[s])
  /\ UNCHANGED <<held, browses, version, told, aged>>

(* sweep(): what has expired, then the oldest while the map is full.       *)
Older(s, r) == browses[held[s]].age >= browses[held[r]].age
Swept ==
  LET live == {s \in Held : Fresh(s)}
      excess == Cardinality(live) - (MaxHeld - 1)
  IN  IF excess <= 0 THEN {live}
      ELSE {live \ gone : gone \in {g \in SUBSET live :
              Cardinality(g) = excess /\ \A s \in g, r \in live \ g : Older(s, r)}}

NewBrowse == CHOOSE b \in Browses \cup {NoBrowse} :
  IF b = NoBrowse THEN \A c \in Browses : browses[c].state # "new" ELSE browses[b].state = "new"

(* products(): a new browse, stored before it resolves.                    *)
StartBrowse(t, s, b) ==
  /\ Idle(t) /\ ~Fresh(s) /\ b = NewBrowse
  /\ \E kept \in Swept :
       held' = [r \in Stocks |-> IF r = s THEN b ELSE IF r \in kept THEN held[r] ELSE NoBrowse]
  /\ browses' = [browses EXCEPT ![b] =
       [shop |-> s, from |-> version[s], age |-> 0, state |-> "under way", version |-> -1]]
  /\ Asks(t, s, b)
  /\ UNCHANGED <<version, told, aged>>

BrowseEnds(b) ==
  /\ browses[b].state = "under way"
  /\ \E v \in browses[b].from..version[browses[b].shop] :
       browses' = [browses EXCEPT ![b].state = "over", ![b].from = 0, ![b].version = v]
  /\ UNCHANGED <<held, asking, version, told, aged>>

(* A failed browse deletes the shop's entry, be it its own or a newer one. *)
BrowseFails(b) ==
  /\ browses[b].state = "under way"
  /\ browses' = [browses EXCEPT ![b].state = "failed", ![b].from = 0]
  /\ held' = [held EXCEPT ![browses[b].shop] = NoBrowse]
  /\ UNCHANGED <<asking, version, told, aged>>

(* The turn goes on with what the browse it waited for returned.           *)
Resume(t) ==
  /\ ~Idle(t) /\ asking[t].got = -1
  /\ LET b == browses[asking[t].browse]
     IN  \/ b.state = "over" /\ asking' = [asking EXCEPT ![t].got = b.version]
         \/ b.state = "failed" /\ asking' = [asking EXCEPT ![t] = NotAsking]
  /\ UNCHANGED <<held, browses, version, told, aged>>

NextTurn(t) ==
  /\ ~Idle(t) /\ asking[t].got >= 0
  /\ asking' = [asking EXCEPT ![t] = NotAsking]
  /\ UNCHANGED <<held, browses, version, told, aged>>

(* Fault: a browse under way is left where it is.                          *)
InvalidateSettled(s) ==
  IF s \in Held /\ browses[held[s]].state = "over"
  THEN [held EXCEPT ![s] = NoBrowse] ELSE held

invalidate(s) == [held EXCEPT ![s] = NoBrowse]

(* The webhook of a change; it may come late or never.                     *)
Webhook(s) ==
  /\ told[s] < version[s]
  /\ held' = invalidate(s)
  /\ told' = [told EXCEPT ![s] = version[s]]
  /\ UNCHANGED <<browses, asking, version, aged>>

MerchantEdits(s) ==
  /\ version[s] < MaxVersion
  /\ version' = [version EXCEPT ![s] = @ + 1]
  /\ UNCHANGED <<held, browses, asking, told, aged>>

SnapshotTick ==
  /\ browses' = [b \in Browses |->
       [browses[b] EXCEPT !.age = IF browses[b].state = "new" \/ @ = Ttl THEN @ ELSE @ + 1]]
  /\ aged' = [s \in Stocks |-> [k \in 1..Ttl |-> IF k = 1 THEN version[s] ELSE aged[s][k - 1]]]
  /\ <<browses', aged'>> # <<browses, aged>>
  /\ UNCHANGED <<held, asking, version, told>>

SnapshotNext ==
  \/ \E t \in Browsers : \/ \E s \in Stocks : \/ Reuse(t, s)
                                              \/ \E b \in Browses : StartBrowse(t, s, b)
                         \/ Resume(t) \/ NextTurn(t)
  \/ \E b \in Browses : BrowseEnds(b) \/ BrowseFails(b)
  \/ \E s \in Stocks : Webhook(s) \/ MerchantEdits(s)
  \/ SnapshotTick

-----------------------------------------------------------------------------
(* A turn never answers out of a catalog the gateway was told had changed  *)
(* before it asked, nor out of one that changed longer than the TTL ago,   *)
(* whoever started the browse and whenever it ends; and no more than       *)
(* MAX_SHOPS catalogs are held.                                            *)
SnapshotIsCurrent ==
  /\ \A t \in Browsers : asking[t].got >= 0 => asking[t].got >= asking[t].floor
  /\ Cardinality(Held) <= MaxHeld
=============================================================================
