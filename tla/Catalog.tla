------------------------------- MODULE Catalog -------------------------------
(***************************************************************************)
(* Keeping the semantic index of a shop level with its catalog             *)
(* (packages/gateway/src/search and the search half of tool-executor.ts).  *)
(* A webhook announces each change; the refresh queue coalesces them into  *)
(* rebuilds; shoppers' searches rebuild an index that is missing, old or   *)
(* found wanting; builds of one shop are joined, whoever asked for them.   *)
(*                                                                         *)
(* Shops share nothing here, so one shop is modelled.  A catalog is its    *)
(* version: what matters of an index is which one it was built from.  All  *)
(* clocks are ages, which stop growing once no comparison can tell.        *)
(***************************************************************************)
EXTENDS Integers

CONSTANTS
  Turn,     \* chat turns that may search
  Debounce, \* ticks the queue waits for a burst to end
  MaxWait,  \* ticks a burst may put a rebuild off
  MaxAge,   \* ticks after which an index is stale
  Quiet,    \* ticks without speculative work after the storefront refused us
  Cooldown, \* ticks between two rebuilds forced by a miss
  MaxEdits, \* bound on the changes of the catalog
  Bare,     \* versions of the catalog with nothing to index
  Queue,    \* the refresh queue, among those who rebuild
  None

ASSUME CatalogAssumption ==
  /\ Debounce \in Nat \ {0} /\ MaxWait \in Nat \ {0} /\ MaxAge \in Nat
  /\ Quiet \in Nat /\ Cooldown \in Nat /\ MaxEdits \in Nat
  /\ Bare \subseteq 0..MaxEdits
  /\ Queue \notin Turn /\ None \notin Turn \cup {Queue}
  /\ None \notin [timer : Int, age : Int] /\ None \notin [version : Int, age : Int]
  /\ None \notin [read : Int \cup {None}, building : BOOLEAN] /\ None \notin Int

VARIABLES
  catalog,  \* the storefront: its version
  hooks,    \* webhooks on their way: the versions they announce
  waiting,  \* the queue: its timer and the age of the burst, or None
  again,    \* the queue: a change came during the rebuild
  rebuild,  \* for each that may rebuild: what it has fetched, or None
  building, \* the build every caller waits for: the version it indexes, or None
  index,    \* the stored vectors: their version and age, or None
  refused,  \* age of the storefront's last refusal
  forced,   \* age of the last rebuild forced by a miss
  heard,    \* history: the newest version announced
  walked,   \* history: the newest version the queue set out to fetch
  dropped   \* history: the queue lost a rebuild to a failure or a restart

vars == <<catalog, hooks, waiting, again, rebuild, building, index, refused, forced,
          heard, walked, dropped>>
queue == <<waiting, again>>
speculation == <<refused, forced>>
history == <<heard, walked, dropped>>

Version == 0..MaxEdits
Rebuilder == Turn \cup {Queue}
Rebuild == [read : Version \cup {None}, building : BOOLEAN]
Least(a, b) == IF a < b THEN a ELSE b
Most(a, b) == IF a > b THEN a ELSE b

Init ==
  /\ catalog = 0 /\ hooks = {}
  /\ waiting = None /\ again = FALSE
  /\ rebuild = [r \in Rebuilder |-> None]
  /\ building = None /\ index = None
  /\ refused = Quiet /\ forced = Cooldown
  /\ heard = 0 /\ walked = 0 /\ dropped = FALSE

-----------------------------------------------------------------------------
(* The merchant changes the catalog.                                       *)
Edit ==
  /\ catalog < MaxEdits
  /\ catalog' = catalog + 1
  /\ hooks' = hooks \cup {catalog + 1}
  /\ UNCHANGED <<queue, rebuild, building, index, speculation, history>>

Lose(v) ==
  /\ hooks' = hooks \ {v}
  /\ UNCHANGED <<catalog, queue, rebuild, building, index, speculation, history>>

(* Fault: the ceiling bounds nothing.                                      *)
extendedForever == [timer |-> Debounce, age |-> waiting.age]

(* A burst's timer after another change: it starts again, but never runs   *)
(* past the ceiling.                                                       *)
extended ==
  IF waiting.age >= MaxWait THEN waiting
  ELSE [timer |-> Least(Debounce, MaxWait - waiting.age), age |-> waiting.age]

(* Fault: a change during a rebuild is taken for part of it.               *)
touchIdle ==
  /\ waiting' = IF rebuild[Queue] # None THEN waiting
                ELSE IF waiting = None THEN [timer |-> Debounce, age |-> 0] ELSE extended
  /\ UNCHANGED again

touch ==
  IF rebuild[Queue] # None
  THEN again' = TRUE /\ UNCHANGED waiting
  ELSE /\ waiting' = IF waiting = None THEN [timer |-> Debounce, age |-> 0] ELSE extended
       /\ UNCHANGED again

(* The webhook of a change is handled: late, out of order, perhaps again.  *)
Hear(v) ==
  /\ hooks' \in {hooks, hooks \ {v}}
  /\ heard' = Most(heard, v)
  /\ touch
  /\ UNCHANGED <<catalog, rebuild, building, index, speculation, walked, dropped>>

Begin(r) == rebuild' = [rebuild EXCEPT ![r] = [read |-> None, building |-> FALSE]]

(* The timer is due: the queue rebuilds.                                   *)
fire ==
  /\ waiting # None /\ waiting.timer = 0
  /\ waiting' = None
  /\ Begin(Queue)
  /\ UNCHANGED <<catalog, hooks, again, building, index, speculation, history>>

-----------------------------------------------------------------------------
(* Fault: an index never ages.                                             *)
isStaleOnlyIfMissing == index = None

isStale == index # None => index.age > MaxAge

recentlyRefused == refused < Quiet

(* A search finds the index stale and has it rebuilt, not waiting for it.  *)
warmIndex(t) ==
  /\ rebuild[t] = None
  /\ isStale /\ ~recentlyRefused
  /\ Begin(t)
  /\ UNCHANGED <<catalog, hooks, queue, building, index, speculation, history>>

(* A search found nothing by wording or by meaning: once in a while, that  *)
(* too has the index rebuilt.                                              *)
refreshedAfterMiss(t) ==
  /\ rebuild[t] = None
  /\ ~recentlyRefused /\ forced >= Cooldown
  /\ forced' = 0
  /\ Begin(t)
  /\ UNCHANGED <<catalog, hooks, queue, building, index, refused, history>>

(* The storefront refuses a search: speculative work stands down.          *)
noteCatalogRefusal ==
  /\ refused' = 0
  /\ UNCHANGED <<catalog, hooks, queue, rebuild, building, index, forced, history>>

-----------------------------------------------------------------------------
(* The walk over the pages begins; what it fetches is as old as its first. *)
Walk(r) ==
  /\ rebuild[r] # None /\ rebuild[r].read = None
  /\ rebuild' = [rebuild EXCEPT ![r].read = catalog]
  /\ IF r = Queue THEN walked' = catalog /\ dropped' = FALSE
                  ELSE UNCHANGED <<walked, dropped>>
  /\ UNCHANGED <<catalog, hooks, queue, building, index, speculation, heard>>

(* The pages are in: a build in flight is joined, and they are let go.     *)
build(r) ==
  /\ rebuild[r] # None /\ rebuild[r].read # None /\ ~rebuild[r].building
  /\ building' = IF building = None THEN rebuild[r].read ELSE building
  /\ rebuild' = [rebuild EXCEPT ![r].building = TRUE]
  /\ UNCHANGED <<catalog, hooks, queue, index, speculation, history>>

(* The queue's rebuild is over: a change that came meanwhile is waited for *)
(* like any other.                                                         *)
settled ==
  /\ waiting' = IF again THEN [timer |-> Debounce, age |-> 0] ELSE waiting
  /\ again' = FALSE

(* The walk fails.                                                         *)
WalkFails(r) ==
  /\ rebuild[r] # None /\ ~rebuild[r].building
  /\ rebuild' = [rebuild EXCEPT ![r] = None]
  /\ IF r = Queue THEN settled /\ dropped' = TRUE ELSE UNCHANGED <<queue, dropped>>
  /\ UNCHANGED <<catalog, hooks, building, index, speculation, heard, walked>>

Joined(r) == rebuild[r] # None /\ rebuild[r].building

(* The build is over, for all who wait for it.                             *)
Over ==
  /\ building' = None
  /\ rebuild' = [r \in Rebuilder |-> IF Joined(r) THEN None ELSE rebuild[r]]
  /\ IF Joined(Queue) THEN settled ELSE UNCHANGED queue

(* Its vectors replace those of the shop; with nothing to index the old    *)
(* ones stay.                                                              *)
Built ==
  /\ building # None
  /\ Over
  /\ index' = IF building \in Bare THEN index ELSE [version |-> building, age |-> 0]
  /\ UNCHANGED <<catalog, hooks, speculation, history>>

BuildFails ==
  /\ building # None
  /\ Over
  /\ dropped' = (dropped \/ Joined(Queue))
  /\ UNCHANGED <<catalog, hooks, index, speculation, heard, walked>>

-----------------------------------------------------------------------------
Busy == waiting # None \/ again \/ rebuild[Queue] # None

(* The process restarts, perhaps with another recipe for the indexed text, *)
(* which makes the stored index stale.                                     *)
Restart ==
  /\ waiting' = None /\ again' = FALSE
  /\ rebuild' = [r \in Rebuilder |-> None]
  /\ building' = None
  /\ refused' = Quiet /\ forced' = Cooldown
  /\ dropped' = (dropped \/ Busy)
  /\ \/ UNCHANGED index
     \/ index # None /\ index' = [index EXCEPT !.age = MaxAge + 1]
  /\ UNCHANGED <<catalog, hooks, heard, walked>>

(* Time passes; a due timer fires first.                                   *)
Tick ==
  /\ waiting # None => waiting.timer > 0
  /\ waiting' = IF waiting = None THEN None
                ELSE [timer |-> waiting.timer - 1, age |-> waiting.age + 1]
  /\ index' = IF index = None THEN None
              ELSE [index EXCEPT !.age = Least(index.age + 1, MaxAge + 1)]
  /\ refused' = Least(refused + 1, Quiet) /\ forced' = Least(forced + 1, Cooldown)
  /\ UNCHANGED <<catalog, hooks, again, rebuild, building, history>>

Next ==
  \/ Edit
  \/ \E v \in hooks : Lose(v)
  \/ \E v \in hooks : Hear(v)
  \/ fire
  \/ \E t \in Turn : warmIndex(t)
  \/ \E t \in Turn : refreshedAfterMiss(t)
  \/ noteCatalogRefusal
  \/ \E r \in Rebuilder : Walk(r)
  \/ \E r \in Rebuilder : build(r)
  \/ \E r \in Rebuilder : WalkFails(r)
  \/ Built
  \/ BuildFails
  \/ Restart
  \/ Tick

(* A walk and a build end, and succeed if tried for ever; timers fire; and *)
(* as long as the index may be warmed, in the end someone searches.        *)
Fairness ==
  /\ WF_vars(Tick) /\ WF_vars(fire)
  /\ \A r \in Rebuilder : SF_vars(Walk(r)) /\ SF_vars(build(r))
  /\ SF_vars(Built)
  /\ SF_vars(\E t \in Turn : warmIndex(t))

Spec == Init /\ [][Next]_vars
FairSpec == Spec /\ Fairness

-----------------------------------------------------------------------------
TypeOK ==
  /\ catalog \in Version /\ hooks \subseteq 1..catalog
  /\ waiting \in [timer : 0..Debounce, age : 0..Most(Debounce, MaxWait)] \cup {None}
  /\ again \in BOOLEAN
  /\ rebuild \in [Rebuilder -> Rebuild \cup {None}]
  /\ building \in Version \cup {None}
  /\ index \in [version : Version, age : 0..(MaxAge + 1)] \cup {None}
  /\ refused \in 0..Quiet /\ forced \in 0..Cooldown
  /\ heard \in 0..catalog /\ walked \in 0..catalog /\ dropped \in BOOLEAN

(* A change the gateway has heard of is in what the queue fetched, or the  *)
(* queue still has to fetch, whenever it came; only a failed rebuild or a  *)
(* restart leaves it to the index's old age.                               *)
ChangesAreFetched ==
  \/ heard <= walked \/ dropped
  \/ waiting # None \/ again
  \/ rebuild[Queue] # None /\ rebuild[Queue].read = None

(* A stream of edits never puts a rebuild off beyond the ceiling.          *)
BurstsAreBounded == waiting # None => waiting.timer + waiting.age <= Most(Debounce, MaxWait)

(* Once the merchant has stopped editing and as long as shoppers search,   *)
(* the index comes to show the catalog as it is, for good: through lost    *)
(* and late webhooks, joined builds, failures, refusals and restarts.      *)
EventuallyCurrent ==
  <>[](catalog \notin Bare => index # None /\ index.version = catalog)
=============================================================================
