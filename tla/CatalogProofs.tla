---------------------------- MODULE CatalogProofs ----------------------------
(***************************************************************************)
(* Theorems about the catalog and what is said of its prices.              *)
(*                                                                         *)
(* Catalog: for any number of changes and rebuilders, any debounce,        *)
(* ceiling and TTL, its index follows the shop (QueueShape, Shape).        *)
(*                                                                         *)
(* Caches: of each cache the invariant says how old what is kept can be.   *)
(* A browse reflects no less than the last webhook and all that its age    *)
(* rules out (HeldIsCurrent), and so does one that is still waited for     *)
(* when it was dropped (WaitersAreServed); a page has missed no edition    *)
(* that its age and the time it took do not excuse (Since); a row is an    *)
(* old one or was validated (IsRow).                                       *)
(*                                                                         *)
(* Figures: for replies of any length, read in deltas of any length.  A    *)
(* figure of a text is fixed by the few characters around it (IsFigure),   *)
(* so what stands settled in a part of a reply stands so in all of it      *)
(* (SettledInside); the rest is one invariant, that all that was shown was *)
(* settled in something that did not trip (Streamed).  For the verdict the *)
(* text is followed through the repair from its end to its start: up to a  *)
(* figure that is repaired, and for the first two characters of it, what   *)
(* is written is as it was (Agrees), so a figure read there is either one  *)
(* of the reply's, moved (MovedFigure), or a price written out             *)
(* (WrittenOut); Judged carries what was accepted.                         *)
(*                                                                         *)
(* Prices, Facts: for any products, questions and pages.  A line holds     *)
(* what is priced and ends at its least and its most (LineIs), through any *)
(* number of rounds by the same objects (Quoted); what is said is of the   *)
(* product of the page, however it was found (Told).                       *)
(*                                                                         *)
(* Stream: for any reply, deltas and reads. Where the extractor stands is  *)
(* a function of how much of the document has come (Follows), whatever the *)
(* cuts; the bytes are records of one width (Carries), of which a read     *)
(* takes the first few and keeps the start of the next (Reads); what has   *)
(* been sent and not been taken in is what lies between what the reader    *)
(* has and what the model has written (Unread, StreamInv).                 *)
(***************************************************************************)
EXTENDS Catalog, Caches, Figures, Facts, Stream, FiniteSetTheorems,
  SequenceTheorems, WellFoundedInduction, TLAPS

(* While the queue rebuilds it waits for no timer, and only then may a     *)
(* change be put aside; who waits for a build has fetched something.       *)
QueueShape ==
  /\ rebuild[Queue] # None => waiting = None
  /\ again => rebuild[Queue] # None
  /\ \A r \in Rebuilder : Joined(r) => rebuild[r].read # None

Burst == [timer : 0..Debounce, age : 0..Most(Debounce, MaxWait)]

(* What makes the type invariant inductive.                                *)
Shape == TypeOK /\ BurstsAreBounded /\ QueueShape

(* No record is None.                                                      *)
LEMMA RecordsAreNotNone ==
  /\ \A x \in [timer : Int, age : Int] : x # None
  /\ \A x \in Rebuild : x # None
  /\ \A x \in [version : Version, age : 0..(MaxAge + 1)] : x # None
  /\ \A x \in Version : x # None
<1>1. Rebuild \subseteq [read : Int \cup {None}, building : BOOLEAN]
  BY DEF Rebuild, Version
<1>2. [version : Version, age : 0..(MaxAge + 1)] \subseteq [version : Int, age : Int]
  BY DEF Version
<1>3. Version \subseteq Int
  BY DEF Version
<1> QED
  BY <1>1, <1>2, <1>3, CatalogAssumption

(* A new burst, and one that goes on, wait no longer than the ceiling.     *)
LEMMA NewBurst ==
  LET b == [timer |-> Debounce, age |-> 0]
  IN  b \in Burst /\ b # None /\ b.timer + b.age <= Most(Debounce, MaxWait)
<1>1. [timer |-> Debounce, age |-> 0] \in [timer : Int, age : Int]
  BY CatalogAssumption
<1> QED
  BY <1>1, RecordsAreNotNone, CatalogAssumption DEF Burst, Most

LEMMA BurstGoesOn ==
  ASSUME Shape, waiting # None
  PROVE  extended \in Burst /\ extended # None
         /\ extended.timer + extended.age <= Most(Debounce, MaxWait)
<1>1. waiting \in Burst /\ waiting.timer + waiting.age <= Most(Debounce, MaxWait)
  BY DEF Shape, TypeOK, BurstsAreBounded, Burst
<1>2. CASE waiting.age >= MaxWait
  BY <1>1, <1>2 DEF extended
<1>3. CASE ~(waiting.age >= MaxWait)
  <2> DEFINE left == Least(Debounce, MaxWait - waiting.age)
  <2>1. extended = [timer |-> left, age |-> waiting.age]
    BY <1>3 DEF extended
  <2>2. waiting.age \in Nat /\ Most(Debounce, MaxWait) \in Int
    BY <1>1, CatalogAssumption DEF Burst, Most
  <2>3. left \in 0..Debounce /\ left + waiting.age <= Most(Debounce, MaxWait)
    BY <1>3, <2>2, CatalogAssumption DEF Least, Most
  <2> HIDE DEF left
  <2>4. extended \in Burst
    BY <1>1, <2>1, <2>3 DEF Burst
  <2>5. extended \in [timer : Int, age : Int]
    BY <2>1, <2>2, <2>3
  <2> QED
    BY <2>1, <2>3, <2>4, <2>5, RecordsAreNotNone
<1> QED
  BY <1>2, <1>3

(* A change puts itself aside while the queue rebuilds, and starts or      *)
(* prolongs a burst otherwise.                                             *)
LEMMA Touched ==
  ASSUME Shape, touch
  PROVE  /\ waiting' \in Burst \cup {None} /\ again' \in BOOLEAN
         /\ waiting' # None => waiting'.timer + waiting'.age <= Most(Debounce, MaxWait)
         /\ rebuild[Queue] # None => waiting' = None /\ again'
         /\ rebuild[Queue] = None => waiting' # None /\ ~again'
<1>1. CASE rebuild[Queue] # None
  BY <1>1, CatalogAssumption DEF touch, Shape, QueueShape
<1>2. CASE rebuild[Queue] = None
  <2>1. /\ waiting' = IF waiting = None THEN [timer |-> Debounce, age |-> 0] ELSE extended
        /\ again' = again
    BY <1>2 DEF touch
  <2>2. ~again /\ again \in BOOLEAN
    BY <1>2 DEF Shape, QueueShape, TypeOK
  <2> QED
    BY <1>2, <2>1, <2>2, NewBurst, BurstGoesOn
<1> QED
  BY <1>1, <1>2

(* When the queue's rebuild is over, the change put aside starts a burst.  *)
LEMMA Settled ==
  ASSUME Shape, settled, rebuild[Queue] # None
  PROVE  /\ waiting' \in Burst \cup {None} /\ again' = FALSE
         /\ waiting' # None => waiting'.timer + waiting'.age <= Most(Debounce, MaxWait)
         /\ again => waiting' # None
<1>1. waiting = None
  BY DEF Shape, QueueShape
<1> QED
  BY <1>1, NewBurst DEF settled

(* What begins, or goes on, is a rebuild.                                  *)
LEMMA BeginEffect ==
  ASSUME TypeOK, NEW r \in Rebuilder, Begin(r)
  PROVE  /\ rebuild' \in [Rebuilder -> Rebuild \cup {None}]
         /\ rebuild'[r] = [read |-> None, building |-> FALSE]
         /\ rebuild'[r] # None
         /\ \A q \in Rebuilder \ {r} : rebuild'[q] = rebuild[q]
<1>1. [read |-> None, building |-> FALSE] \in Rebuild
  BY DEF Rebuild
<1> QED
  BY <1>1, RecordsAreNotNone DEF TypeOK, Begin

LEMMA JoinedRead ==
  ASSUME Shape, NEW r \in Rebuilder, rebuild[r] # None
  PROVE  rebuild[r] \in Rebuild
BY DEF Shape, TypeOK

(* The end of a build, good or bad.                                        *)
LEMMA OverEffect ==
  ASSUME Shape, Over
  PROVE  /\ building' = None
         /\ rebuild' \in [Rebuilder -> Rebuild \cup {None}]
         /\ \A r \in Rebuilder : rebuild'[r] = IF Joined(r) THEN None ELSE rebuild[r]
         /\ waiting' \in Burst \cup {None} /\ again' \in BOOLEAN
         /\ waiting' # None => waiting'.timer + waiting'.age <= Most(Debounce, MaxWait)
         /\ rebuild'[Queue] # None => waiting' = None
         /\ again' => rebuild'[Queue] # None
         /\ again => waiting' # None \/ again'
         /\ waiting # None => waiting' # None
<1>1. /\ building' = None
      /\ rebuild' = [r \in Rebuilder |-> IF Joined(r) THEN None ELSE rebuild[r]]
      /\ Queue \in Rebuilder
  BY DEF Over, Rebuilder
<1>2. rebuild' \in [Rebuilder -> Rebuild \cup {None}]
  BY <1>1 DEF Shape, TypeOK
<1>3. CASE Joined(Queue)
  <2>1. settled /\ rebuild[Queue] # None
    BY <1>3 DEF Over, Joined
  <2>2. rebuild'[Queue] = None
    BY <1>1, <1>3
  <2>3. waiting = None
    BY <2>1 DEF Shape, QueueShape
  <2> QED
    BY <1>1, <1>2, <2>1, <2>2, <2>3, Settled
<1>4. CASE ~Joined(Queue)
  <2>1. waiting' = waiting /\ again' = again /\ rebuild'[Queue] = rebuild[Queue]
    BY <1>1, <1>4 DEF Over, queue
  <2> QED
    BY <1>1, <1>2, <2>1 DEF Shape, TypeOK, BurstsAreBounded, QueueShape, Burst
<1> QED
  BY <1>3, <1>4

-----------------------------------------------------------------------------
(* The queue and the builds keep their shape at every step.                *)
LEMMA ShapeStep ==
  ASSUME Shape, [Next]_vars
  PROVE  Shape'
<1> USE CatalogAssumption
<1>0. /\ Queue \in Rebuilder /\ Turn \subseteq Rebuilder
      /\ catalog \in Nat /\ 0 \in Version
  BY DEF Rebuilder, Shape, TypeOK, Version
<1>1. CASE UNCHANGED vars
  BY <1>1 DEF Shape, TypeOK, BurstsAreBounded, QueueShape, Joined, vars
<1>2. CASE Edit
  <2>0. catalog \in Nat /\ catalog' = catalog + 1 /\ catalog < MaxEdits /\ hooks' = hooks \cup {catalog'}
    BY <1>2, <1>0 DEF Edit
  <2>1. catalog' \in Version /\ hooks' \subseteq 1..catalog'
    <3>1. hooks \subseteq 1..catalog
      BY DEF Shape, TypeOK
    <3> QED BY <2>0, <3>1 DEF Version
  <2>2. heard' \in 0..catalog' /\ walked' \in 0..catalog'
    BY <1>2, <1>0 DEF Edit, Shape, TypeOK, history
  <2> QED
    BY <1>2, <2>1, <2>2 DEF Edit, Shape, TypeOK, BurstsAreBounded, QueueShape, Joined,
                           queue, speculation, history
<1>3. CASE \E v \in hooks : Lose(v)
  BY <1>3 DEF Lose, Shape, TypeOK, BurstsAreBounded, QueueShape, Joined,
              queue, speculation, history
<1>4. ASSUME NEW v \in hooks, Hear(v) PROVE Shape'
  <2>1. touch
    BY <1>4 DEF Hear
  <2>2. heard' \in 0..catalog'
    BY <1>4 DEF Hear, Shape, TypeOK, Most
  <2>3. TypeOK'
    BY <1>4, <2>1, <2>2, Touched DEF Hear, Shape, TypeOK, Burst, speculation
  <2>4. QueueShape'
    BY <1>4, <2>1, Touched DEF Hear, Shape, QueueShape, Joined
  <2>5. BurstsAreBounded'
    BY <2>1, Touched DEF BurstsAreBounded
  <2> QED
    BY <2>3, <2>4, <2>5 DEF Shape
<1>5. CASE fire
  <2>1. Begin(Queue) /\ waiting' = None /\ again' = again
    BY <1>5 DEF fire
  <2>2. TypeOK'
    BY <1>0, <1>5, <2>1, BeginEffect DEF fire, Shape, TypeOK, speculation, history
  <2>3. QueueShape'
    BY <1>0, <2>1, BeginEffect DEF Shape, QueueShape, Joined
  <2> QED
    BY <2>1, <2>2, <2>3 DEF Shape, BurstsAreBounded
<1>6. ASSUME NEW t \in Turn, warmIndex(t) \/ refreshedAfterMiss(t) PROVE Shape'
  <2>1. Begin(t) /\ t \in Rebuilder /\ t # Queue /\ UNCHANGED queue
    BY <1>0, <1>6 DEF warmIndex, refreshedAfterMiss
  <2>2. TypeOK'
    <3>1. rebuild' \in [Rebuilder -> Rebuild \cup {None}]
      BY <2>1, BeginEffect DEF Shape
    <3>2. forced' \in 0..Cooldown
      BY <1>6 DEF warmIndex, refreshedAfterMiss, Shape, TypeOK, speculation
    <3>3. UNCHANGED <<catalog, hooks, queue, building, index, refused, history>>
      BY <1>6 DEF warmIndex, refreshedAfterMiss, speculation
    <3> QED
      BY <3>1, <3>2, <3>3 DEF Shape, TypeOK, queue, history
  <2>3. QueueShape'
    BY <1>0, <2>1, BeginEffect DEF Shape, QueueShape, Joined, queue
  <2> QED
    BY <2>1, <2>2, <2>3 DEF Shape, BurstsAreBounded, queue
<1>7. CASE noteCatalogRefusal
  BY <1>7 DEF noteCatalogRefusal, Shape, TypeOK, BurstsAreBounded, QueueShape, Joined,
              queue, history
<1>8. ASSUME NEW r \in Rebuilder, Walk(r) PROVE Shape'
  <2>1. rebuild' = [rebuild EXCEPT ![r].read = catalog] /\ rebuild[r] \in Rebuild
    BY <1>8, JoinedRead DEF Walk
  <2>2. [rebuild[r] EXCEPT !.read = catalog] \in Rebuild
    BY <2>1 DEF Shape, TypeOK, Rebuild
  <2>3. TypeOK'
    <3>1. rebuild' \in [Rebuilder -> Rebuild \cup {None}]
      BY <2>1, <2>2 DEF Shape, TypeOK
    <3>2. walked' \in 0..catalog
      BY <1>0, <1>8 DEF Walk, Shape, TypeOK
    <3>3. dropped' \in BOOLEAN
      BY <1>8, Zenon DEF Walk, Shape, TypeOK
    <3> QED
      <4>1. UNCHANGED <<catalog, hooks, waiting, again, building, index, refused, forced, heard>>
        BY <1>8 DEF Walk, queue, speculation
      <4> QED
        BY <3>1, <3>2, <3>3, <4>1 DEF Shape, TypeOK
  <2>4. QueueShape'
    <3>1. catalog # None
      BY RecordsAreNotNone DEF Shape, TypeOK
    <3> QED
      BY <1>0, <1>8, <2>1, <2>2, <3>1, RecordsAreNotNone
      DEF Walk, Shape, TypeOK, QueueShape, Joined, queue, Rebuild
  <2> QED
    BY <1>8, <2>3, <2>4 DEF Walk, Shape, BurstsAreBounded, queue
<1>9. ASSUME NEW r \in Rebuilder, build(r) PROVE Shape'
  <2>1. rebuild' = [rebuild EXCEPT ![r].building = TRUE] /\ rebuild[r] \in Rebuild
    BY <1>9, JoinedRead DEF build
  <2>2. [rebuild[r] EXCEPT !.building = TRUE] \in Rebuild
    BY <2>1 DEF Rebuild
  <2>3. building' \in Version \cup {None}
    BY <1>9, <2>1 DEF build, Shape, TypeOK, Rebuild
  <2>4. TypeOK'
    BY <1>9, <2>1, <2>2, <2>3 DEF build, Shape, TypeOK, queue, speculation, history
  <2>5. QueueShape'
    BY <1>0, <1>9, <2>1, <2>2, RecordsAreNotNone
    DEF build, Shape, TypeOK, QueueShape, Joined, queue, Rebuild
  <2> QED
    BY <1>9, <2>4, <2>5 DEF build, Shape, BurstsAreBounded, queue
<1>10. ASSUME NEW r \in Rebuilder, WalkFails(r) PROVE Shape'
  <2>1. /\ rebuild' = [rebuild EXCEPT ![r] = None] /\ rebuild[r] # None
        /\ rebuild' \in [Rebuilder -> Rebuild \cup {None}]
    BY <1>10 DEF WalkFails, Shape, TypeOK
  <2>2. CASE r = Queue
    <3>1. settled /\ rebuild[Queue] # None /\ rebuild'[Queue] = None
      BY <1>0, <1>10, <2>1, <2>2 DEF WalkFails, Shape, TypeOK
    <3>2. TypeOK'
      BY <1>10, <2>1, <2>2, <3>1, Settled DEF WalkFails, Shape, TypeOK, Burst, speculation
    <3>3. QueueShape'
      BY <2>1, <3>1, Settled DEF Shape, TypeOK, QueueShape, Joined
    <3> QED
      BY <3>1, <3>2, <3>3, Settled DEF Shape, BurstsAreBounded
  <2>3. CASE r # Queue
    <3>1. UNCHANGED <<queue, dropped>>
      BY <1>10, <2>3 DEF WalkFails
    <3> QED
      BY <1>0, <1>10, <2>1, <2>3, <3>1
      DEF WalkFails, Shape, TypeOK, BurstsAreBounded, QueueShape, Joined, queue, speculation
  <2> QED
    BY <2>2, <2>3
<1>11. CASE Built
  <2>1. Over /\ building \in Version
    BY <1>11 DEF Built, Shape, TypeOK
  <2>2. index' \in [version : Version, age : 0..(MaxAge + 1)] \cup {None}
    BY <1>11, <2>1 DEF Built, Shape, TypeOK
  <2>3. TypeOK'
    BY <1>11, <2>1, <2>2, OverEffect DEF Built, Shape, TypeOK, Burst, speculation, history
  <2>4. QueueShape'
    BY <2>1, OverEffect DEF Shape, QueueShape, Joined
  <2> QED
    BY <2>1, <2>3, <2>4, OverEffect DEF Shape, BurstsAreBounded
<1>12. CASE BuildFails
  <2>1. Over
    BY <1>12 DEF BuildFails
  <2>2. dropped' \in BOOLEAN
    BY <1>12 DEF BuildFails, Joined
  <2>3. TypeOK'
    BY <1>12, <2>1, <2>2, OverEffect DEF BuildFails, Shape, TypeOK, Burst, speculation
  <2>4. QueueShape'
    BY <2>1, OverEffect DEF Shape, QueueShape, Joined
  <2> QED
    BY <2>1, <2>3, <2>4, OverEffect DEF Shape, BurstsAreBounded
<1>13. CASE Restart
  <2>1. dropped' \in BOOLEAN
    BY <1>13 DEF Restart, Busy
  <2>2. index' \in [version : Version, age : 0..(MaxAge + 1)] \cup {None}
    BY <1>13 DEF Restart, Shape, TypeOK
  <2>3. refused' \in 0..Quiet /\ forced' \in 0..Cooldown
    BY <1>13 DEF Restart
  <2>4. rebuild' \in [Rebuilder -> Rebuild \cup {None}] /\ \A r \in Rebuilder : rebuild'[r] = None
    BY <1>13 DEF Restart
  <2> QED
    BY <1>0, <1>13, <2>1, <2>2, <2>3, <2>4
    DEF Restart, Shape, TypeOK, BurstsAreBounded, QueueShape, Joined
<1>14. CASE Tick
  <2>1. /\ waiting' \in Burst \cup {None} /\ (waiting' # None <=> waiting # None)
        /\ waiting' # None => waiting'.timer + waiting'.age <= Most(Debounce, MaxWait)
    <3>1. CASE waiting = None
      BY <1>14, <3>1 DEF Tick
    <3>2. CASE waiting # None
      <4>1. waiting \in Burst /\ waiting.timer > 0
            /\ waiting.timer + waiting.age <= Most(Debounce, MaxWait)
        BY <1>14, <3>2 DEF Tick, Shape, TypeOK, BurstsAreBounded, Burst
      <4>2. waiting' = [timer |-> waiting.timer - 1, age |-> waiting.age + 1]
        BY <1>14, <3>2 DEF Tick
      <4>3. waiting.timer \in 0..Debounce /\ waiting.age \in Nat /\ Most(Debounce, MaxWait) \in Int
        BY <4>1 DEF Burst, Most
      <4>4. /\ waiting.timer - 1 \in 0..Debounce
            /\ waiting.age + 1 \in 0..Most(Debounce, MaxWait)
            /\ waiting.timer - 1 + (waiting.age + 1) <= Most(Debounce, MaxWait)
        BY <4>1, <4>3
      <4>5. waiting' \in [timer : Int, age : Int]
        BY <4>2, <4>3
      <4> QED
        BY <3>2, <4>2, <4>4, <4>5, RecordsAreNotNone DEF Burst
    <3> QED
      BY <3>1, <3>2
  <2>2. index' \in [version : Version, age : 0..(MaxAge + 1)] \cup {None}
    <3>1. CASE index = None
      BY <1>14, <3>1 DEF Tick
    <3>2. CASE index # None
      <4>1. index' = [index EXCEPT !.age = Least(index.age + 1, MaxAge + 1)]
        BY <1>14, <3>2 DEF Tick
      <4>2. index \in [version : Version, age : 0..(MaxAge + 1)]
        BY <3>2 DEF Shape, TypeOK
      <4>3. Least(index.age + 1, MaxAge + 1) \in 0..(MaxAge + 1)
        BY <4>2 DEF Least
      <4> QED
        BY <4>1, <4>2, <4>3
    <3> QED
      BY <3>1, <3>2
  <2>3. refused' \in 0..Quiet /\ forced' \in 0..Cooldown
    BY <1>14 DEF Tick, Shape, TypeOK, Least
  <2>4. UNCHANGED <<catalog, hooks, again, rebuild, building, history>>
    BY <1>14 DEF Tick
  <2>5. TypeOK'
    BY <2>1, <2>2, <2>3, <2>4 DEF Shape, TypeOK, Burst, history
  <2> QED
    BY <2>1, <2>4, <2>5 DEF Shape, BurstsAreBounded, QueueShape, Joined
<1> QED
  BY <1>1, <1>2, <1>3, <1>4, <1>5, <1>6, <1>7, <1>8, <1>9, <1>10, <1>11, <1>12, <1>13, <1>14
  DEF Next

LEMMA ShapeInv == Spec => []Shape
<1>1. Init => Shape
  <2> SUFFICES ASSUME Init PROVE Shape
    OBVIOUS
  <2>1. /\ rebuild \in [Rebuilder -> Rebuild \cup {None}] /\ Queue \in Rebuilder
        /\ \A r \in Rebuilder : rebuild[r] = None
    BY DEF Init, Rebuilder
  <2>2. TypeOK
    <3>1. /\ catalog \in Version /\ hooks \subseteq 1..catalog
          /\ refused \in 0..Quiet /\ forced \in 0..Cooldown
          /\ heard \in 0..catalog /\ walked \in 0..catalog
      BY CatalogAssumption DEF Init, Version
    <3>2. again \in BOOLEAN /\ dropped \in BOOLEAN
      BY Zenon DEF Init
    <3> QED
      BY <2>1, <3>1, <3>2 DEF Init, TypeOK
  <2> QED
    BY <2>1, <2>2 DEF Init, Shape, BurstsAreBounded, QueueShape, Joined
<1> QED
  BY <1>1, ShapeStep, PTL DEF Spec

(* Versions, ages and timers keep their ranges, in every reachable state.  *)
THEOREM TypeCorrect == Spec => []TypeOK
<1>1. Shape => TypeOK
  BY DEF Shape
<1> QED
  BY <1>1, ShapeInv, PTL

(* However the merchant's edits fall, a rebuild is never put off beyond    *)
(* the longer of the debounce and the ceiling.                             *)
THEOREM RebuildsAreNotPutOff == Spec => []BurstsAreBounded
<1>1. Shape => BurstsAreBounded
  BY DEF Shape
<1> QED
  BY <1>1, ShapeInv, PTL

-----------------------------------------------------------------------------
(* A change heard of is fetched, waited for, put aside, or lost to a       *)
(* failure or a restart the queue knows of: at every step.                 *)
LEMMA FetchedStep ==
  ASSUME Shape, ChangesAreFetched, [Next]_vars
  PROVE  ChangesAreFetched'
<1> DEFINE Owed == rebuild[Queue] # None /\ rebuild[Queue].read = None
<1>0. Queue \in Rebuilder /\ Queue \notin Turn
  BY CatalogAssumption DEF Rebuilder
<1>1. CASE UNCHANGED <<waiting, again, rebuild, heard, walked, dropped>>
  BY <1>1 DEF ChangesAreFetched
<1>2. ASSUME NEW v \in hooks, Hear(v) PROVE ChangesAreFetched'
  BY <1>2, Touched DEF Hear, ChangesAreFetched
<1>3. CASE fire
  BY <1>0, <1>3, BeginEffect DEF fire, Shape, ChangesAreFetched
<1>4. ASSUME NEW t \in Turn, warmIndex(t) \/ refreshedAfterMiss(t) PROVE ChangesAreFetched'
  <2>1. Begin(t) /\ t \in Rebuilder /\ t # Queue /\ UNCHANGED <<queue, history>>
    BY <1>0, <1>4 DEF warmIndex, refreshedAfterMiss, Rebuilder
  <2> QED
    BY <1>0, <2>1, BeginEffect DEF Shape, ChangesAreFetched, queue, history
<1>5. ASSUME NEW r \in Rebuilder, Walk(r) PROVE ChangesAreFetched'
  <2>1. CASE r = Queue
    BY <1>5, <2>1 DEF Walk, Shape, TypeOK, ChangesAreFetched
  <2>2. CASE r # Queue
    <3>1. rebuild'[Queue] = rebuild[Queue] /\ UNCHANGED <<queue, heard, walked, dropped>>
      BY <1>0, <1>5, <2>2 DEF Walk, Shape, TypeOK
    <3> QED
      BY <3>1 DEF ChangesAreFetched, queue
  <2> QED
    BY <2>1, <2>2
<1>6. ASSUME NEW r \in Rebuilder, build(r) PROVE ChangesAreFetched'
  <2>1. ~Owed \/ rebuild'[Queue] = rebuild[Queue]
    BY <1>0, <1>6 DEF build, Shape, TypeOK
  <2> QED
    BY <1>6, <2>1 DEF build, ChangesAreFetched, queue, history
<1>7. ASSUME NEW r \in Rebuilder, WalkFails(r) PROVE ChangesAreFetched'
  <2>1. CASE r = Queue
    BY <1>7, <2>1 DEF WalkFails, ChangesAreFetched
  <2>2. CASE r # Queue
    <3>1. rebuild'[Queue] = rebuild[Queue] /\ UNCHANGED <<queue, heard, walked, dropped>>
      BY <1>0, <1>7, <2>2 DEF WalkFails, Shape, TypeOK
    <3> QED
      BY <3>1 DEF ChangesAreFetched, queue
  <2> QED
    BY <2>1, <2>2
<1>8. CASE Built \/ BuildFails
  <2>1. Over /\ heard' = heard /\ walked' = walked /\ (dropped => dropped')
    <3>1. CASE Built
      BY <3>1 DEF Built, history
    <3>2. CASE BuildFails
      BY <3>2, Zenon DEF BuildFails
    <3> QED
      BY <1>8, <3>1, <3>2
  <2>2. Owed => rebuild'[Queue] = rebuild[Queue]
    BY <1>0, <2>1, OverEffect DEF Shape, QueueShape
  <2> QED
    BY <2>1, <2>2, OverEffect DEF ChangesAreFetched
<1>9. CASE Restart
  BY <1>9 DEF Restart, Busy, ChangesAreFetched
<1>10. CASE Tick
  <2>1. waiting # None => waiting' # None
    <3> SUFFICES ASSUME waiting # None PROVE waiting' # None
      OBVIOUS
    <3>1. waiting' = [timer |-> waiting.timer - 1, age |-> waiting.age + 1]
      BY <1>10 DEF Tick
    <3>2. waiting.timer \in Int /\ waiting.age \in Int
      BY DEF Shape, TypeOK
    <3>3. waiting' \in [timer : Int, age : Int]
      BY <3>1, <3>2
    <3> QED
      BY <3>3, RecordsAreNotNone
  <2> QED
    BY <1>10, <2>1 DEF Tick, ChangesAreFetched, history
<1> QED
  <2>1. CASE Edit \/ (\E v \in hooks : Lose(v)) \/ noteCatalogRefusal \/ UNCHANGED vars
    BY <1>1, <2>1 DEF Edit, Lose, noteCatalogRefusal, queue, speculation, history, vars
  <2> QED
    BY <1>2, <1>3, <1>4, <1>5, <1>6, <1>7, <1>8, <1>9, <1>10, <2>1 DEF Next

(* No change the gateway has heard of is forgotten by the refresh queue,   *)
(* whenever it comes, but for a failed rebuild or a restart.               *)
THEOREM NoChangeForgotten == Spec => []ChangesAreFetched
<1>1. Init => ChangesAreFetched
  BY DEF Init, ChangesAreFetched
<1> QED
  BY <1>1, FetchedStep, ShapeInv, PTL DEF Spec

-----------------------------------------------------------------------------
(* Snapshot                                                                *)

BrowseRecord ==
  [shop : Stocks \cup {NoBrowse}, from : Nat, age : 0..Ttl,
   state : {"new", "under way", "over", "failed"}, version : Int]
Question == [browse : Browses \cup {NoBrowse}, floor : Nat, got : Int]

(* The oldest catalog the answer of a browse may be of.                    *)
Low(b) == IF browses[b].state = "over" THEN browses[b].version ELSE browses[b].from

SnapshotTyped ==
  /\ held \in [Stocks -> Browses \cup {NoBrowse}]
  /\ browses \in [Browses -> BrowseRecord]
  /\ asking \in [Browsers -> Question]
  /\ version \in [Stocks -> Nat] /\ told \in [Stocks -> Nat]
  /\ aged \in [Stocks -> [1..Ttl -> Nat]]

(* Nothing that was told or has been is newer than what is.                *)
Past ==
  \A s \in Stocks : told[s] <= version[s] /\ \A k \in 1..Ttl : aged[s][k] <= version[s]

Serves(b) == browses[b].state \in {"under way", "over"}

(* A browse under way or over was begun for a shop, on a catalog there was.*)
Begun ==
  \A b \in Browses :
    /\ Serves(b) => browses[b].shop \in Stocks
    /\ browses[b].state = "under way" => browses[b].from <= version[browses[b].shop]
    /\ browses[b].state = "over" => browses[b].version \in Nat

(* A browse that is held is no older than the last webhook of its shop,    *)
(* and has nothing its age rules out.                                      *)
HeldIsCurrent ==
  \A s \in Stocks : held[s] # NoBrowse =>
    /\ browses[held[s]].shop = s /\ Serves(held[s])
    /\ Low(held[s]) >= told[s]
    /\ \A k \in 1..Ttl : k > browses[held[s]].age => Low(held[s]) >= aged[s][k]

(* Who waits will be given what it has a right to, whatever is dropped.    *)
WaitersAreServed ==
  \A t \in Browsers : asking[t].browse # NoBrowse /\ asking[t].got = -1 =>
    /\ browses[asking[t].browse].state # "new"
    /\ Serves(asking[t].browse) => Low(asking[t].browse) >= asking[t].floor

SnapshotInv == SnapshotTyped /\ Past /\ Begun /\ HeldIsCurrent /\ WaitersAreServed /\ SnapshotIsCurrent

LEMMA SnapshotStart == SnapshotInit => SnapshotInv
<1> SUFFICES ASSUME SnapshotInit PROVE SnapshotInv
  OBVIOUS
<1> USE SnapshotAssumption DEF SnapshotInit
<1>1. NotBegun \in BrowseRecord /\ NotAsking \in Question
  BY DEF NotBegun, NotAsking, BrowseRecord, Question
<1>2. SnapshotTyped
  BY <1>1 DEF SnapshotTyped
<1>3. Past
  BY DEF Past
<1>4. Begun
  BY DEF Begun, Serves, NotBegun
<1>5. HeldIsCurrent /\ WaitersAreServed
  BY DEF HeldIsCurrent, WaitersAreServed, NotAsking
<1>6. Held = {}
  BY DEF Held
<1>7. SnapshotIsCurrent
  BY <1>6, FS_EmptySet DEF SnapshotIsCurrent, NotAsking
<1> QED BY <1>2, <1>3, <1>4, <1>5, <1>7 DEF SnapshotInv

(* A shop less, or one for one of those that were dropped, is no more.     *)
LEMMA HeldIsFinite == ASSUME NEW T, T \subseteq Stocks PROVE IsFiniteSet(T) /\ Cardinality(T) \in Nat
  BY SnapshotAssumption, FS_Subset, FS_CardinalityType

LEMMA SweptLeavesRoom ==
  ASSUME SnapshotTyped, NEW kept \in Swept
  PROVE  kept \subseteq Stocks /\ Cardinality(kept) <= MaxHeld - 1
<1> DEFINE live == {s \in Held : Fresh(s)}
           excess == Cardinality(live) - (MaxHeld - 1)
<1>1. live \subseteq Stocks /\ IsFiniteSet(live) /\ Cardinality(live) \in Nat
  BY HeldIsFinite DEF Held
<1>2. CASE excess <= 0
  <2>1. kept = live
    BY <1>2 DEF Swept
  <2> QED BY <1>1, <1>2, <2>1, SnapshotAssumption
<1>3. CASE ~(excess <= 0)
  <2>1. PICK gone \in SUBSET live : kept = live \ gone /\ Cardinality(gone) = excess
    BY <1>3 DEF Swept
  <2> HIDE DEF live
  <2>2. live \cap gone = gone
    BY <2>1
  <2>4. Cardinality(live \ gone) = Cardinality(live) - Cardinality(live \cap gone)
    BY <1>1, FS_Difference
  <2>3. Cardinality(kept) = Cardinality(live) - Cardinality(gone)
    BY <2>1, <2>2, <2>4
  <2> QED BY <1>1, <2>1, <2>3, SnapshotAssumption
<1> QED BY <1>2, <1>3

LEMMA NewIsNew ==
  ASSUME NEW b \in Browses, b = NewBrowse
  PROVE  browses[b].state = "new"
<1> DEFINE P(c) == IF c = NoBrowse THEN \A d \in Browses : browses[d].state # "new"
                   ELSE browses[c].state = "new"
<1>1. \E c \in Browses \cup {NoBrowse} : P(c)
  <2>1. CASE \E c \in Browses : browses[c].state = "new"
    BY <2>1, SnapshotAssumption
  <2>2. CASE ~\E c \in Browses : browses[c].state = "new"
    BY <2>2
  <2> QED BY <2>1, <2>2
<1>2. NewBrowse = CHOOSE c \in Browses \cup {NoBrowse} : P(c)
  BY DEF NewBrowse
<1>3. P(NewBrowse)
  BY <1>1, <1>2
<1> QED BY <1>3, SnapshotAssumption

(* A step that drops shops only.                                           *)
LEMMA FewerAreHeld ==
  ASSUME SnapshotInv, NEW T \in SUBSET Held
  PROVE  Cardinality(T) <= MaxHeld
<1>1. Held \subseteq Stocks /\ IsFiniteSet(Held) /\ Cardinality(Held) \in Nat
  BY HeldIsFinite DEF Held
<1>2. Cardinality(T) <= Cardinality(Held) /\ Cardinality(T) \in Nat
  BY <1>1, FS_Subset, FS_CardinalityType
<1> QED BY <1>1, <1>2, SnapshotAssumption DEF SnapshotInv, SnapshotIsCurrent
LEMMA OverIsABrowse ==
  ASSUME NEW r \in BrowseRecord, NEW v \in Int
  PROVE  [r EXCEPT !.state = "over", !.from = 0, !.version = v] \in BrowseRecord
<1> DEFINE ended == [r EXCEPT !.state = "over", !.from = 0]
<1>1. ended \in BrowseRecord
  BY DEF BrowseRecord
<1>2. [ended EXCEPT !.version = v] \in BrowseRecord
  <2> HIDE DEF ended
  <2> QED BY <1>1 DEF BrowseRecord
<1>3. [r EXCEPT !.state = "over", !.from = 0, !.version = v] = [ended EXCEPT !.version = v]
  BY DEF BrowseRecord
<1> QED BY <1>2, <1>3

LEMMA SnapshotStep == SnapshotInv /\ [SnapshotNext]_snapshotVars => SnapshotInv'
<1> SUFFICES ASSUME SnapshotInv, [SnapshotNext]_snapshotVars PROVE SnapshotInv'
  OBVIOUS
<1>0. /\ SnapshotTyped /\ Past /\ Begun /\ HeldIsCurrent /\ WaitersAreServed /\ SnapshotIsCurrent
      /\ Ttl \in Nat /\ Ttl > 0 /\ MaxHeld \in Nat /\ MaxHeld > 0 /\ NoBrowse \notin Browses
  BY SnapshotAssumption DEF SnapshotInv
<1> USE <1>0
<1>a. /\ held \in [Stocks -> Browses \cup {NoBrowse}] /\ browses \in [Browses -> BrowseRecord]
      /\ asking \in [Browsers -> Question]
      /\ version \in [Stocks -> Nat] /\ told \in [Stocks -> Nat] /\ aged \in [Stocks -> [1..Ttl -> Nat]]
  BY DEF SnapshotTyped
<1>b. \A b \in Browses :
        /\ browses[b].shop \in Stocks \cup {NoBrowse} /\ browses[b].from \in Nat
        /\ browses[b].age \in 0..Ttl /\ browses[b].version \in Int
  BY <1>a DEF BrowseRecord
<1>c. \A u \in Browsers : /\ asking[u].browse \in Browses \cup {NoBrowse}
                          /\ asking[u].floor \in Nat /\ asking[u].got \in Int
  BY <1>a DEF Question
<1>d. \A s \in Stocks : version[s] \in Nat /\ told[s] \in Nat /\ \A k \in 1..Ttl : aged[s][k] \in Nat
  BY <1>a
<1>e. \A b \in Browses : Low(b) \in Int
  BY <1>b DEF Low
<1>1. ASSUME NEW t \in Browsers, NEW s \in Stocks, Reuse(t, s) PROVE SnapshotInv'
  <2>1. /\ held[s] \in Browses /\ browses[held[s]].age < Ttl
        /\ Serves(held[s]) /\ Low(held[s]) >= told[s] /\ Low(held[s]) >= aged[s][Ttl]
    <3>1. held[s] \in Browses /\ browses[held[s]].age < Ttl
      BY <1>1, <1>a DEF Reuse, Fresh
    <3>2. Ttl \in 1..Ttl
      OBVIOUS
    <3> QED BY <3>1, <3>2 DEF HeldIsCurrent
  <2>2. Due(s) \in Nat /\ Low(held[s]) >= Due(s)
    BY <2>1 DEF Due, SnapshotTyped
  <2>3. /\ asking' = [asking EXCEPT ![t] = [browse |-> held[s], floor |-> Due(s), got |-> -1]]
        /\ UNCHANGED <<held, browses, version, told, aged>>
    BY <1>1 DEF Reuse, Asks
  <2>4. [browse |-> held[s], floor |-> Due(s), got |-> -1] \in Question
    BY <2>1, <2>2 DEF Question
  <2>5. SnapshotTyped'
    BY <2>3, <2>4 DEF SnapshotTyped
  <2>6. Past' /\ Begun' /\ HeldIsCurrent'
    BY <2>3 DEF Past, Begun, HeldIsCurrent, Serves, Low
  <2>7. /\ asking'[t].browse = held[s] /\ asking'[t].floor = Due(s) /\ asking'[t].got = -1
        /\ \A u \in Browsers \ {t} : asking'[u] = asking[u]
    BY <2>3 DEF SnapshotTyped
  <2>8. WaitersAreServed'
    <3>1. ASSUME NEW u \in Browsers, asking'[u].browse # NoBrowse, asking'[u].got = -1
          PROVE  /\ browses[asking'[u].browse].state # "new"
                 /\ Serves(asking'[u].browse) => Low(asking'[u].browse) >= asking'[u].floor
      <4>1. CASE u = t
        BY <2>1, <2>2, <2>7, <4>1 DEF Serves
      <4>2. CASE u # t
        BY <2>7, <3>1, <4>2 DEF WaitersAreServed
      <4> QED BY <4>1, <4>2
    <3>2. browses' = browses
      BY <2>3
    <3>3. ASSUME NEW u \in Browsers, asking'[u].browse # NoBrowse, asking'[u].got = -1
          PROVE  /\ browses'[asking'[u].browse].state # "new"
                 /\ Serves(asking[u].browse)' => Low(asking[u].browse)' >= asking'[u].floor
      BY <3>1, <3>2, <3>3 DEF Serves, Low
    <3> QED BY <3>3 DEF WaitersAreServed
  <2>9. SnapshotIsCurrent'
    BY <2>3, <2>7 DEF SnapshotIsCurrent, Held
  <2> QED BY <2>5, <2>6, <2>8, <2>9 DEF SnapshotInv
<1>2. ASSUME NEW t \in Browsers, NEW s \in Stocks, NEW b \in Browses, StartBrowse(t, s, b)
      PROVE SnapshotInv'
  <2>1. browses[b].state = "new"
    BY <1>2, NewIsNew DEF StartBrowse
  <2>2. PICK kept \in Swept :
          held' = [r \in Stocks |-> IF r = s THEN b ELSE IF r \in kept THEN held[r] ELSE NoBrowse]
    BY <1>2 DEF StartBrowse
  <2>3. kept \subseteq Stocks /\ Cardinality(kept) <= MaxHeld - 1
    BY SweptLeavesRoom
  <2> DEFINE begun == [shop |-> s, from |-> version[s], age |-> 0, state |-> "under way", version |-> -1]
             asked == [browse |-> b, floor |-> Due(s), got |-> -1]
  <2>4. /\ browses' = [browses EXCEPT ![b] = begun]
        /\ asking' = [asking EXCEPT ![t] = asked]
        /\ UNCHANGED <<version, told, aged>>
    BY <1>2 DEF StartBrowse, Asks
  <2>5. begun \in BrowseRecord
    <3>1. version[s] \in Nat
      BY <1>a
    <3> QED BY <3>1 DEF BrowseRecord
  <2>6. Due(s) \in Nat /\ Due(s) <= version[s]
    BY DEF Due, SnapshotTyped, Past
  <2>7. asked \in Question
    BY <2>6 DEF Question
  <2>8. SnapshotTyped'
    BY <2>2, <2>4, <2>5, <2>7 DEF SnapshotTyped
  <2>9. /\ browses'[b] = begun /\ \A c \in Browses \ {b} : browses'[c] = browses[c]
        /\ asking'[t] = asked /\ \A u \in Browsers \ {t} : asking'[u] = asking[u]
    BY <2>4 DEF SnapshotTyped
  <2>16. browses'[b] = begun /\ asking'[t] = asked
    BY <2>9
  <2>17. begun.shop = s /\ begun.state = "under way" /\ begun.from = version[s]
    OBVIOUS
  <2>18. asked.browse = b /\ asked.floor = Due(s) /\ asked.got = -1
    OBVIOUS
  <2> HIDE DEF begun, asked
  <2>15. browses'[b].shop = s /\ browses'[b].state = "under way" /\ browses'[b].from = version[s]
    BY <2>16, <2>17
  <2>10. Low(b)' = version[s] /\ Serves(b)'
    BY <2>15 DEF Low, Serves
  <2>11. Past' /\ Begun'
    <3>1. Past'
      BY <2>4 DEF Past
    <3>2. ASSUME NEW c \in Browses
          PROVE  /\ Serves(c)' => browses'[c].shop \in Stocks
                 /\ browses'[c].state = "under way" => browses'[c].from <= version[browses'[c].shop]
                 /\ browses'[c].state = "over" => browses'[c].version \in Nat
      <4>1. CASE c = b
        <5>1. version[s] \in Nat
          BY <1>d
        <5>2. version[s] <= version[s]
          BY <5>1
        <5> QED BY <2>15, <4>1, <5>2
      <4>2. CASE c # b
        <5>1. browses'[c] = browses[c]
          BY <2>9, <4>2
        <5>2. /\ Serves(c) => browses[c].shop \in Stocks
              /\ browses[c].state = "under way" => browses[c].from <= version[browses[c].shop]
              /\ browses[c].state = "over" => browses[c].version \in Nat
          BY DEF Begun
        <5>3. Serves(c)' <=> Serves(c)
          BY <5>1 DEF Serves
        <5> QED BY <5>1, <5>2, <5>3
      <4> QED BY <4>1, <4>2
    <3> QED BY <2>4, <3>1, <3>2 DEF Begun
  <2>12. HeldIsCurrent'
    <3>1. ASSUME NEW r \in Stocks, held'[r] # NoBrowse, r # s
          PROVE  held'[r] = held[r] /\ held[r] \in Browses \ {b}
      BY <2>1, <2>2, <3>1 DEF HeldIsCurrent, Serves, SnapshotTyped
    <3>2. held'[s] = b
      BY <2>2
    <3>3. Low(b)' >= told'[s] /\ \A k \in 1..Ttl : Low(b)' >= aged'[s][k]
      BY <2>4, <2>10 DEF Past
    <3>4. browses'[b].shop = s
      BY <2>15
    <3>5. ASSUME NEW r \in Stocks, held'[r] # NoBrowse
          PROVE  /\ browses'[held'[r]].shop = r /\ Serves(held[r])'
                 /\ Low(held[r])' >= told'[r]
                 /\ \A k \in 1..Ttl : k > browses'[held'[r]].age => Low(held[r])' >= aged'[r][k]
      <4>1. CASE r = s
        BY <2>10, <3>2, <3>3, <3>4, <4>1 DEF Low, Serves
      <4>2. CASE r # s
        <5>1. held'[r] = held[r] /\ held[r] \in Browses \ {b}
          BY <3>1, <3>5, <4>2
        <5>2. browses'[held[r]] = browses[held[r]]
          BY <2>9, <5>1
        <5>3. Low(held[r])' = Low(held[r]) /\ (Serves(held[r])' <=> Serves(held[r]))
          BY <5>1, <5>2 DEF Low, Serves
        <5>4. /\ browses[held[r]].shop = r /\ Serves(held[r]) /\ Low(held[r]) >= told[r]
              /\ \A k \in 1..Ttl : k > browses[held[r]].age => Low(held[r]) >= aged[r][k]
          BY <3>5, <5>1 DEF HeldIsCurrent
        <5> QED BY <2>4, <5>1, <5>2, <5>3, <5>4
      <4> QED BY <4>1, <4>2
    <3> QED BY <3>5 DEF HeldIsCurrent
  <2>13. WaitersAreServed'
    <3>1. ASSUME NEW u \in Browsers, asking'[u].browse # NoBrowse, asking'[u].got = -1
          PROVE  /\ browses'[asking'[u].browse].state # "new"
                 /\ Serves(asking[u].browse)' => Low(asking[u].browse)' >= asking'[u].floor
      <4>1. CASE u = t
        <5>1. asking'[u].browse = b /\ asking'[u].floor = Due(s)
          BY <2>16, <2>18, <4>1
        <5> QED BY <1>d, <2>6, <2>10, <2>15, <5>1 DEF Low, Serves
      <4>2. CASE u # t
        <5>1. asking'[u] = asking[u] /\ asking[u].browse \in Browses \ {b}
          BY <1>c, <2>1, <2>9, <3>1, <4>2 DEF WaitersAreServed
        <5>2. browses'[asking[u].browse] = browses[asking[u].browse]
          BY <2>9, <5>1
        <5> QED BY <3>1, <5>1, <5>2 DEF WaitersAreServed, Low, Serves
      <4> QED BY <4>1, <4>2
    <3> QED BY <3>1 DEF WaitersAreServed
  <2>14. SnapshotIsCurrent'
    <3>1. Held' \subseteq kept \cup {s}
      BY <2>2 DEF Held
    <3>2. IsFiniteSet(kept) /\ Cardinality(kept) \in Nat
      BY <2>3, HeldIsFinite
    <3>3. IsFiniteSet(kept \cup {s}) /\ Cardinality(kept \cup {s}) <= Cardinality(kept) + 1
      BY <3>2, FS_AddElement
    <3>4. Cardinality(Held') <= Cardinality(kept \cup {s})
      BY <3>1, <3>3, FS_Subset
    <3>5. Cardinality(Held') \in Nat /\ Cardinality(kept \cup {s}) \in Nat
      BY <3>1, <3>3, FS_Subset, FS_CardinalityType
    <3>6. Cardinality(Held') <= MaxHeld
      BY <2>3, <3>2, <3>3, <3>4, <3>5
    <3>8. ~(asking'[t].got >= 0)
      BY <2>16, <2>18
    <3>7. \A u \in Browsers : asking'[u].got >= 0 => asking'[u].got >= asking'[u].floor
      BY <2>9, <3>8 DEF SnapshotIsCurrent
    <3> QED BY <3>6, <3>7 DEF SnapshotIsCurrent
  <2> QED BY <2>8, <2>11, <2>12, <2>13, <2>14 DEF SnapshotInv
<1>3. ASSUME NEW b \in Browses, BrowseEnds(b) PROVE SnapshotInv'
  <2>1. PICK v \in browses[b].from..version[browses[b].shop] :
          browses' = [browses EXCEPT ![b].state = "over", ![b].from = 0, ![b].version = v]
    BY <1>3 DEF BrowseEnds
  <2>2. /\ browses[b].state = "under way" /\ browses[b].shop \in Stocks
        /\ browses[b].from \in Nat /\ version[browses[b].shop] \in Nat
    BY <1>3, <1>b, <1>d DEF BrowseEnds, Begun, Serves
  <2>3. v \in Nat /\ v >= Low(b)
    <3>1. Low(b) = browses[b].from
      BY <2>2 DEF Low
    <3>2. \A i, j \in Nat : v \in i..j => v \in Nat /\ v >= i
      OBVIOUS
    <3>3. v \in Nat /\ v >= browses[b].from
      BY <2>1, <2>2, <3>2
    <3> QED BY <3>1, <3>3
  <2>4. UNCHANGED <<held, asking, version, told, aged>>
    BY <1>3 DEF BrowseEnds
  <2>5. SnapshotTyped'
    <3>1. browses[b] \in BrowseRecord
      BY <1>a
    <3>2. [browses[b] EXCEPT !.state = "over", !.from = 0, !.version = v] \in BrowseRecord
      <4>1. v \in Int
        BY <2>3
      <4> QED BY <3>1, <4>1, OverIsABrowse
    <3>3. browses' = [browses EXCEPT ![b] = [browses[b] EXCEPT !.state = "over", !.from = 0, !.version = v]]
      BY <2>1, <1>a
    <3>4. browses' \in [Browses -> BrowseRecord]
      BY <1>a, <3>2, <3>3
    <3> QED BY <2>4, <3>4 DEF SnapshotTyped
  <2>6. /\ \A c \in Browses \ {b} : browses'[c] = browses[c]
        /\ browses'[b].state = "over" /\ browses'[b].version = v
        /\ browses'[b].shop = browses[b].shop /\ browses'[b].age = browses[b].age
    <3>1. browses \in [Browses -> BrowseRecord]
      BY DEF SnapshotTyped
    <3>2. browses[b] \in BrowseRecord /\ browses'[b] = [browses[b] EXCEPT !.state = "over", !.from = 0, !.version = v]
      BY <2>1, <3>1
    <3>3. \A c \in Browses \ {b} : browses'[c] = browses[c]
      BY <2>1, <3>1
    <3> QED BY <3>2, <3>3 DEF BrowseRecord
  <2>7. /\ \A c \in Browses : Serves(c) <=> Serves(c)'
        /\ \A c \in Browses \ {b} : Low(c)' = Low(c)
        /\ Low(b)' = v
    BY <2>2, <2>6 DEF Low, Serves
  <2>8. \A c \in Browses : Low(c)' >= Low(c) /\ Low(c) \in Int /\ Low(c)' \in Int
    <3>1. ASSUME NEW c \in Browses PROVE Low(c)' >= Low(c) /\ Low(c) \in Int /\ Low(c)' \in Int
      <4>1. CASE c = b
        BY <1>e, <2>3, <2>7, <4>1
      <4>2. CASE c # b
        BY <1>e, <2>7, <4>2
      <4> QED BY <4>1, <4>2
    <3> QED BY <3>1
  <2>9. Past' /\ Begun'
    BY <2>2, <2>3, <2>4, <2>6, <2>7 DEF Past, Begun, Serves
  <2>10. HeldIsCurrent'
    <3>1. ASSUME NEW r \in Stocks, NEW c \in Browses, held[r] = c
          PROVE  /\ browses'[c].shop = r /\ Serves(c)'
                 /\ Low(c)' >= told[r]
                 /\ \A k \in 1..Ttl : k > browses'[c].age => Low(c)' >= aged[r][k]
      <4>1. /\ browses[c].shop = r /\ Serves(c)
            /\ Low(c) >= told[r] /\ \A k \in 1..Ttl : k > browses[c].age => Low(c) >= aged[r][k]
        BY <3>1 DEF HeldIsCurrent
      <4>2. browses'[c].shop = browses[c].shop /\ browses'[c].age = browses[c].age
        BY <2>6
      <4>3. told[r] \in Nat /\ \A k \in 1..Ttl : aged[r][k] \in Nat
        BY DEF SnapshotTyped
      <4> QED BY <2>7, <2>8, <4>1, <4>2, <4>3
    <3>2. \A r \in Stocks : held[r] # NoBrowse => held[r] \in Browses
      BY DEF SnapshotTyped
    <3> QED BY <2>4, <3>1, <3>2 DEF HeldIsCurrent, Serves, Low
  <2>11. WaitersAreServed'
    <3>1. ASSUME NEW u \in Browsers, NEW c \in Browses, asking[u].browse = c, asking[u].got = -1
          PROVE  /\ browses'[c].state # "new"
                 /\ Serves(c)' => Low(c)' >= asking[u].floor
      <4>1. browses[c].state # "new" /\ (Serves(c) => Low(c) >= asking[u].floor)
        BY <3>1 DEF WaitersAreServed
      <4>2. browses'[c].state # "new"
        BY <2>6, <4>1
      <4>3. asking[u].floor \in Nat
        BY DEF SnapshotTyped, Question
      <4>4. Serves(c) <=> Serves(c)'
        BY <2>7
      <4> QED BY <2>8, <4>1, <4>2, <4>3, <4>4
    <3>2. \A u \in Browsers : asking[u].browse # NoBrowse => asking[u].browse \in Browses
      BY DEF SnapshotTyped, Question
    <3> QED BY <2>4, <3>1, <3>2 DEF WaitersAreServed, Serves, Low
  <2>12. SnapshotIsCurrent'
    BY <2>4 DEF SnapshotIsCurrent, Held
  <2> QED BY <2>5, <2>9, <2>10, <2>11, <2>12 DEF SnapshotInv
<1>4. ASSUME NEW b \in Browses, BrowseFails(b) PROVE SnapshotInv'
  <2> DEFINE shop == browses[b].shop
  <2>1. /\ browses[b].state = "under way"
        /\ browses' = [browses EXCEPT ![b].state = "failed", ![b].from = 0]
        /\ held' = [held EXCEPT ![shop] = NoBrowse]
        /\ UNCHANGED <<asking, version, told, aged>>
    BY <1>4 DEF BrowseFails
  <2>2. SnapshotTyped'
    <3>1. browses[b] \in BrowseRecord
      BY DEF SnapshotTyped
    <3>2. [browses[b] EXCEPT !.state = "failed", !.from = 0] \in BrowseRecord
      BY <3>1 DEF BrowseRecord
    <3>3. browses' \in [Browses -> BrowseRecord]
      BY <2>1, <3>2 DEF SnapshotTyped
    <3>4. held' \in [Stocks -> Browses \cup {NoBrowse}]
      BY <2>1 DEF SnapshotTyped
    <3> QED BY <2>1, <3>3, <3>4 DEF SnapshotTyped
  <2>3. /\ browses'[b].state = "failed"
        /\ \A c \in Browses \ {b} : browses'[c] = browses[c]
    BY <2>1 DEF SnapshotTyped, BrowseRecord
  <2>4. ~Serves(b)' /\ \A c \in Browses \ {b} : Low(c)' = Low(c) /\ (Serves(c)' <=> Serves(c))
    BY <2>3 DEF Low, Serves
  <2>5. Past' /\ Begun'
    BY <2>1, <2>3 DEF Past, Begun, Serves
  <2>6. \A r \in Stocks : held'[r] # NoBrowse => held'[r] = held[r] /\ held[r] \in Browses \ {b}
    BY <2>1 DEF HeldIsCurrent, SnapshotTyped
  <2>7. HeldIsCurrent'
    <3>1. ASSUME NEW r \in Stocks, NEW c \in Browses \ {b}, held[r] = c
          PROVE  /\ browses'[c].shop = r /\ Serves(c)'
                 /\ Low(c)' >= told[r]
                 /\ \A k \in 1..Ttl : k > browses'[c].age => Low(c)' >= aged[r][k]
      BY <2>3, <2>4, <3>1 DEF HeldIsCurrent
    <3> QED BY <2>1, <2>6, <3>1 DEF HeldIsCurrent, Serves, Low
  <2>8. WaitersAreServed'
    BY <2>1, <2>3, <2>4 DEF WaitersAreServed, Serves, Low, SnapshotTyped, Question
  <2>9. Held' \in SUBSET Held
    BY <2>6 DEF Held
  <2>10. SnapshotIsCurrent'
    BY <2>1, <2>9, FewerAreHeld DEF SnapshotIsCurrent
  <2> QED BY <2>2, <2>5, <2>7, <2>8, <2>10 DEF SnapshotInv
<1>5. ASSUME NEW t \in Browsers, Resume(t) PROVE SnapshotInv'
  <2> DEFINE b == asking[t].browse
  <2>1. b \in Browses /\ asking[t].got = -1
    BY <1>5 DEF Resume, Idle, SnapshotTyped, Question
  <2>2. UNCHANGED <<held, browses, version, told, aged>>
    BY <1>5 DEF Resume
  <2>3. PICK answer \in Question :
          /\ asking' = [asking EXCEPT ![t] = answer]
          /\ answer.browse = NoBrowse \/ answer.got >= 0
          /\ answer.got >= answer.floor
    <3>1. CASE browses[b].state = "over"
      <4>1. asking' = [asking EXCEPT ![t].got = browses[b].version]
        BY <1>5, <3>1 DEF Resume
      <4>2. browses[b].version \in Nat /\ browses[b].version >= asking[t].floor
        BY <1>5, <2>1, <3>1 DEF Begun, WaitersAreServed, Low, Serves, Resume, Idle
      <4>3. [asking[t] EXCEPT !.got = browses[b].version] \in Question
        <5>1. asking[t] \in Question
          BY <1>a
        <5> QED BY <4>2, <5>1 DEF Question
      <4>4. /\ asking' = [asking EXCEPT ![t] = [asking[t] EXCEPT !.got = browses[b].version]]
            /\ [asking[t] EXCEPT !.got = browses[b].version].got = browses[b].version
            /\ [asking[t] EXCEPT !.got = browses[b].version].floor = asking[t].floor
        BY <4>1 DEF SnapshotTyped, Question
      <4> HIDE DEF b
      <4>5. [asking[t] EXCEPT !.got = browses[b].version].got >= 0
        BY <4>2, <4>4
      <4>6. [asking[t] EXCEPT !.got = browses[b].version].got
              >= [asking[t] EXCEPT !.got = browses[b].version].floor
        BY <4>2, <4>4
      <4> QED BY <4>3, <4>4, <4>5, <4>6
    <3>2. CASE browses[b].state = "failed"
      <4>1. asking' = [asking EXCEPT ![t] = NotAsking]
        BY <1>5, <3>2 DEF Resume
      <4>2. NotAsking \in Question
        BY DEF NotAsking, Question
      <4>3. NotAsking.browse = NoBrowse /\ NotAsking.got >= NotAsking.floor
        BY DEF NotAsking
      <4> QED BY <4>1, <4>2, <4>3
    <3> QED BY <1>5, <3>1, <3>2 DEF Resume
  <2>4. asking'[t] = answer /\ \A u \in Browsers \ {t} : asking'[u] = asking[u]
    BY <2>3 DEF SnapshotTyped
  <2>5. SnapshotTyped' /\ Past' /\ Begun' /\ HeldIsCurrent'
    BY <2>2, <2>3 DEF SnapshotTyped, Past, Begun, HeldIsCurrent, Serves, Low
  <2>6. WaitersAreServed'
    <3>1. ASSUME NEW u \in Browsers, asking'[u].browse # NoBrowse, asking'[u].got = -1
          PROVE  asking'[u] = asking[u]
      BY <2>3, <2>4, <3>1
    <3> QED BY <2>2, <3>1 DEF WaitersAreServed, Serves, Low
  <2>7. SnapshotIsCurrent'
    BY <2>2, <2>3, <2>4 DEF SnapshotIsCurrent, Held
  <2> QED BY <2>5, <2>6, <2>7 DEF SnapshotInv
<1>6. ASSUME NEW t \in Browsers, NextTurn(t) PROVE SnapshotInv'
  <2>1. /\ asking' = [asking EXCEPT ![t] = NotAsking]
        /\ UNCHANGED <<held, browses, version, told, aged>>
    BY <1>6 DEF NextTurn
  <2>2. asking'[t] = NotAsking /\ \A u \in Browsers \ {t} : asking'[u] = asking[u]
    BY <2>1 DEF SnapshotTyped
  <2>6. NotAsking \in Question /\ NotAsking.browse = NoBrowse
    BY DEF NotAsking, Question
  <2>3. SnapshotTyped' /\ Past' /\ Begun' /\ HeldIsCurrent'
    BY <2>1, <2>6 DEF SnapshotTyped, Past, Begun, HeldIsCurrent, Serves, Low
  <2>4. WaitersAreServed'
    <3>1. ASSUME NEW u \in Browsers, asking'[u].browse # NoBrowse
          PROVE  asking'[u] = asking[u]
      BY <2>2, <2>6, <3>1
    <3> QED BY <2>1, <3>1 DEF WaitersAreServed, Serves, Low
  <2>5. SnapshotIsCurrent'
    BY <2>1, <2>2 DEF SnapshotIsCurrent, Held, NotAsking
  <2> QED BY <2>3, <2>4, <2>5 DEF SnapshotInv
<1>7. ASSUME NEW s \in Stocks, Webhook(s) PROVE SnapshotInv'
  <2>1. /\ held' = [held EXCEPT ![s] = NoBrowse]
        /\ told' = [told EXCEPT ![s] = version[s]]
        /\ UNCHANGED <<browses, asking, version, aged>>
    BY <1>7 DEF Webhook, invalidate
  <2>7. SnapshotTyped'
    BY <2>1 DEF SnapshotTyped
  <2>8. Past'
    BY <1>a, <1>d, <2>1 DEF Past
  <2>9. Begun'
    BY <2>1 DEF Begun, Serves
  <2>2. SnapshotTyped' /\ Past' /\ Begun'
    BY <2>7, <2>8, <2>9
  <2>3. HeldIsCurrent'
    BY <2>1 DEF HeldIsCurrent, SnapshotTyped, Serves, Low
  <2>4. WaitersAreServed'
    BY <2>1 DEF WaitersAreServed, Serves, Low
  <2>5. Held' \in SUBSET Held
    BY <2>1 DEF Held, SnapshotTyped
  <2>6. SnapshotIsCurrent'
    BY <2>1, <2>5, FewerAreHeld DEF SnapshotIsCurrent
  <2> QED BY <2>2, <2>3, <2>4, <2>6 DEF SnapshotInv
<1>8. ASSUME NEW s \in Stocks, MerchantEdits(s) PROVE SnapshotInv'
  <2>1. /\ version' = [version EXCEPT ![s] = version[s] + 1]
        /\ UNCHANGED <<held, browses, asking, told, aged>>
    BY <1>8 DEF MerchantEdits
  <2>2. version' \in [Stocks -> Nat] /\ \A r \in Stocks : version'[r] >= version[r]
    BY <2>1 DEF SnapshotTyped
  <2>3. SnapshotTyped' /\ HeldIsCurrent' /\ WaitersAreServed' /\ SnapshotIsCurrent'
    BY <2>1, <2>2 DEF SnapshotTyped, HeldIsCurrent, WaitersAreServed, SnapshotIsCurrent, Held, Serves, Low
  <2>4. Past'
    BY <2>1, <2>2 DEF SnapshotTyped, Past
  <2>5. Begun'
    <3>1. ASSUME NEW c \in Browses, browses[c].state = "under way"
          PROVE  browses[c].from <= version'[browses[c].shop]
      <4>1. browses[c].shop \in Stocks /\ browses[c].from <= version[browses[c].shop]
        BY <3>1 DEF Begun, Serves
      <4>2. version[browses[c].shop] \in Nat /\ version'[browses[c].shop] \in Nat
        BY <1>d, <2>2, <4>1
      <4> QED BY <1>b, <2>2, <4>1, <4>2
    <3> QED BY <2>1, <3>1 DEF Begun, Serves
  <2> QED BY <2>3, <2>4, <2>5 DEF SnapshotInv
<1>9. CASE SnapshotTick
  <2>1. /\ browses' = [b \in Browses |-> [browses[b] EXCEPT !.age =
             IF browses[b].state = "new" \/ browses[b].age = Ttl THEN browses[b].age
             ELSE browses[b].age + 1]]
        /\ aged' = [s \in Stocks |-> [k \in 1..Ttl |-> IF k = 1 THEN version[s] ELSE aged[s][k - 1]]]
        /\ UNCHANGED <<held, asking, version, told>>
    BY <1>9 DEF SnapshotTick
  <2>2. ASSUME NEW b \in Browses
        PROVE  /\ browses'[b] \in BrowseRecord /\ browses'[b].state = browses[b].state
               /\ browses'[b].shop = browses[b].shop /\ browses'[b].from = browses[b].from
               /\ browses'[b].version = browses[b].version
               /\ browses'[b].age = IF browses[b].state = "new" \/ browses[b].age = Ttl
                                    THEN browses[b].age ELSE browses[b].age + 1
    <3> DEFINE older == IF browses[b].state = "new" \/ browses[b].age = Ttl THEN browses[b].age
                        ELSE browses[b].age + 1
    <3>1. older \in 0..Ttl
      BY <1>b
    <3>2. browses[b] \in BrowseRecord
      BY <1>a
    <3>3. browses'[b] = [browses[b] EXCEPT !.age = older]
      BY <2>1
    <3> HIDE DEF older
    <3>4. /\ browses'[b] \in BrowseRecord /\ browses'[b].state = browses[b].state
          /\ browses'[b].shop = browses[b].shop /\ browses'[b].from = browses[b].from
          /\ browses'[b].version = browses[b].version /\ browses'[b].age = older
      BY <3>1, <3>2, <3>3 DEF BrowseRecord
    <3> QED BY <3>4 DEF older
  <2>3. \A s \in Stocks : aged'[s] \in [1..Ttl -> Nat] /\ \A k \in 1..Ttl :
          aged'[s][k] <= version[s] /\ (k # 1 => (k - 1 \in 1..Ttl /\ aged'[s][k] = aged[s][k - 1]))
    <3> SUFFICES ASSUME NEW s \in Stocks
                 PROVE  /\ aged'[s] \in [1..Ttl -> Nat]
                        /\ \A k \in 1..Ttl : aged'[s][k] <= version[s]
                        /\ \A k \in 1..Ttl : k # 1 => k - 1 \in 1..Ttl /\ aged'[s][k] = aged[s][k - 1]
      OBVIOUS
    <3>1. aged'[s] = [k \in 1..Ttl |-> IF k = 1 THEN version[s] ELSE aged[s][k - 1]]
      BY <2>1
    <3>2. \A k \in 1..Ttl : k # 1 => k - 1 \in 1..Ttl /\ aged'[s][k] = aged[s][k - 1]
      BY <3>1
    <3>3. \A k \in 1..Ttl : aged[s][k] \in Nat /\ aged[s][k] <= version[s]
      BY <1>d DEF Past
    <3>4. \A k \in 1..Ttl : aged'[s][k] \in Nat /\ aged'[s][k] <= version[s]
      BY <1>d, <3>1, <3>2, <3>3
    <3>5. aged'[s] \in [1..Ttl -> Nat]
      BY <3>1, <3>4
    <3> QED BY <3>2, <3>4, <3>5
  <2>4. SnapshotTyped'
    <3>1. browses' \in [Browses -> BrowseRecord]
      BY <2>1, <2>2
    <3>2. aged' \in [Stocks -> [1..Ttl -> Nat]]
      BY <2>1, <2>3
    <3> QED BY <2>1, <3>1, <3>2 DEF SnapshotTyped
  <2>5. Past'
    BY <2>1, <2>3 DEF Past
  <2>6. Begun'
    BY <2>1, <2>2 DEF Begun, Serves
  <2>7. \A b \in Browses : Low(b)' = Low(b) /\ (Serves(b)' <=> Serves(b))
    BY <2>2 DEF Low, Serves
  <2>8. HeldIsCurrent'
    <3>1. ASSUME NEW r \in Stocks, NEW c \in Browses, held[r] = c
          PROVE  /\ browses'[c].shop = r /\ Serves(c)'
                 /\ Low(c)' >= told[r]
                 /\ \A k \in 1..Ttl : k > browses'[c].age => Low(c)' >= aged'[r][k]
      <4>1. /\ browses[c].shop = r /\ Serves(c)
            /\ Low(c) >= told[r] /\ \A k \in 1..Ttl : k > browses[c].age => Low(c) >= aged[r][k]
        BY <3>1 DEF HeldIsCurrent
      <4>2. browses[c].age \in 0..Ttl /\ browses[c].state # "new"
        BY <4>1 DEF SnapshotTyped, BrowseRecord, Serves
      <4>3. ASSUME NEW k \in 1..Ttl, k > browses'[c].age
            PROVE  Low(c)' >= aged'[r][k]
        <5>1. browses[c].age # Ttl /\ k - 1 > browses[c].age /\ k # 1
          BY <2>2, <4>2, <4>3
        <5>2. k - 1 \in 1..Ttl /\ aged'[r][k] = aged[r][k - 1]
          BY <2>3, <5>1
        <5> QED BY <2>7, <4>1, <5>1, <5>2
      <4> QED BY <2>2, <2>7, <4>1, <4>3
    <3>2. \A r \in Stocks : held'[r] # NoBrowse => held'[r] \in Browses /\ held'[r] = held[r]
      BY <1>a, <2>1
    <3>3. told' = told
      BY <2>1
    <3>4. ASSUME NEW r \in Stocks, held'[r] # NoBrowse
          PROVE  /\ browses'[held'[r]].shop = r /\ Serves(held[r])'
                 /\ Low(held[r])' >= told'[r]
                 /\ \A k \in 1..Ttl : k > browses'[held'[r]].age => Low(held[r])' >= aged'[r][k]
      BY <3>1, <3>2, <3>3, <3>4 DEF Serves, Low
    <3> QED BY <3>4 DEF HeldIsCurrent
  <2>9. WaitersAreServed'
    <3>1. ASSUME NEW u \in Browsers, NEW c \in Browses, asking[u].browse = c, asking[u].got = -1
          PROVE  /\ browses'[c].state # "new"
                 /\ Serves(c)' => Low(c)' >= asking[u].floor
      BY <2>2, <2>7, <3>1 DEF WaitersAreServed
    <3>2. \A u \in Browsers : asking[u].browse # NoBrowse => asking[u].browse \in Browses
      BY DEF SnapshotTyped, Question
    <3> QED BY <2>1, <3>1, <3>2 DEF WaitersAreServed, Serves, Low
  <2>10. SnapshotIsCurrent'
    BY <2>1 DEF SnapshotIsCurrent, Held
  <2> QED BY <2>4, <2>5, <2>6, <2>8, <2>9, <2>10 DEF SnapshotInv
<1>10. CASE UNCHANGED snapshotVars
  BY <1>10 DEF snapshotVars, SnapshotInv, SnapshotTyped, Past, Begun, HeldIsCurrent,
               WaitersAreServed, SnapshotIsCurrent, Held, Serves, Low
<1> QED BY <1>1, <1>2, <1>3, <1>4, <1>5, <1>6, <1>7, <1>8, <1>9, <1>10 DEF SnapshotNext

-----------------------------------------------------------------------------
(* Policies                                                                *)

(* What is read or kept is no older than its age tells: of the editions    *)
(* before that it has the oldest or a newer one.                           *)
Since(words, age) == words = Unavailable \/ \A k \in 1..Horizon : k > age => words >= editions[k]

PoliciesInv ==
  /\ cached \in [known : BOOLEAN, text : Int, age : 0..PolicyTtl]
  /\ readers \in [Readers -> [step : {"idle", "asked", "body", "told"}, text : Int, age : 0..Slow]]
  /\ edition \in Nat /\ editions \in [1..Horizon -> Nat]
  /\ \A k \in 1..Horizon : editions[k] <= edition
  /\ Since(cached.text, Slow + cached.age)
  /\ \A r \in Readers : readers[r].step = "body" => Since(readers[r].text, readers[r].age)
  /\ PolicyIsRecent

LEMMA PoliciesStart == PoliciesInit => PoliciesInv
  BY PoliciesAssumption DEF PoliciesInit, PoliciesInv, NoReader, Unavailable, Horizon, Since, PolicyIsRecent

LEMMA PoliciesStep == PoliciesInv /\ [PoliciesNext]_policyVars => PoliciesInv'
<1> SUFFICES ASSUME PoliciesInv, [PoliciesNext]_policyVars PROVE PoliciesInv'
  OBVIOUS
<1> DEFINE Entries == [known : BOOLEAN, text : Int, age : 0..PolicyTtl]
           Reader == [step : {"idle", "asked", "body", "told"}, text : Int, age : 0..Slow]
<1>0. PolicyTtl \in Nat /\ PolicyTtl > 0 /\ Slow \in Nat /\ Horizon \in Nat /\ Horizon = PolicyTtl + Slow
  BY PoliciesAssumption DEF Horizon
<1> USE <1>0 DEF PoliciesInv, Unavailable
<1>1. ASSUME NEW r \in Readers, GetCached(r) PROVE PoliciesInv'
  <2>1. Horizon > Slow + cached.age
    BY <1>1 DEF GetCached, Cached
  <2>2. cached.text = Unavailable \/ cached.text >= editions[Horizon]
    BY <2>1 DEF Since
  <2> QED BY <1>1, <2>2 DEF GetCached, Hit, Tell, Since, PolicyIsRecent
<1>2. ASSUME NEW r \in Readers, Fetch(r) \/ NextQuestion(r) PROVE PoliciesInv'
  <2>1. /\ \/ readers' = [readers EXCEPT ![r] = [step |-> "asked", text |-> Unavailable, age |-> 0]]
           \/ readers' = [readers EXCEPT ![r] = [step |-> "idle", text |-> Unavailable, age |-> 0]]
        /\ UNCHANGED <<cached, edition, editions>>
    BY <1>2 DEF Fetch, NextQuestion, NoReader
  <2>2. readers' \in [Readers -> Reader]
    <3>1. /\ [step |-> "asked", text |-> Unavailable, age |-> 0] \in Reader
          /\ [step |-> "idle", text |-> Unavailable, age |-> 0] \in Reader
      OBVIOUS
    <3> QED BY <2>1, <3>1
  <2>3. \A q \in Readers : readers'[q].step \in {"body", "told"} => q # r /\ readers'[q] = readers[q]
    BY <2>1
  <2> QED BY <2>1, <2>2, <2>3 DEF Since, PolicyIsRecent
<1>3. ASSUME NEW r \in Readers, PageAnswers(r) PROVE PoliciesInv'
  <2>1. PICK words \in {edition, Unavailable} :
          readers' = [readers EXCEPT ![r].step = "body", ![r].text = words]
    BY <1>3 DEF PageAnswers
  <2>2. UNCHANGED <<cached, edition, editions>>
    BY <1>3 DEF PageAnswers
  <2>3. words \in Int /\ (words = Unavailable \/ \A k \in 1..Horizon : words >= editions[k])
    OBVIOUS
  <2>4. readers' \in [Readers -> Reader]
    BY <2>1, <2>3
  <2>5. readers'[r].text = words /\ readers'[r].step = "body" /\ \A q \in Readers \ {r} : readers'[q] = readers[q]
    BY <2>1
  <2>6. ASSUME NEW q \in Readers, readers'[q].step = "body"
        PROVE Since(readers[q].text, readers[q].age)'
    BY <2>2, <2>3, <2>5, <2>6 DEF Since
  <2>7. PolicyIsRecent'
    BY <2>2, <2>5 DEF PolicyIsRecent
  <2>8. Since(cached.text, Slow + cached.age)'
    BY <2>2 DEF Since
  <2> QED BY <2>2, <2>4, <2>6, <2>7, <2>8
<1>4. ASSUME NEW r \in Readers, NEW words \in Int, Keep(r, words), Since(words, Slow)
      PROVE PoliciesInv'
  <2>1. words = Unavailable \/ words >= editions[Horizon]
    BY <1>4 DEF Since
  <2>2. /\ cached' = [known |-> TRUE, text |-> words, age |-> 0]
        /\ readers' = [readers EXCEPT ![r] = [step |-> "told", text |-> words, age |-> 0]]
        /\ UNCHANGED <<edition, editions>>
    BY <1>4 DEF Keep, Tell
  <2>3. cached' \in Entries /\ readers' \in [Readers -> Reader]
    BY <2>2
  <2>4. Since(cached.text, Slow + cached.age)'
    BY <1>4, <2>2 DEF Since
  <2>5. ASSUME NEW q \in Readers, readers'[q].step = "body"
        PROVE Since(readers[q].text, readers[q].age)'
    BY <2>2, <2>5 DEF Since
  <2>6. PolicyIsRecent'
    BY <2>1, <2>2 DEF PolicyIsRecent
  <2> QED BY <2>2, <2>3, <2>4, <2>5, <2>6
<1>5. ASSUME NEW r \in Readers, PageRead(r) \/ FetchFails(r) PROVE PoliciesInv'
  <2>1. Since(Unavailable, Slow)
    BY DEF Since
  <2>2. readers[r].step = "body" => Since(readers[r].text, Slow)
    BY DEF Since
  <2>3. readers[r].text \in Int /\ Unavailable \in Int
    OBVIOUS
  <2> QED BY <1>4, <1>5, <2>1, <2>2, <2>3 DEF PageRead, FetchFails
<1>6. CASE MerchantRewrites
  BY <1>6 DEF MerchantRewrites, Since, PolicyIsRecent
<1>7. CASE PolicyTick
  <2>1. cached' \in Entries /\ cached'.text = cached.text
        /\ cached'.age = IF cached.age = PolicyTtl THEN cached.age ELSE cached.age + 1
    <3>1. cached' = [cached EXCEPT !.age = IF cached.age = PolicyTtl THEN cached.age ELSE cached.age + 1]
      BY <1>7 DEF PolicyTick
    <3>2. (IF cached.age = PolicyTtl THEN cached.age ELSE cached.age + 1) \in 0..PolicyTtl
      OBVIOUS
    <3> QED BY <3>1, <3>2
  <2>2. \A r \in Readers : readers[r].step = "body" => readers[r].age < Slow
    BY <1>7 DEF PolicyTick
  <2>3. readers' = [r \in Readers |-> readers'[r]] /\ \A r \in Readers :
          readers'[r] = [readers[r] EXCEPT
            !.age = IF readers[r].step = "body" THEN readers[r].age + 1 ELSE readers[r].age,
            !.step = IF readers[r].step = "told" THEN "idle" ELSE readers[r].step,
            !.text = IF readers[r].step = "told" THEN Unavailable ELSE readers[r].text]
    BY <1>7 DEF PolicyTick
  <2>4. ASSUME NEW r \in Readers PROVE readers'[r] \in Reader
    <3>1. readers[r] \in Reader
      OBVIOUS
    <3>2. (IF readers[r].step = "body" THEN readers[r].age + 1 ELSE readers[r].age) \in 0..Slow
      <4>1. readers[r].age \in 0..Slow
        BY <3>1
      <4>2. readers[r].step = "body" => readers[r].age < Slow
        BY <2>2
      <4> QED BY <4>1, <4>2
    <3>3. (IF readers[r].step = "told" THEN Unavailable ELSE readers[r].text) \in Int
      BY <3>1
    <3> QED BY <2>3, <3>1, <3>2, <3>3
  <2>5. edition' = edition /\ editions' = [k \in 1..Horizon |-> IF k = 1 THEN edition ELSE editions[k - 1]]
    BY <1>7 DEF PolicyTick
  <2>6. \A k \in 1..Horizon : k # 1 => k - 1 \in 1..Horizon /\ editions'[k] = editions[k - 1]
    BY <2>5
  <2>7. editions' \in [1..Horizon -> Nat] /\ \A k \in 1..Horizon : editions'[k] <= edition
    BY <2>5, <2>6
  <2>8. Since(cached.text, Slow + cached.age)'
    <3> SUFFICES ASSUME cached.text # Unavailable, NEW k \in 1..Horizon, k > Slow + cached'.age
                 PROVE cached.text >= editions'[k]
      BY <2>1 DEF Since
    <3>1. cached.age \in 0..PolicyTtl /\ cached'.age = cached.age + 1 /\ k # 1
      <4>1. cached.age \in 0..PolicyTtl
        OBVIOUS
      <4>2. cached'.age = cached.age + 1
        BY <2>1, <4>1
      <4> QED BY <4>1, <4>2
    <3>2. k - 1 \in 1..Horizon /\ k - 1 > Slow + cached.age /\ editions'[k] = editions[k - 1]
      BY <2>6, <3>1
    <3>3. Since(cached.text, Slow + cached.age)
      OBVIOUS
    <3> QED BY <3>2, <3>3 DEF Since
  <2>9. ASSUME NEW r \in Readers, readers'[r].step = "body"
        PROVE Since(readers[r].text, readers[r].age)'
    <3>0. readers[r] \in Reader
      OBVIOUS
    <3>2. readers'[r].step = IF readers[r].step = "told" THEN "idle" ELSE readers[r].step
      BY <2>3, <3>0
    <3>3. readers[r].step = "body"
      BY <2>9, <3>2
    <3>4. readers'[r].age = IF readers[r].step = "body" THEN readers[r].age + 1 ELSE readers[r].age
      BY <2>3, <3>0
    <3>5. readers'[r].text = IF readers[r].step = "told" THEN Unavailable ELSE readers[r].text
      BY <2>3, <3>0
    <3>6. readers'[r].age = readers[r].age + 1
      BY <3>3, <3>4
    <3>1. readers'[r].text = readers[r].text
      BY <3>3, <3>5
    <3>7. readers[r].age \in Nat
      BY <3>0
    <3>9. Since(readers[r].text, readers[r].age)
      BY <3>3
    <3> SUFFICES ASSUME readers[r].text # Unavailable, NEW k \in 1..Horizon, k > readers'[r].age
                 PROVE readers[r].text >= editions'[k]
      BY <3>1 DEF Since
    <3>8. k # 1 /\ k - 1 > readers[r].age
      BY <3>6, <3>7
    <3> QED BY <2>6, <3>7, <3>8, <3>9 DEF Since
  <2>10. PolicyIsRecent'
    <3>1. ASSUME NEW r \in Readers PROVE readers'[r].step # "told"
      <4>1. readers[r] \in Reader
        OBVIOUS
      <4>2. readers'[r].step = IF readers[r].step = "told" THEN "idle" ELSE readers[r].step
        BY <2>3, <4>1
      <4> QED BY <4>2
    <3> QED BY <3>1 DEF PolicyIsRecent
  <2> QED BY <2>1, <2>3, <2>4, <2>5, <2>7, <2>8, <2>9, <2>10
<1>8. CASE UNCHANGED policyVars
  BY <1>8 DEF policyVars, Since, PolicyIsRecent
<1> QED BY <1>1, <1>2, <1>3, <1>5, <1>6, <1>7, <1>8 DEF PoliciesNext

-----------------------------------------------------------------------------
(* Settings                                                                *)

AnyWord == STRING \cup {"neutral", "none", "demo", "lead", "never", "coat"}

LEMMA WordingsAreOfWords == ASSUME NEW words \in Wordings PROVE words \in Seq(AnyWord)
  <1>1. words \in Seq(STRING)
    BY SettingsAssumption
  <1>2. Len(words) \in Nat /\ words = [i \in 1..Len(words) |-> words[i]]
        /\ \A i \in 1..Len(words) : words[i] \in STRING
    BY <1>1
  <1>3. \A i \in 1..Len(words) : words[i] \in AnyWord
    BY <1>2 DEF AnyWord
  <1> QED BY <1>2, <1>3

IsForm(r) ==
  /\ DOMAIN r = Fields
  /\ \A f \in TextFields : r[f] \in Seq(AnyWord)
  /\ r.policyNotes # <<"demo">>

(* A row is one an older version wrote or a form that was accepted.        *)
IsRow(r) == r = NoRow \/ (IsForm(r) /\ (r.onDeviceSpeech = "null" \/ validateSettings(r)))

SettingsInv ==
  /\ IsRow(row)
  /\ tabs = [t \in Tabs |-> tabs[t]]
  /\ \A t \in Tabs : tabs[t] # Closed =>
       /\ tabs[t] = [shown |-> tabs[t].shown, typed |-> tabs[t].typed]
       /\ IsForm(tabs[t].shown) /\ IsForm(tabs[t].typed)
  /\ prompt # NoPrompt => IsRow(prompt.row) /\ prompt.pack = merchantPackFor(prompt.row)
  /\ changed = {}

LEMMA DefaultsAreAForm == IsForm(DefaultSettings)
  BY DEF IsForm, DefaultSettings, Fields, TextFields

LEMMA NoFormIsEmpty == ASSUME NEW r, IsForm(r) PROVE r # NoRow
  <1>1. DOMAIN NoRow = {}
    BY DEF NoRow
  <1> QED BY <1>1 DEF IsForm, Fields

(* What get() returns has the row's own fields but for the one it mends.   *)
LEMMA RowIsRead ==
  ASSUME NEW r, IsForm(r)
  PROVE  /\ get(r) = [r EXCEPT !.onDeviceSpeech = normaliseOnDeviceSpeech(r.onDeviceSpeech)]
         /\ \A f \in Fields \ {"onDeviceSpeech"} : get(r)[f] = r[f]
         /\ get(r).onDeviceSpeech = normaliseOnDeviceSpeech(r.onDeviceSpeech)
         /\ IsForm(get(r))
  <1>1. get(r) = [r EXCEPT !.onDeviceSpeech = normaliseOnDeviceSpeech(r.onDeviceSpeech)]
    BY NoFormIsEmpty DEF get
  <1>2. DOMAIN r = Fields /\ "onDeviceSpeech" \in Fields
    BY DEF IsForm, Fields
  <1>3. \A f \in Fields \ {"onDeviceSpeech"} : get(r)[f] = r[f]
    BY <1>1, <1>2
  <1>4. DOMAIN get(r) = Fields
    BY <1>1, <1>2
  <1>5. TextFields \subseteq Fields \ {"onDeviceSpeech"}
    BY DEF TextFields, Fields
  <1>6. get(r).onDeviceSpeech = normaliseOnDeviceSpeech(r.onDeviceSpeech)
    BY <1>1, <1>2
  <1>7. "policyNotes" \in TextFields
    BY DEF TextFields
  <1> QED BY <1>1, <1>3, <1>4, <1>5, <1>6, <1>7 DEF IsForm

LEMMA ReadIsAForm == ASSUME NEW r, IsRow(r) PROVE IsForm(get(r))
  BY DefaultsAreAForm, RowIsRead DEF IsRow, get

(* Texts joined are as stable as each.                                     *)
LEMMA JoinedIsStable ==
  ASSUME NEW s \in Seq(AnyWord), NEW t \in Seq(AnyWord), Stable(s), Stable(t)
  PROVE  s \o t \in Seq(AnyWord) /\ Stable(s \o t)
  BY RangeConcatenation DEF Stable

LEMMA OwnWordsAreStable ==
  ASSUME NEW word \in {"neutral", "none", "demo", "lead", "never"}
  PROVE  <<word>> \in Seq(AnyWord) /\ Stable(<<word>>)
  <1>1. Range(<<word>>) = {word}
    BY DEF Range
  <1>2. word \notin Volatile
    BY SettingsAssumption
  <1>3. word \in AnyWord
    BY DEF AnyWord
  <1> QED BY <1>1, <1>2, <1>3 DEF Stable

LEMMA NothingIsStable == <<>> \in Seq(AnyWord) /\ Stable(<<>>)
  BY DEF Stable, Range

LEMMA PrefixIsStable ==
  ASSUME NEW brandVoice \in Seq(AnyWord), NEW policySummary \in Seq(AnyWord),
         NEW promoted \in Seq(AnyWord), NEW never \in Seq(AnyWord),
         Stable(brandVoice), Stable(policySummary), Stable(promoted), Stable(never)
  PROVE  Stable(buildCachedPrefix([brandVoice |-> brandVoice, policySummary |-> policySummary,
                                   promoted |-> promoted, never |-> never]))
  <1> DEFINE lead == IF promoted = <<>> THEN <<>> ELSE <<"lead">> \o promoted
             last == IF never = <<>> THEN <<>> ELSE <<"never">> \o never
  <1>1. lead \in Seq(AnyWord) /\ Stable(lead)
    BY JoinedIsStable, OwnWordsAreStable, NothingIsStable
  <1>2. last \in Seq(AnyWord) /\ Stable(last)
    BY JoinedIsStable, OwnWordsAreStable, NothingIsStable
  <1>3. buildCachedPrefix([brandVoice |-> brandVoice, policySummary |-> policySummary,
                           promoted |-> promoted, never |-> never])
        = ((brandVoice \o policySummary) \o lead) \o last
    BY DEF buildCachedPrefix
  <1> HIDE DEF lead, last
  <1>4. brandVoice \o policySummary \in Seq(AnyWord) /\ Stable(brandVoice \o policySummary)
    BY JoinedIsStable
  <1>5. /\ (brandVoice \o policySummary) \o lead \in Seq(AnyWord)
        /\ Stable((brandVoice \o policySummary) \o lead)
    BY <1>1, <1>4, JoinedIsStable
  <1> QED BY <1>2, <1>3, <1>5, JoinedIsStable

(* The demo shop's pack, which stands in for one that is not stable, is.   *)
LEMMA PackIsStable == ASSUME NEW r PROVE Stable(buildCachedPrefix(merchantPackFor(r)))
  <1>1. Stable(buildCachedPrefix(DemoMerchant))
    BY PrefixIsStable, OwnWordsAreStable, NothingIsStable DEF DemoMerchant
  <1> QED BY <1>1 DEF merchantPackFor

(* A text that was accepted is what the model is given.                    *)
LEMMA AcceptedIsGiven ==
  ASSUME NEW r, IsForm(r), validateSettings(r)
  PROVE  /\ merchantPackFor(r).policySummary # DemoMerchant.policySummary
         /\ r.brandVoice \in {<<>>, merchantPackFor(r).brandVoice}
         /\ Range(r.neverRecommend) = Range(merchantPackFor(r).never)
  <1> DEFINE pack == merchantPackFrom(get(r))
  <1>1. \A f \in TextFields : r[f] \in Seq(AnyWord) /\ Stable(r[f]) /\ get(r)[f] = r[f]
    BY RowIsRead DEF IsForm, validateSettings, checkPrefixSafe, Fields, TextFields
  <1>2. pack = [brandVoice |-> IF r.brandVoice = <<>> THEN <<"neutral">> ELSE r.brandVoice,
                policySummary |-> IF r.policyNotes = <<>> THEN <<"none">> ELSE r.policyNotes,
                promoted |-> r.promoteProducts, never |-> r.neverRecommend]
    BY <1>1 DEF merchantPackFrom, TextFields
  <1>3. Stable(buildCachedPrefix(pack))
    BY <1>1, <1>2, PrefixIsStable, OwnWordsAreStable DEF TextFields
  <1>4. merchantPackFor(r) = pack
    BY <1>3 DEF merchantPackFor
  <1>5. <<"none">> # <<"demo">>
    OBVIOUS
  <1> QED BY <1>2, <1>4, <1>5 DEF DemoMerchant, IsForm

LEMMA SettingsPromised == SettingsInv => PromptIsTheMerchants
  BY PackIsStable, AcceptedIsGiven DEF SettingsInv, IsRow, PromptIsTheMerchants

LEMMA SettingsStart == SettingsInit => SettingsInv
<1> SUFFICES ASSUME SettingsInit PROVE SettingsInv
  OBVIOUS
<1>1. ASSUME NEW words \in Wordings PROVE IsForm(OldRow(words)) /\ OldRow(words).onDeviceSpeech = "null"
  <2> DEFINE old == OldRow(words)
  <2>1. DOMAIN DefaultSettings = Fields
    BY DEF DefaultSettings
  <2>2. /\ DOMAIN old = Fields /\ old.onDeviceSpeech = "null" /\ old.policyNotes = words
        /\ old.neverRecommend = <<"coat">>
        /\ old.brandVoice = DefaultSettings.brandVoice
        /\ old.promoteProducts = DefaultSettings.promoteProducts
    BY <2>1 DEF OldRow, Fields, TextFields
  <2>3. DefaultSettings.brandVoice = <<>> /\ DefaultSettings.promoteProducts = <<>>
    BY DEF DefaultSettings, Fields, TextFields
  <2>4. words \in Seq(AnyWord)
    BY WordingsAreOfWords
  <2>5. words # <<"demo">>
    BY SettingsAssumption
  <2>6. <<"coat">> \in Seq(AnyWord) /\ <<>> \in Seq(AnyWord)
    BY DEF AnyWord
  <2>7. \A f \in TextFields : old[f] \in Seq(AnyWord)
    BY <2>2, <2>3, <2>4, <2>6 DEF TextFields
  <2> QED BY <2>2, <2>5, <2>7 DEF IsForm
<1>2. IsRow(row)
  <2>1. row = NoRow \/ \E words \in Wordings : row = OldRow(words)
    BY DEF SettingsInit
  <2>2. ASSUME NEW words \in Wordings, row = OldRow(words) PROVE IsRow(row)
    <3>1. IsForm(row) /\ row.onDeviceSpeech = "null"
      BY <1>1, <2>2
    <3> QED BY <3>1 DEF IsRow
  <2>3. row = NoRow => IsRow(row)
    BY DEF IsRow
  <2> QED BY <2>1, <2>2, <2>3
<1> QED BY <1>2 DEF SettingsInit, SettingsInv

LEMMA SettingsStep == SettingsInv /\ [SettingsNext]_settingsVars => SettingsInv'
<1> SUFFICES ASSUME SettingsInv, [SettingsNext]_settingsVars PROVE SettingsInv'
  OBVIOUS
<1> USE DEF SettingsInv
<1>1. ASSUME NEW t \in Tabs, OpenForm(t) PROVE SettingsInv'
  BY <1>1, ReadIsAForm DEF OpenForm
<1>2. ASSUME NEW t \in Tabs, EditForm(t) PROVE SettingsInv'
  <2>1. PICK f \in TextFields \cup {"accentColor"}, value \in Wordings \cup Accents :
          /\ f \in TextFields => value \in Wordings
          /\ tabs' = [tabs EXCEPT ![t].typed[f] = value]
    BY <1>2 DEF EditForm, TextFields
  <2>2. IsForm([tabs[t].typed EXCEPT ![f] = value])
    BY <1>2, <2>1, SettingsAssumption, WordingsAreOfWords DEF EditForm, IsForm, Fields, TextFields
  <2>3. tabs'[t] = [shown |-> tabs[t].shown, typed |-> [tabs[t].typed EXCEPT ![f] = value]]
    BY <1>2, <2>1 DEF EditForm
  <2>4. UNCHANGED <<row, prompt, changed>> /\ tabs' = [q \in Tabs |-> tabs'[q]]
        /\ \A q \in Tabs \ {t} : tabs'[q] = tabs[q]
    BY <1>2, <2>1 DEF EditForm
  <2> QED BY <1>2, <2>2, <2>3, <2>4 DEF EditForm
<1>3. ASSUME NEW t \in Tabs, Submit(t) PROVE SettingsInv'
  <2> DEFINE entered == tabs[t].typed
  <2>1. IsForm(entered) /\ tabs[t] # Closed
    BY <1>3 DEF Submit
  <2>2. IsRow(row)'
    BY <1>3, <2>1 DEF Submit, IsRow
  <2>3. tabs' = [tabs EXCEPT ![t] = IF validateSettings(entered) THEN Closed
                                    ELSE [tabs[t] EXCEPT !.typed = tabs[t].shown]]
    BY <1>3 DEF Submit
  <2>4. changed' = {}
    <3>1. ASSUME validateSettings(entered), tabs[t].shown = get(row), row' = entered,
                 NEW f \in Fields, entered[f] = tabs[t].shown[f]
          PROVE  get(row')[f] = get(row)[f]
      <4>1. get(entered)[f] = entered[f]
        BY <2>1, <3>1, RowIsRead DEF validateSettings, normaliseOnDeviceSpeech
      <4> QED BY <3>1, <4>1
    <3> QED BY <1>3, <3>1 DEF Submit
  <2> QED BY <1>3, <2>1, <2>2, <2>3, <2>4 DEF Submit
<1>4. CASE BeginTurn
  BY <1>4 DEF BeginTurn
<1>5. CASE EndTurn
  BY <1>5 DEF EndTurn
<1>6. CASE UNCHANGED settingsVars
  BY <1>6 DEF settingsVars
<1> QED BY <1>1, <1>2, <1>3, <1>4, <1>5, <1>6 DEF SettingsNext

-----------------------------------------------------------------------------
(* The catalog, the policies and the merchant's words that a turn is given *)
(* are as recent as the webhooks and the TTLs promise, for any number of   *)
(* shops, turns and browses, whatever is evicted, fails or overtakes.      *)
THEOREM SharedCachesAreCurrent == CachesSpec => []CachesAreCurrent
<1> DEFINE Inv == SnapshotInv /\ PoliciesInv /\ SettingsInv
<1>1. CachesInit => Inv
  BY SnapshotStart, PoliciesStart, SettingsStart DEF CachesInit
<1>2. Inv /\ [CachesNext]_cacheVars => Inv'
  <2> SUFFICES ASSUME Inv, [CachesNext]_cacheVars PROVE Inv'
    OBVIOUS
  <2>1. [SnapshotNext]_snapshotVars /\ [PoliciesNext]_policyVars /\ [SettingsNext]_settingsVars
    BY DEF CachesNext, cacheVars
  <2> QED BY <2>1, SnapshotStep, PoliciesStep, SettingsStep
<1>3. Inv => CachesAreCurrent
  BY SettingsPromised DEF CachesAreCurrent, SnapshotInv, PoliciesInv
<1> QED BY <1>1, <1>2, <1>3, PTL DEF CachesSpec

-----------------------------------------------------------------------------
(* Figures.                                                                *)

Below == {pair \in Nat \X Nat : pair[1] < pair[2]}

LEMMA Smallest ==
  ASSUME NEW T \in SUBSET Nat, T # {}
  PROVE  \E m \in T : \A n \in T : m <= n
<1>1. IsWellFoundedOn(Below, Nat)
  BY NatLessThanWellFounded DEF OpToRel, Below
<1>2. PICK m \in T : \A n \in T : ~(<<n, m>> \in Below)
  BY <1>1, WFMin
<1>3. ASSUME NEW n \in T PROVE m <= n
  <2>1. m \in Nat /\ n \in Nat /\ ~(<<n, m>> \in Below)
    BY <1>2
  <2> QED BY <2>1 DEF Below
<1> QED BY <1>3

(* What is bounded has a greatest, and Max is it.                          *)
LEMMA Greatest ==
  ASSUME NEW n \in Nat, NEW T \in SUBSET (0..n), T # {}
  PROVE  Max(T) \in T /\ \A m \in T : m <= Max(T)
<1> DEFINE U == {n - m : m \in T}
<1>1. U \in SUBSET Nat /\ U # {}
  <2>1. \A m \in T : n - m \in Nat
    OBVIOUS
  <2> QED BY <2>1
<1> HIDE DEF U
<1>2. PICK u \in U : \A m \in U : u <= m
  BY <1>1, Smallest
<1>3. PICK k \in T : u = n - k
  BY <1>2 DEF U
<1>4. \A m \in T : k >= m
  <2> SUFFICES ASSUME NEW m \in T PROVE k >= m
    OBVIOUS
  <2>1. n - m \in U
    BY DEF U
  <2>2. n - k <= n - m
    BY <1>2, <1>3, <2>1
  <2> QED BY <2>2
<1>5. \E x \in T : \A y \in T : x >= y
  BY <1>4
<1>6. Max(T) \in T /\ \A y \in T : Max(T) >= y
  BY <1>5 DEF Max
<1> QED BY <1>6

-----------------------------------------------------------------------------
(* The figures of a text.                                                  *)
(* What prose is made of; the provers know of no string that it is one.    *)
Character == STRING \cup Range(Digits) \cup {"."}

LEMMA ProseIsText ==
  ASSUME NEW s \in Seq(STRING)
  PROVE  s \in Seq(Character)
<1>1. STRING \subseteq Character
  BY DEF Character
<1> QED BY <1>1, SeqMonotonic

DigitsAre ==
  /\ \A n \in 0..9 : IsDigit(Digits[n + 1]) /\ Digit[Digits[n + 1]] = n
  /\ \A c : IsDigit(c) => Digit[c] \in 0..9
  /\ ~IsDigit(".") /\ ~IsDigit("$") /\ ~IsDigit("end")
  /\ \A c \in Words : ~IsDigit(c) /\ c # "." /\ c # "$"

LEMMA CharactersDiffer == DigitsAre
<1> DEFINE Ten == {"0", "1", "2", "3", "4", "5", "6", "7", "8", "9"}
<1>1. /\ DOMAIN Digits = 1..10
      /\ Digits[1] = "0" /\ Digits[2] = "1" /\ Digits[3] = "2" /\ Digits[4] = "3" /\ Digits[5] = "4"
      /\ Digits[6] = "5" /\ Digits[7] = "6" /\ Digits[8] = "7" /\ Digits[9] = "8" /\ Digits[10] = "9"
  BY DEF Digits
<1>2. \A i \in 1..10 : i \in {1, 2, 3, 4, 5, 6, 7, 8, 9, 10}
  OBVIOUS
<1>3. \A i \in 1..10 : Digits[i] \in Ten
  BY <1>1, <1>2
<1>4. \A c \in Ten : \E i \in 1..10 : Digits[i] = c
  <2>1. 1 \in 1..10 /\ 2 \in 1..10 /\ 3 \in 1..10 /\ 4 \in 1..10 /\ 5 \in 1..10
        /\ 6 \in 1..10 /\ 7 \in 1..10 /\ 8 \in 1..10 /\ 9 \in 1..10 /\ 10 \in 1..10
    OBVIOUS
  <2> QED BY <1>1, <2>1
<1>5. DOMAIN Digit = Ten /\ Range(Digits) = Ten
  BY <1>1, <1>3, <1>4 DEF Digit, Range
<1>6. \A c : IsDigit(c) <=> c \in Ten
  BY <1>5 DEF IsDigit
<1>7. \A m, n \in 0..9 : Digits[m + 1] = Digits[n + 1] => m = n
  <2> SUFFICES ASSUME NEW m \in 0..9, NEW n \in 0..9, Digits[m + 1] = Digits[n + 1] PROVE m = n
    OBVIOUS
  <2>1. m \in {0, 1, 2, 3, 4, 5, 6, 7, 8, 9} /\ n \in {0, 1, 2, 3, 4, 5, 6, 7, 8, 9}
    OBVIOUS
  <2> QED BY <1>1, <2>1
<1>8. \A n \in 0..9 : Digits[n + 1] \in Ten /\ Digit[Digits[n + 1]] = n
  <2> SUFFICES ASSUME NEW n \in 0..9 PROVE Digits[n + 1] \in Ten /\ Digit[Digits[n + 1]] = n
    OBVIOUS
  <2>1. Digits[n + 1] \in Ten
    BY <1>3
  <2>2. Digit[Digits[n + 1]] = CHOOSE m \in 0..9 : Digits[m + 1] = Digits[n + 1]
    BY <1>5, <2>1 DEF Digit
  <2> QED BY <1>7, <2>1, <2>2
<1>9. \A c \in Ten : Digit[c] \in 0..9
  <2> SUFFICES ASSUME NEW c \in Ten PROVE Digit[c] \in 0..9
    OBVIOUS
  <2>1. PICK i \in 1..10 : Digits[i] = c
    BY <1>4
  <2>2. i - 1 \in 0..9 /\ Digits[(i - 1) + 1] = c
    BY <2>1
  <2> QED BY <1>8, <2>2
<1>10. \A c \in Words : c \notin Ten /\ c # "." /\ c # "$"
  BY DEF Words
<1> QED BY <1>6, <1>8, <1>9, <1>10 DEF DigitsAre

(* Where a run of digits ends.                                             *)
Run(s, i, j) ==
  /\ j \in i..Len(s) /\ \A k \in i + 1..j : IsDigit(s[k])
  /\ j = Len(s) \/ ~IsDigit(s[j + 1])

LEMMA RunEnds ==
  ASSUME NEW s \in Seq(Character), NEW i \in 1..Len(s)
  PROVE  Run(s, i, DigitsEnd(s, i))
<1> DEFINE T == {j \in i..Len(s) : \A k \in i + 1..j : IsDigit(s[k])}
           d == DigitsEnd(s, i)
<1>1. Len(s) \in Nat /\ T \in SUBSET (0..Len(s))
  OBVIOUS
<1>2. i \in T
  OBVIOUS
<1>3. d \in T /\ \A m \in T : m <= d
  <2>1. d = Max(T)
    BY DEF DigitsEnd
  <2> HIDE DEF T, d
  <2> QED BY <1>1, <1>2, <2>1, Greatest
<1>4. ASSUME d # Len(s), IsDigit(s[d + 1]) PROVE FALSE
  <2>1. d \in i..Len(s) /\ \A k \in i + 1..d : IsDigit(s[k])
    BY <1>3
  <2>2. d + 1 \in i..Len(s)
    BY <1>4, <2>1
  <2>3. \A k \in i + 1..d + 1 : IsDigit(s[k])
    BY <1>4, <2>1
  <2>4. d + 1 \in T
    BY <2>2, <2>3
  <2> QED BY <1>3, <2>1, <2>4
<1> QED BY <1>3, <1>4 DEF Run

LEMMA RunIsOne ==
  ASSUME NEW s \in Seq(Character), NEW i \in 1..Len(s), NEW j, NEW k, Run(s, i, j), Run(s, i, k)
  PROVE  j = k
<1>1. j \in i..Len(s) /\ k \in i..Len(s)
  BY DEF Run
<1>2. CASE j < k
  BY <1>1, <1>2 DEF Run
<1>3. CASE k < j
  BY <1>1, <1>3 DEF Run
<1> QED BY <1>1, <1>2, <1>3

(* A figure, with the cents it has or without.                             *)
CentsAre(s, j, t) ==
  \/ /\ At(s, j + 1) = "." /\ IsDigit(At(s, j + 2))
     /\ t = IF IsDigit(At(s, j + 3)) THEN j + 3 ELSE j + 2
  \/ /\ ~(At(s, j + 1) = "." /\ IsDigit(At(s, j + 2)))
     /\ t = j

LEMMA CentsEnds ==
  ASSUME NEW s, NEW j
  PROVE  CentsAre(s, j, CentsEnd(s, j))
BY DEF CentsAre, CentsEnd

Starts(s, i) == i \in 1..Len(s) - 1 /\ s[i] = "$" /\ IsDigit(s[i + 1])

(* What a figure of a text is.                                             *)
IsFigure(s, f) ==
  /\ Starts(s, f.from) /\ f = [from |-> f.from, digits |-> f.digits, to |-> f.to]
  /\ Run(s, f.from, f.digits) /\ CentsAre(s, f.digits, f.to)

LEMMA FiguresAre ==
  ASSUME NEW s \in Seq(Character), NEW f
  PROVE  f \in Written(s) <=> IsFigure(s, f)
<1>1. ASSUME f \in Written(s) PROVE IsFigure(s, f)
  <2>1. PICK i \in 1..Len(s) - 1 :
          /\ s[i] = "$" /\ IsDigit(s[i + 1])
          /\ f = [from |-> i, digits |-> DigitsEnd(s, i), to |-> CentsEnd(s, DigitsEnd(s, i))]
    BY <1>1 DEF Written
  <2>2. i \in 1..Len(s)
    OBVIOUS
  <2>3. Run(s, i, DigitsEnd(s, i)) /\ CentsAre(s, DigitsEnd(s, i), CentsEnd(s, DigitsEnd(s, i)))
    BY <2>2, RunEnds, CentsEnds
  <2> QED BY <2>1, <2>3 DEF IsFigure, Starts
<1>2. ASSUME IsFigure(s, f) PROVE f \in Written(s)
  <2>1. f.from \in 1..Len(s) - 1 /\ f.from \in 1..Len(s) /\ s[f.from] = "$" /\ IsDigit(s[f.from + 1])
    BY <1>2 DEF IsFigure, Starts
  <2>2. f.digits = DigitsEnd(s, f.from)
    BY <1>2, <2>1, RunEnds, RunIsOne DEF IsFigure
  <2>3. f.to = CentsEnd(s, f.digits)
    BY <1>2 DEF IsFigure, CentsAre, CentsEnd
  <2> QED BY <1>2, <2>1, <2>2, <2>3 DEF Written, IsFigure
<1> QED BY <1>1, <1>2

(* Where its parts are, and what stands there.                             *)
LEMMA FigureShape ==
  ASSUME NEW s \in Seq(Character), NEW f, IsFigure(s, f)
  PROVE  /\ f.from \in 1..Len(s) /\ f.digits \in 1..Len(s) /\ f.to \in 1..Len(s)
         /\ f.from < f.digits /\ f.digits <= f.to
         /\ f.to \in {f.digits, f.digits + 2, f.digits + 3}
         /\ \A k \in f.from + 1..f.to : k # f.digits + 1 => IsDigit(s[k])
         /\ f.to # f.digits => s[f.digits + 1] = "."
<1>1. f.from \in 1..Len(s) - 1 /\ IsDigit(s[f.from + 1]) /\ Run(s, f.from, f.digits)
  BY DEF IsFigure, Starts
<1>2. f.digits \in f.from..Len(s) /\ f.digits # f.from
  BY <1>1 DEF Run
<1>3. \A k \in f.from + 1..f.digits : IsDigit(s[k])
  BY <1>1 DEF Run
<1>4. CentsAre(s, f.digits, f.to) /\ ~IsDigit("end")
  BY CharactersDiffer DEF IsFigure, DigitsAre
<1>5. CASE f.to = f.digits
  BY <1>1, <1>2, <1>3, <1>5
<1>6. CASE f.to # f.digits
  <2>1. At(s, f.digits + 1) = "." /\ IsDigit(At(s, f.digits + 2))
        /\ f.to = IF IsDigit(At(s, f.digits + 3)) THEN f.digits + 3 ELSE f.digits + 2
    BY <1>4, <1>6 DEF CentsAre
  <2>2. f.digits + 2 \in 1..Len(s) /\ s[f.digits + 1] = "." /\ IsDigit(s[f.digits + 2])
    BY <1>1, <1>2, <1>4, <2>1 DEF At
  <2>3. CASE IsDigit(At(s, f.digits + 3))
    <3>1. f.digits + 3 \in 1..Len(s) /\ IsDigit(s[f.digits + 3]) /\ f.to = f.digits + 3
      BY <1>1, <1>2, <1>4, <2>1, <2>3 DEF At
    <3>2. ASSUME NEW k \in f.from + 1..f.to, k # f.digits + 1 PROVE IsDigit(s[k])
      <4>1. k \in f.from + 1..f.digits \/ k = f.digits + 2 \/ k = f.digits + 3
        BY <1>1, <1>2, <3>1, <3>2
      <4> QED BY <1>3, <2>2, <3>1, <4>1
    <3> QED BY <1>1, <1>2, <2>2, <3>1, <3>2
  <2>4. CASE ~IsDigit(At(s, f.digits + 3))
    <3>1. f.to = f.digits + 2
      BY <2>1, <2>4
    <3> QED BY <1>1, <1>2, <1>3, <2>2, <3>1
  <2> QED BY <2>3, <2>4
<1> QED BY <1>5, <1>6

(* There is one figure where money starts.                                 *)
LEMMA FigureThere ==
  ASSUME NEW s \in Seq(Character), NEW i, Starts(s, i)
  PROVE  \E f : IsFigure(s, f) /\ f.from = i
<1> DEFINE f == [from |-> i, digits |-> DigitsEnd(s, i), to |-> CentsEnd(s, DigitsEnd(s, i))]
<1>1. i \in 1..Len(s)
  BY DEF Starts
<1>2. Run(s, i, DigitsEnd(s, i)) /\ CentsAre(s, DigitsEnd(s, i), CentsEnd(s, DigitsEnd(s, i)))
  BY <1>1, RunEnds, CentsEnds
<1>3. IsFigure(s, f) /\ f.from = i
  BY <1>2 DEF IsFigure
<1> QED BY <1>3

LEMMA FigureIsOne ==
  ASSUME NEW s \in Seq(Character), NEW f, NEW g, IsFigure(s, f), IsFigure(s, g), f.from = g.from
  PROVE  f = g
<1>1. f.from \in 1..Len(s)
  BY FigureShape
<1>2. f.digits = g.digits
  BY <1>1, RunIsOne DEF IsFigure
<1>3. f.to = g.to
  BY <1>2 DEF IsFigure, CentsAre
<1> QED BY <1>2, <1>3 DEF IsFigure

(* Of two figures one ends before the other starts.                        *)
LEMMA FiguresApart ==
  ASSUME NEW s \in Seq(Character), NEW f, NEW g, IsFigure(s, f), IsFigure(s, g), f.from < g.from
  PROVE  f.to < g.from
<1>1. s[g.from] = "$" /\ ~IsDigit("$") /\ "." # "$"
  BY CharactersDiffer DEF IsFigure, Starts, DigitsAre
<1> QED BY <1>1, FigureShape

(* A text that has begun to arrive.                                        *)
BeginsAs(p, s) == p \in Seq(Character) /\ Len(p) <= Len(s) /\ \A i \in 1..Len(p) : p[i] = s[i]

LEMMA Beginning ==
  ASSUME NEW s \in Seq(Character), NEW n \in 0..Len(s)
  PROVE  BeginsAs(SubSeq(s, 1, n), s) /\ Len(SubSeq(s, 1, n)) = n
<1>1. 1 \in Int /\ n \in Int /\ \A i \in 1..n : s[i] \in Character
  OBVIOUS
<1>2. /\ SubSeq(s, 1, n) \in Seq(Character)
      /\ Len(SubSeq(s, 1, n)) = IF 1 <= n THEN n - 1 + 1 ELSE 0
      /\ \A i \in 1..n - 1 + 1 : SubSeq(s, 1, n)[i] = s[1 + i - 1]
  BY <1>1, SubSeqProperties
<1> QED BY <1>2 DEF BeginsAs

(* A figure that a prefix has all of is a figure of the prefix.            *)
LEMMA WholeInside ==
  ASSUME NEW s \in Seq(Character), NEW p, BeginsAs(p, s), NEW f, IsFigure(s, f), f.to <= Len(p)
  PROVE  IsFigure(p, f)
<1>1. p \in Seq(Character) /\ Len(p) \in Nat /\ Len(s) \in Nat /\ Len(p) <= Len(s)
      /\ \A i \in 1..Len(p) : p[i] = s[i]
  BY DEF BeginsAs
<1>2. /\ f.from \in 1..Len(s) /\ f.digits \in 1..Len(s) /\ f.to \in 1..Len(s)
      /\ f.from < f.digits /\ f.digits <= f.to
  BY FigureShape
<1>3. Starts(p, f.from)
  <2>1. s[f.from] = "$" /\ IsDigit(s[f.from + 1])
    BY DEF IsFigure, Starts
  <2>2. f.from \in 1..Len(p) /\ f.from + 1 \in 1..Len(p) /\ f.from \in 1..Len(p) - 1
    BY <1>1, <1>2
  <2>3. p[f.from] = s[f.from] /\ p[f.from + 1] = s[f.from + 1]
    BY <1>1, <2>2
  <2> QED BY <2>1, <2>2, <2>3 DEF Starts
<1>4. Run(p, f.from, f.digits)
  <2>1. /\ \A k \in f.from + 1..f.digits : IsDigit(s[k])
        /\ f.digits = Len(s) \/ ~IsDigit(s[f.digits + 1])
    BY DEF IsFigure, Run
  <2>2. \A k \in f.from + 1..f.digits : IsDigit(p[k])
    BY <1>1, <1>2, <2>1
  <2>3. f.digits # Len(p) => p[f.digits + 1] = s[f.digits + 1]
    BY <1>1, <1>2
  <2>4. f.digits \in f.from..Len(p)
    BY <1>1, <1>2
  <2>5. f.digits = Len(p) \/ ~IsDigit(p[f.digits + 1])
    BY <1>1, <1>2, <2>1, <2>3
  <2> QED BY <2>2, <2>4, <2>5 DEF Run
<1>5. CentsAre(p, f.digits, f.to)
  <2>1. \A k \in Nat : At(p, k) = At(s, k) \/ (k > Len(p) /\ At(p, k) = "end")
    <3> SUFFICES ASSUME NEW k \in Nat PROVE At(p, k) = At(s, k) \/ (k > Len(p) /\ At(p, k) = "end")
      OBVIOUS
    <3>1. CASE k \in 1..Len(p)
      <4>1. k \in DOMAIN p /\ k \in DOMAIN s
        BY <1>1, <3>1
      <4> QED BY <1>1, <3>1, <4>1 DEF At
    <3>2. CASE k = 0
      BY <1>1, <3>2 DEF At
    <3>3. CASE k > Len(p)
      BY <1>1, <3>3 DEF At
    <3> QED BY <1>1, <3>1, <3>2, <3>3
  <2>2. ~IsDigit("end") /\ "end" # "." /\ f.to \in {f.digits, f.digits + 2, f.digits + 3}
    BY CharactersDiffer, FigureShape DEF DigitsAre
  <2>3. \A k \in Nat : k <= f.to => At(p, k) = At(s, k)
    BY <1>1, <1>2, <2>1
  <2>4. CentsAre(s, f.digits, f.to) /\ f.digits \in Nat
    BY <1>2 DEF IsFigure
  <2>5. CASE f.to = f.digits
    BY <2>1, <2>2, <2>4, <2>5 DEF CentsAre
  <2>6. CASE f.to = f.digits + 2
    <3>1. At(s, f.digits + 1) = "." /\ IsDigit(At(s, f.digits + 2)) /\ ~IsDigit(At(s, f.digits + 3))
      BY <2>4, <2>6 DEF CentsAre
    <3>2. At(p, f.digits + 1) = "." /\ IsDigit(At(p, f.digits + 2)) /\ ~IsDigit(At(p, f.digits + 3))
      BY <2>1, <2>2, <2>3, <2>4, <2>6, <3>1
    <3> QED BY <2>6, <3>2 DEF CentsAre
  <2>7. CASE f.to = f.digits + 3
    <3>1. At(s, f.digits + 1) = "." /\ IsDigit(At(s, f.digits + 2)) /\ IsDigit(At(s, f.digits + 3))
      BY <2>4, <2>7 DEF CentsAre
    <3>2. At(p, f.digits + 1) = "." /\ IsDigit(At(p, f.digits + 2)) /\ IsDigit(At(p, f.digits + 3))
      BY <2>3, <2>4, <2>7, <3>1
    <3> QED BY <2>7, <3>2 DEF CentsAre
  <2> QED BY <2>2, <2>5, <2>6, <2>7
<1> QED BY <1>3, <1>4, <1>5 DEF IsFigure

(* One that ends before the prefix does is a figure of the whole, unless   *)
(* the prefix ends with what may be its decimal point.                     *)
LEMMA SettledInside ==
  ASSUME NEW s \in Seq(Character), NEW p, BeginsAs(p, s), NEW f, IsFigure(p, f), f.to < Len(p),
         p[Len(p)] = "." => f.to # f.digits \/ f.to + 1 # Len(p)
  PROVE  IsFigure(s, f)
<1>1. p \in Seq(Character) /\ Len(p) \in Nat /\ Len(s) \in Nat /\ Len(p) <= Len(s)
      /\ \A i \in 1..Len(p) : p[i] = s[i]
  BY DEF BeginsAs
<1>2. /\ f.from \in 1..Len(p) /\ f.digits \in 1..Len(p) /\ f.to \in 1..Len(p)
      /\ f.from < f.digits /\ f.digits <= f.to
      /\ f.to \in {f.digits, f.digits + 2, f.digits + 3}
  BY <1>1, FigureShape
<1>3. Starts(s, f.from)
  <2>1. p[f.from] = "$" /\ IsDigit(p[f.from + 1]) /\ f.from + 1 \in 1..Len(p)
    BY <1>1, <1>2 DEF IsFigure, Starts
  <2>2. s[f.from] = "$" /\ IsDigit(s[f.from + 1])
    BY <1>1, <1>2, <2>1
  <2>3. f.from \in 1..Len(s) - 1
    BY <1>1, <1>2
  <2> QED BY <2>2, <2>3 DEF Starts
<1>4. Run(s, f.from, f.digits)
  <2>1. /\ \A k \in f.from + 1..f.digits : IsDigit(p[k])
        /\ f.digits = Len(p) \/ ~IsDigit(p[f.digits + 1])
    BY DEF IsFigure, Run
  <2>2. \A k \in f.from + 1..f.digits : IsDigit(s[k])
    <3> SUFFICES ASSUME NEW k \in f.from + 1..f.digits PROVE IsDigit(s[k])
      OBVIOUS
    <3>1. k \in 1..Len(p)
      BY <1>1, <1>2
    <3> QED BY <1>1, <2>1, <3>1
  <2>3. f.digits + 1 \in 1..Len(p)
    BY <1>1, <1>2
  <2>4. ~IsDigit(s[f.digits + 1])
    BY <1>1, <2>1, <2>3
  <2>5. f.digits \in f.from..Len(s)
    BY <1>1, <1>2
  <2> QED BY <2>2, <2>4, <2>5 DEF Run
<1>5. \A k \in Nat : k <= Len(p) => At(p, k) = At(s, k)
  <2> SUFFICES ASSUME NEW k \in Nat, k <= Len(p) PROVE At(p, k) = At(s, k)
    OBVIOUS
  <2>1. CASE k = 0
    BY <1>1, <2>1 DEF At
  <2>2. CASE k \in 1..Len(p)
    <3>1. k \in DOMAIN p /\ k \in DOMAIN s
      BY <1>1, <2>2
    <3> QED BY <1>1, <2>2, <3>1 DEF At
  <2> QED BY <1>1, <2>1, <2>2
<1>6. CentsAre(p, f.digits, f.to) /\ f.digits \in Nat
  BY <1>2 DEF IsFigure
<1>7. CentsAre(s, f.digits, f.to)
  <2>1. CASE f.to = f.digits
    <3>1. ~(At(p, f.digits + 1) = "." /\ IsDigit(At(p, f.digits + 2)))
      BY <1>6, <2>1 DEF CentsAre
    <3>2. f.digits + 1 <= Len(p) /\ At(p, f.digits + 1) = p[f.digits + 1]
      BY <1>1, <1>2, <2>1 DEF At
    <3>3. f.digits + 2 <= Len(p) \/ At(p, f.digits + 1) # "."
      BY <1>1, <1>2, <2>1, <3>2
    <3>4. ~(At(s, f.digits + 1) = "." /\ IsDigit(At(s, f.digits + 2)))
      BY <1>5, <1>6, <3>1, <3>2, <3>3
    <3> QED BY <2>1, <3>4 DEF CentsAre
  <2>2. CASE f.to = f.digits + 2
    <3>1. At(p, f.digits + 1) = "." /\ IsDigit(At(p, f.digits + 2)) /\ ~IsDigit(At(p, f.digits + 3))
      BY <1>6, <2>2 DEF CentsAre
    <3>2. /\ At(s, f.digits + 1) = "." /\ IsDigit(At(s, f.digits + 2))
          /\ ~IsDigit(At(s, f.digits + 3))
      <4>1. \A k \in {f.digits + 1, f.digits + 2, f.digits + 3} : k \in Nat /\ k <= Len(p)
        BY <1>1, <1>2, <1>6, <2>2
      <4>2. \A k \in {f.digits + 1, f.digits + 2, f.digits + 3} : At(p, k) = At(s, k)
        BY <1>5, <4>1, Zenon
      <4> QED BY <3>1, <4>2
    <3> QED BY <2>2, <3>2 DEF CentsAre
  <2>3. CASE f.to = f.digits + 3
    <3>1. At(p, f.digits + 1) = "." /\ IsDigit(At(p, f.digits + 2)) /\ IsDigit(At(p, f.digits + 3))
      BY <1>6, <2>3 DEF CentsAre
    <3>2. At(s, f.digits + 1) = "." /\ IsDigit(At(s, f.digits + 2)) /\ IsDigit(At(s, f.digits + 3))
      <4>1. \A k \in {f.digits + 1, f.digits + 2, f.digits + 3} : k \in Nat /\ k <= Len(p)
        BY <1>1, <1>2, <1>6, <2>3
      <4>2. \A k \in {f.digits + 1, f.digits + 2, f.digits + 3} : At(p, k) = At(s, k)
        BY <1>5, <4>1, Zenon
      <4> QED BY <3>1, <4>2
    <3> QED BY <2>3, <3>2 DEF CentsAre
  <2> QED BY <1>2, <2>1, <2>2, <2>3
<1> QED BY <1>3, <1>4, <1>7 DEF IsFigure

-----------------------------------------------------------------------------
(* The settled part of a text, and what is said of money in it.            *)
Growing(s) ==
  LET stop == IF s # <<>> /\ Last(s) = "." THEN 1 ELSE 0
  IN  {f \in Written(s) : f.to + stop = Len(s) /\ (stop = 0 \/ f.to = f.digits)}

(* It is cut before the one figure that may grow, or before a last word.   *)
LEMMA SettledIs ==
  ASSUME NEW s \in Seq(Character)
  PROVE  \E n \in 0..Len(s) :
           /\ settledPrefix(s) = SubSeq(s, 1, n)
           /\ \/ \E f \in Growing(s) : n = f.from - 1
              \/ Growing(s) = {} /\ n \in {Len(s) - 1, Len(s)} /\ (n # Len(s) => s[Len(s)] \in Words)
<1> DEFINE G == Growing(s)
           starts == {f.from : f \in G}
<1>1. settledPrefix(s) = IF starts # {} THEN SubSeq(s, 1, Min(starts) - 1)
                         ELSE IF s # <<>> /\ Last(s) \in Words THEN Front(s) ELSE s
  BY DEF settledPrefix, Growing
<1>2. \A f \in G : IsFigure(s, f)
  BY FiguresAre DEF Growing
<1>3. CASE G # {}
  <2>1. PICK f \in G : TRUE
    BY <1>3
  <2>2. \A g \in G : g.from = f.from
    <3> SUFFICES ASSUME NEW g \in G PROVE g.from = f.from
      OBVIOUS
    <3>1. IsFigure(s, f) /\ IsFigure(s, g)
      BY <1>2
    <3>2. /\ f.from \in 1..Len(s) /\ g.from \in 1..Len(s) /\ f.to \in 1..Len(s) /\ g.to \in 1..Len(s)
          /\ f.from < f.digits /\ f.digits <= f.to /\ g.from < g.digits /\ g.digits <= g.to
          /\ f.digits \in 1..Len(s) /\ g.digits \in 1..Len(s)
      BY <3>1, FigureShape
    <3>3. f.to = g.to
      BY <3>2 DEF Growing
    <3>4. (f.from < g.from => f.to < g.from) /\ (g.from < f.from => g.to < f.from)
      BY <3>1, FiguresApart
    <3> QED BY <3>2, <3>3, <3>4
  <2>3. f.from \in 1..Len(s)
    BY <1>2, FigureShape
  <2>4. starts = {f.from}
    BY <2>2
  <2>5. Min({f.from}) = f.from
    BY <2>3 DEF Min
  <2> HIDE DEF starts
  <2>6. settledPrefix(s) = SubSeq(s, 1, f.from - 1)
    BY <1>1, <2>4, <2>5
  <2>7. f.from - 1 \in 0..Len(s)
    BY <2>3
  <2> QED BY <2>6, <2>7
<1>4. CASE G = {}
  <2>1. starts = {}
    BY <1>4
  <2> HIDE DEF starts
  <2>2. CASE s # <<>> /\ Last(s) \in Words
    <3>1. settledPrefix(s) = Front(s)
      BY <1>1, <2>1, <2>2
    <3>2. Front(s) = SubSeq(s, 1, Len(s) - 1) /\ s[Len(s)] \in Words
      BY <2>2 DEF Front, Last
    <3>3. Len(s) - 1 \in 0..Len(s)
      BY <2>2
    <3> QED BY <1>4, <3>1, <3>2, <3>3
  <2>3. CASE ~(s # <<>> /\ Last(s) \in Words)
    <3>1. settledPrefix(s) = s
      BY <1>1, <2>1, <2>3
    <3>2. SubSeq(s, 1, Len(s)) = s /\ Len(s) \in 0..Len(s)
      BY SubSeqFull
    <3> QED BY <1>4, <3>1, <3>2
  <2> QED BY <2>2, <2>3
<1> QED BY <1>3, <1>4

(* What it has of a figure is all of it, as the whole reply has it.        *)
LEMMA SettledIsWhole ==
  ASSUME NEW s \in Seq(Character), NEW n \in 0..Len(s)
  PROVE  LET settles == settledPrefix(SubSeq(s, 1, n))
         IN  /\ BeginsAs(settles, s) /\ Len(settles) <= n
             /\ \A f : IsFigure(s, f) /\ f.from < Len(settles) =>
                  f.to <= Len(settles) /\ IsFigure(settles, f)
<1> DEFINE p == SubSeq(s, 1, n)
           settles == settledPrefix(p)
<1>1. BeginsAs(p, s) /\ Len(p) = n /\ p \in Seq(Character)
  BY Beginning DEF BeginsAs
<1> HIDE DEF p
<1>2. PICK m \in 0..Len(p) :
        /\ settles = SubSeq(p, 1, m)
        /\ \/ \E f \in Growing(p) : m = f.from - 1
           \/ Growing(p) = {} /\ m \in {Len(p) - 1, Len(p)} /\ (m # Len(p) => p[Len(p)] \in Words)
  BY <1>1, SettledIs
<1>3. BeginsAs(settles, p) /\ Len(settles) = m
  BY <1>1, <1>2, Beginning
<1>4. BeginsAs(settles, s)
  BY <1>1, <1>3 DEF BeginsAs
<1>5. ASSUME NEW f, IsFigure(s, f), f.from < m PROVE f.to <= m
  <2>1. /\ f.from \in 1..Len(s) /\ f.from + 1 \in 1..Len(p) /\ f.from \in 1..Len(p) /\ n \in Nat /\ m \in Nat /\ m <= n
        /\ n <= Len(s) /\ Len(p) = n
    BY <1>1, <1>2, <1>5, FigureShape
  <2>2. Starts(p, f.from)
    <3>1. s[f.from] = "$" /\ IsDigit(s[f.from + 1])
      BY <1>5 DEF IsFigure, Starts
    <3>2. p[f.from] = s[f.from] /\ p[f.from + 1] = s[f.from + 1]
      BY <1>1, <2>1 DEF BeginsAs
    <3> QED BY <1>1, <2>1, <3>1, <3>2 DEF Starts
  <2>3. PICK g : IsFigure(p, g) /\ g.from = f.from
    BY <1>1, <2>2, FigureThere
  <2>4. /\ g.from \in 1..n /\ g.digits \in 1..n /\ g.to \in 1..n
        /\ g.from < g.digits /\ g.digits <= g.to /\ g.to \in {g.digits, g.digits + 2, g.digits + 3}
        /\ \A k \in g.from + 1..g.to : k # g.digits + 1 => IsDigit(p[k])
    BY <1>1, <2>3, FigureShape
  <2>5. IsDigit(p[g.to]) /\ p[g.to] # "." /\ p[g.to] \notin Words
    <3>1. IsDigit(p[g.to])
      BY <2>4
    <3>2. ~IsDigit(".") /\ \A c \in Words : ~IsDigit(c)
      BY CharactersDiffer DEF DigitsAre
    <3> QED BY <3>1, <3>2
  <2>6. g.to <= m /\ g.to < n /\ (p[n] = "." => g.to # g.digits \/ g.to + 1 # n)
    <3>1. CASE \E h \in Growing(p) : m = h.from - 1
      <4>1. PICK h \in Growing(p) : m = h.from - 1
        BY <3>1
      <4>2. IsFigure(p, h)
        BY <1>1, FiguresAre DEF Growing
      <4>3. h.from \in 1..n /\ g.from < h.from /\ h.digits \in 1..n /\ h.from < h.digits
        BY <1>1, <1>5, <2>1, <2>3, <4>1, <4>2, FigureShape
      <4>4. g.to < h.from
        BY <1>1, <2>3, <4>2, <4>3, FiguresApart
      <4> QED BY <2>4, <4>1, <4>3, <4>4
    <3>2. CASE Growing(p) = {} /\ m \in {n - 1, n} /\ (m # n => p[n] \in Words)
      <4>1. p # <<>> /\ Last(p) = p[n]
        BY <1>1, <2>4 DEF Last
      <4>2. g \in Written(p) /\ g \notin Growing(p)
        BY <1>1, <2>3, <3>2, FiguresAre
      <4>3. CASE p[n] = "."
        <5>1. ~(g.to + 1 = n /\ g.to = g.digits)
          BY <1>1, <4>1, <4>2, <4>3 DEF Growing
        <5>2. g.to # n
          BY <2>5, <4>3
        <5>3. m = n
          BY <3>2, <4>3, CharactersDiffer DEF DigitsAre
        <5> QED BY <2>4, <5>1, <5>2, <5>3
      <4>4. CASE p[n] # "."
        <5>1. g.to + 0 # Len(p)
          BY <4>1, <4>2, <4>4 DEF Growing
        <5>2. g.to < n
          BY <1>1, <2>4, <5>1
        <5> QED BY <2>4, <3>2, <4>4, <5>2
      <4> QED BY <4>3, <4>4
    <3> QED BY <1>1, <1>2, <3>1, <3>2
  <2>7. IsFigure(s, g)
    BY <1>1, <2>3, <2>6, SettledInside
  <2>8. g = f
    BY <1>5, <2>3, <2>7, FigureIsOne
  <2> QED BY <2>6, <2>8
<1>6. ASSUME NEW f, IsFigure(s, f), f.from < m PROVE IsFigure(settles, f)
  BY <1>3, <1>4, <1>5, <1>6, WholeInside
<1> QED BY <1>1, <1>3, <1>4, <1>5, <1>6 DEF p

(* An amount does not depend on what follows.                              *)
LEMMA SameAmount ==
  ASSUME NEW s \in Seq(Character), NEW p, BeginsAs(p, s), NEW f, IsFigure(s, f), f.to <= Len(p)
  PROVE  Amount(p, f) = Amount(s, f)
<1>1. p \in Seq(Character) /\ Len(p) \in Nat /\ Len(s) \in Nat /\ Len(p) <= Len(s)
      /\ \A i \in 1..Len(p) : p[i] = s[i]
  BY DEF BeginsAs
<1>2. /\ f.from \in 1..Len(s) /\ f.digits \in 1..Len(s) /\ f.to \in 1..Len(s)
      /\ f.from < f.digits /\ f.digits <= f.to
  BY FigureShape
<1>3. ASSUME NEW a \in Nat, a > 0, NEW b \in Nat, b <= f.to
      PROVE  SubSeq(p, a, b) = SubSeq(s, a, b)
  <2>1. \A i \in a..b : p[i] \in Character /\ s[i] \in Character /\ p[i] = s[i]
    BY <1>1, <1>2, <1>3
  <2>2. /\ SubSeq(p, a, b) \in Seq(Character) /\ SubSeq(s, a, b) \in Seq(Character)
        /\ Len(SubSeq(p, a, b)) = IF a <= b THEN b - a + 1 ELSE 0
        /\ Len(SubSeq(s, a, b)) = IF a <= b THEN b - a + 1 ELSE 0
        /\ \A i \in 1..b - a + 1 : SubSeq(p, a, b)[i] = p[a + i - 1]
        /\ \A i \in 1..b - a + 1 : SubSeq(s, a, b)[i] = s[a + i - 1]
    BY <2>1, SubSeqProperties
  <2>3. \A i \in 1..Len(SubSeq(p, a, b)) : SubSeq(p, a, b)[i] = SubSeq(s, a, b)[i]
    <3> SUFFICES ASSUME NEW i \in 1..Len(SubSeq(p, a, b))
                 PROVE  SubSeq(p, a, b)[i] = SubSeq(s, a, b)[i]
      OBVIOUS
    <3>1. a <= b /\ i \in 1..b - a + 1 /\ a + i - 1 \in a..b
      BY <1>3, <2>2
    <3> QED BY <2>1, <2>2, <3>1
  <2>4. Len(SubSeq(p, a, b)) = Len(SubSeq(s, a, b))
    BY <2>2
  <2> QED BY <2>2, <2>3, <2>4, SeqEqual
<1>4. Whole(p, f) = Whole(s, f)
  <2>1. f.from + 1 \in Nat /\ f.from + 1 > 0 /\ f.digits \in Nat /\ f.digits <= f.to
    BY <1>2
  <2>2. SubSeq(p, f.from + 1, f.digits) = SubSeq(s, f.from + 1, f.digits)
    BY <1>3, <2>1
  <2> QED BY <2>2 DEF Whole
<1>5. Cents(p, f) = Cents(s, f)
  <2>1. p[f.to] = s[f.to]
    BY <1>1, <1>2
  <2>2. SubSeq(p, f.digits + 2, f.to) = SubSeq(s, f.digits + 2, f.to)
    <3>1. f.digits + 2 \in Nat /\ f.digits + 2 > 0 /\ f.to \in Nat /\ f.to <= f.to
      BY <1>2
    <3> QED BY <1>3, <3>1
  <2> QED BY <2>1, <2>2 DEF Cents
<1> QED BY <1>4, <1>5 DEF Amount

-----------------------------------------------------------------------------
(* The reply as it is typed.                                               *)

(* What has been shown is the settled part of something that did not trip, *)
(* and what tripped was a beginning of the reply.                          *)
Read(n) == settledPrefix(SubSeq(prose, 1, n))

Streamed ==
  /\ prose \in Seq(Character) /\ typed \in 0..Len(prose)
  /\ call = "idle" => typed = 0 /\ emitted = 0
  /\ call = "streaming" =>
       \/ emitted = 0
       \/ \E n \in 0..Len(prose) : emitted = Len(Read(n)) /\ ~Trips(SubSeq(prose, 1, n))
  /\ call = "tripped" => \E n \in 0..Len(prose) : Trips(SubSeq(prose, 1, n))

LEMMA StreamedStart == FiguresInit => Streamed
BY DEF FiguresInit, Streamed

LEMMA StreamedStep == Streamed /\ [FiguresNext]_figureVars => Streamed'
<1> SUFFICES ASSUME Streamed, [FiguresNext]_figureVars PROVE Streamed'
  OBVIOUS
<1>1. CASE CallModel
  <2>1. prose' \in Seq(Character) /\ call' = "streaming" /\ typed' = typed /\ emitted' = emitted
        /\ typed = 0 /\ emitted = 0
    BY <1>1, FiguresAssumption, ProseIsText DEF CallModel, Streamed
  <2>2. 0 \in 0..Len(prose')
    BY <2>1
  <2> QED BY <2>1, <2>2 DEF Streamed
<1>2. CASE Types
  <2>1. call = "streaming" /\ prose' = prose /\ results' = results /\ prose \in Seq(Character)
        /\ typed \in 0..Len(prose)
    BY <1>2 DEF Types, Given, Streamed
  <2>2. PICK n \in typed + 1..Len(prose) :
          /\ typed' = n
          /\ IF Trips(SubSeq(prose, 1, n)) THEN call' = "tripped" /\ UNCHANGED emitted
             ELSE call' = call /\ emitted' = Max({emitted, Len(Read(n))})
    BY <1>2 DEF Types, Read
  <2>3. n \in 0..Len(prose)
    BY <2>1, <2>2
  <2>4. \A k : Trips(SubSeq(prose, 1, k))' = Trips(SubSeq(prose, 1, k)) /\ Read(k)' = Read(k)
    BY <2>1 DEF Trips, Read
  <2>5. CASE Trips(SubSeq(prose, 1, n))
    BY <2>1, <2>2, <2>3, <2>4, <2>5 DEF Streamed
  <2>6. CASE ~Trips(SubSeq(prose, 1, n))
    <3>1. Len(Read(n)) \in Nat
      BY <2>1, <2>3, SettledIsWhole DEF Read, BeginsAs
    <3>2. emitted \in Nat
      <4>1. \A k \in 0..Len(prose) : Len(Read(k)) \in Nat
        BY <2>1, SettledIsWhole DEF Read, BeginsAs
      <4> QED BY <2>1, <4>1 DEF Streamed
    <3>3. emitted' \in {emitted, Len(Read(n))}
      BY <2>2, <2>6, <3>1, <3>2 DEF Max
    <3>4. call' = "streaming" /\ typed' \in 0..Len(prose')
      BY <2>1, <2>2, <2>3, <2>6
    <3>5. \/ emitted' = 0
          \/ \E k \in 0..Len(prose) : emitted' = Len(Read(k)) /\ ~Trips(SubSeq(prose, 1, k))
      BY <2>1, <2>3, <2>6, <3>3 DEF Streamed
    <3> QED BY <2>1, <2>4, <3>4, <3>5 DEF Streamed
  <2> QED BY <2>5, <2>6
<1>3. CASE ReplyEnds
  BY <1>3 DEF ReplyEnds, Given, Streamed
<1>4. CASE Judge
  BY <1>4 DEF Judge, Given, Streamed
<1>5. CASE UNCHANGED figureVars
  BY <1>5 DEF figureVars, Streamed, Read, Trips
<1> QED BY <1>1, <1>2, <1>3, <1>4, <1>5 DEF FiguresNext

(* The figures of the settled part are the reply's own.                    *)
LEMMA OwnFigures ==
  ASSUME prose \in Seq(Character), NEW n \in 0..Len(prose)
  PROVE  /\ \A f \in Written(Read(n)) : f \in Written(prose) /\ Amount(Read(n), f) = Amount(prose, f)
         /\ \A f \in Written(prose) : f.from < Len(Read(n)) =>
              f.to <= Len(Read(n)) /\ f \in Written(Read(n))
<1>1. /\ BeginsAs(Read(n), prose)
      /\ \A f : IsFigure(prose, f) /\ f.from < Len(Read(n)) =>
           f.to <= Len(Read(n)) /\ IsFigure(Read(n), f)
  BY SettledIsWhole DEF Read
<1>2. Read(n) \in Seq(Character) /\ Len(Read(n)) \in Nat /\ Len(prose) \in Nat /\ Len(Read(n)) <= Len(prose)
      /\ \A i \in 1..Len(Read(n)) : Read(n)[i] = prose[i]
  BY <1>1 DEF BeginsAs
<1>3. ASSUME NEW f \in Written(Read(n))
      PROVE  f \in Written(prose) /\ Amount(Read(n), f) = Amount(prose, f)
  <2>1. IsFigure(Read(n), f)
    BY <1>2, FiguresAre
  <2>2. f.from \in 1..Len(Read(n)) - 1 /\ Read(n)[f.from] = "$" /\ IsDigit(Read(n)[f.from + 1])
    BY <2>1 DEF IsFigure, Starts
  <2>3. f.from + 1 \in 1..Len(Read(n)) /\ f.from \in 1..Len(Read(n)) /\ f.from \in 1..Len(prose) - 1
    BY <1>2, <2>2
  <2>4. Starts(prose, f.from)
    BY <1>2, <2>2, <2>3 DEF Starts
  <2>5. PICK g : IsFigure(prose, g) /\ g.from = f.from
    BY <2>4, FigureThere
  <2>6. g.to <= Len(Read(n)) /\ IsFigure(Read(n), g)
    BY <1>1, <1>2, <2>2, <2>5
  <2>7. f = g
    BY <1>2, <2>1, <2>5, <2>6, FigureIsOne
  <2>8. Amount(Read(n), f) = Amount(prose, f)
    BY <1>1, <2>5, <2>6, <2>7, SameAmount
  <2> QED BY <2>5, <2>7, <2>8, FiguresAre
<1>4. ASSUME NEW f \in Written(prose), f.from < Len(Read(n))
      PROVE  f.to <= Len(Read(n)) /\ f \in Written(Read(n))
  <2>1. IsFigure(prose, f)
    BY FiguresAre
  <2>2. f.to <= Len(Read(n)) /\ IsFigure(Read(n), f)
    BY <1>1, <1>4, <2>1
  <2> QED BY <1>2, <2>2, FiguresAre
<1> QED BY <1>3, <1>4

(* The sentences that are complete are the reply up to a stop, or nothing. *)
LEMMA SentencesEnd ==
  ASSUME prose \in Seq(Character), NEW n \in 0..Len(prose)
  PROVE  \/ completedSentences(Read(n)) = <<>>
         \/ \E i \in DOMAIN prose :
              prose[i] = "." /\ completedSentences(Read(n)) = SubSeq(prose, 1, i)
<1> DEFINE s == Read(n)
           T == {0} \cup {i \in DOMAIN s : s[i] = "."}
<1>1. s \in Seq(Character) /\ BeginsAs(s, prose)
  BY SettledIsWhole DEF Read, BeginsAs
<1>2. Len(s) \in Nat /\ Len(prose) \in Nat /\ Len(s) <= Len(prose)
      /\ \A i \in 1..Len(s) : s[i] = prose[i]
  BY <1>1 DEF BeginsAs
<1>3. PICK m : m = Max(T) /\ completedSentences(s) = SubSeq(s, 1, m)
  BY DEF completedSentences
<1> HIDE DEF s
<1>4. T \in SUBSET (0..Len(s)) /\ T # {}
  BY <1>1, <1>2
<1>5. m \in T
  BY <1>2, <1>3, <1>4, Greatest
<1>6. CASE m = 0
  <2>1. SubSeq(s, 1, 0) = <<>>
    BY SubSeqEmpty
  <2> QED BY <1>3, <1>6, <2>1 DEF s
<1>7. CASE m # 0
  <2>1. m \in 1..Len(s) /\ s[m] = "."
    BY <1>1, <1>5, <1>7
  <2>2. m \in DOMAIN prose /\ prose[m] = "."
    BY <1>2, <2>1
  <2>3. SubSeq(s, 1, m) = SubSeq(prose, 1, m)
    <3>1. BeginsAs(SubSeq(s, 1, m), s) /\ Len(SubSeq(s, 1, m)) = m
      BY <1>1, <2>1, Beginning
    <3>2. BeginsAs(SubSeq(prose, 1, m), prose) /\ Len(SubSeq(prose, 1, m)) = m
      BY <1>2, <2>1, Beginning
    <3>3. \A i \in 1..m : SubSeq(s, 1, m)[i] = SubSeq(prose, 1, m)[i]
      BY <1>2, <2>1, <3>1, <3>2 DEF BeginsAs
    <3>4. SubSeq(s, 1, m) \in Seq(Character) /\ SubSeq(prose, 1, m) \in Seq(Character)
      BY <3>1, <3>2 DEF BeginsAs
    <3> QED BY <3>1, <3>2, <3>3, <3>4, SeqEqual
  <2> QED BY <1>3, <2>2, <2>3 DEF s
<1> QED BY <1>6, <1>7

(* No digit of a figure is shown before all of it is known to be borne     *)
(* out, and what trips is in the reply: for any reply, results and deltas. *)
THEOREM TripwireStaysExact == FiguresSpec => []TripwireIsExact
<1>1. ASSUME Streamed PROVE TripwireIsExact
  <2>1. prose \in Seq(Character)
    BY <1>1 DEF Streamed
  <2>2. ASSUME call = "streaming", NEW f \in Written(prose), emitted > f.from
        PROVE  emitted >= f.to /\ isDerivable(Amount(prose, f), Money(results))
    <3>1. f.from \in 1..Len(prose)
      BY <2>1, FiguresAre, FigureShape
    <3>2. PICK n \in 0..Len(prose) : emitted = Len(Read(n)) /\ ~Trips(SubSeq(prose, 1, n))
      BY <1>1, <2>2, <3>1 DEF Streamed
    <3>3. Len(Read(n)) \in Nat
      BY <2>1, SettledIsWhole DEF Read, BeginsAs
    <3>4. f.to <= Len(Read(n)) /\ f \in Written(Read(n)) /\ Amount(Read(n), f) = Amount(prose, f)
      BY <2>1, <2>2, <3>1, <3>2, <3>3, OwnFigures
    <3>5. Amount(Read(n), f) \in extractMoneyFromText(Read(n))
      BY <3>4 DEF extractMoneyFromText
    <3>6. isDerivable(Amount(prose, f), Money(results))
      BY <3>2, <3>4, <3>5 DEF Trips, Read
    <3>7. f.to \in 1..Len(prose)
      BY <2>1, FiguresAre, FigureShape
    <3> QED BY <3>2, <3>3, <3>4, <3>6, <3>7
  <2>3. ASSUME call = "tripped"
        PROVE  \/ \E f \in Written(prose) : ~isDerivable(Amount(prose, f), Money(results))
               \/ \E i \in DOMAIN prose :
                    /\ prose[i] = "."
                    /\ Contradicts(detectStock(SubSeq(prose, 1, i), Names(results)), Available(results), FALSE)
    <3>1. PICK n \in 0..Len(prose) : Trips(SubSeq(prose, 1, n))
      BY <1>1, <2>3 DEF Streamed
    <3>2. CASE \E v \in extractMoneyFromText(Read(n)) : ~isDerivable(v, Money(results))
      <4>1. PICK f \in Written(Read(n)) : ~isDerivable(Amount(Read(n), f), Money(results))
        BY <3>2 DEF extractMoneyFromText
      <4> QED BY <2>1, <4>1, OwnFigures
    <3>3. CASE Contradicts(detectStock(completedSentences(Read(n)), Names(results)), Available(results), FALSE)
      <4>1. completedSentences(Read(n)) # <<>>
        <5>1. ASSUME NEW named PROVE detectStock(<<>>, named) = "nothing"
          BY DEF detectStock, Range
        <5> QED BY <3>3, <5>1 DEF Contradicts
      <4> QED BY <2>1, <3>3, <4>1, SentencesEnd
    <3> QED BY <3>1, <3>2, <3>3 DEF Trips, Read
  <2> QED BY <2>2, <2>3 DEF TripwireIsExact
<1> QED BY <1>1, StreamedStart, StreamedStep, PTL DEF FiguresSpec

-----------------------------------------------------------------------------
(* Functions that are defined by recursion over an interval.               *)
Recurs(f, T, base, step, n) ==
  f \in [0..n -> T] /\ \A k \in 0..n : f[k] = IF k = 0 THEN base ELSE step[<<k, f[k - 1]>>]

LEMMA RecursionIsDefined ==
  ASSUME NEW T, NEW base \in T, NEW n \in Nat, NEW step \in [(1..n) \X T -> T]
  PROVE  \E f : Recurs(f, T, base, step, n)
<1> DEFINE Bad == {m \in 0..n : ~ \E f : Recurs(f, T, base, step, m)}
<1>1. SUFFICES ASSUME Bad # {} PROVE FALSE
  OBVIOUS
<1>2. PICK m \in Bad : \A i \in Bad : m <= i
  <2>1. Bad \in SUBSET Nat
    OBVIOUS
  <2> QED BY <1>1, <2>1, Smallest
<1>3. CASE m = 0
  <2> DEFINE f == [k \in 0..0 |-> base]
  <2>1. Recurs(f, T, base, step, 0)
    BY DEF Recurs
  <2> QED BY <1>2, <1>3, <2>1
<1>4. CASE m # 0
  <2>1. m \in 1..n /\ m - 1 \in 0..n /\ m - 1 \notin Bad
    BY <1>2, <1>4
  <2>2. PICK f : Recurs(f, T, base, step, m - 1)
    BY <2>1
  <2> DEFINE g == [k \in 0..m |-> IF k = m THEN step[<<m, f[m - 1]>>] ELSE f[k]]
  <2>3. f \in [0..m - 1 -> T] /\ \A k \in 0..m - 1 : f[k] = IF k = 0 THEN base ELSE step[<<k, f[k - 1]>>]
    BY <2>2 DEF Recurs
  <2>4. step[<<m, f[m - 1]>>] \in T
    BY <2>1, <2>3
  <2>5. g \in [0..m -> T]
    BY <2>1, <2>3, <2>4
  <2>6. \A k \in 0..m : g[k] = IF k = 0 THEN base ELSE step[<<k, g[k - 1]>>]
    <3>1. TAKE k \in 0..m
    <3>2. CASE k = m
      BY <1>4, <2>1, <3>2
    <3>3. CASE k # m
      <4>1. k \in 0..m - 1 /\ (k # 0 => k - 1 \in 0..m /\ k - 1 # m)
        BY <2>1, <3>3
      <4> QED BY <2>3, <3>3, <4>1
    <3> QED BY <3>2, <3>3
  <2> HIDE DEF g
  <2>7. Recurs(g, T, base, step, m)
    BY <2>5, <2>6 DEF Recurs
  <2> QED BY <1>2, <2>7
<1> QED BY <1>3, <1>4

(* A row of digits is a number.                                            *)
LEMMA NumberIs ==
  ASSUME NEW s, Len(s) \in Nat, \A i \in 1..Len(s) : IsDigit(s[i])
  PROVE  \E n \in [0..Len(s) -> Nat] :
           /\ Number(s) = n[Len(s)]
           /\ \A k \in 0..Len(s) : n[k] = IF k = 0 THEN 0 ELSE 10 * n[k - 1] + Digit[s[k]]
<1> DEFINE L == Len(s)
           step == [kv \in (1..L) \X Nat |-> 10 * kv[2] + Digit[s[kv[1]]]]
           is(n) == n = [k \in 0..L |-> IF k = 0 THEN 0 ELSE 10 * n[k - 1] + Digit[s[k]]]
           number == CHOOSE n : is(n)
<1>1. \A i \in 1..L : Digit[s[i]] \in 0..9
  BY CharactersDiffer DEF DigitsAre
<1>2. step \in [(1..L) \X Nat -> Nat]
  <2>1. \A kv \in (1..L) \X Nat : 10 * kv[2] + Digit[s[kv[1]]] \in Nat
    BY <1>1
  <2> QED BY <2>1
<1>3. PICK f : Recurs(f, Nat, 0, step, L)
  <2>1. L \in Nat /\ 0 \in Nat
    OBVIOUS
  <2> HIDE DEF step, L
  <2> QED BY <1>2, <2>1, RecursionIsDefined
<1>4. is(f)
  <2>1. f \in [0..L -> Nat] /\ \A k \in 0..L : f[k] = IF k = 0 THEN 0 ELSE step[<<k, f[k - 1]>>]
    BY <1>3 DEF Recurs
  <2>2. \A k \in 0..L : f[k] = IF k = 0 THEN 0 ELSE 10 * f[k - 1] + Digit[s[k]]
    <3> SUFFICES ASSUME NEW k \in 0..L, k # 0 PROVE f[k] = 10 * f[k - 1] + Digit[s[k]]
      BY <2>1
    <3>1. <<k, f[k - 1]>> \in (1..L) \X Nat
      BY <2>1
    <3> QED BY <2>1, <3>1
  <2> QED BY <2>1, <2>2
<1>5. is(number)
  BY <1>4
<1>6. Number(s) = number[L]
  BY DEF Number
<1>7. \A k \in 0..L : number[k] = IF k = 0 THEN 0 ELSE 10 * number[k - 1] + Digit[s[k]]
  BY <1>5
<1>8. number \in [0..L -> Nat]
  <2> HIDE DEF number
  <2> DEFINE Bad == {k \in 0..L : number[k] \notin Nat}
  <2>1. Bad = {}
    <3> SUFFICES ASSUME Bad # {} PROVE FALSE
      OBVIOUS
    <3>1. PICK m \in Bad : \A i \in Bad : m <= i
      <4>1. Bad \in SUBSET Nat
        OBVIOUS
      <4> QED BY <4>1, Smallest
    <3>2. m # 0
      BY <1>7, <3>1
    <3>3. m - 1 \in 0..L /\ m \in 1..L /\ number[m - 1] \in Nat
      BY <3>1, <3>2
    <3>4. 10 * number[m - 1] + Digit[s[m]] \in Nat
      <4>1. Digit[s[m]] \in 0..9
        BY <1>1, <3>3
      <4>2. \A a \in Nat, d \in 0..9 : 10 * a + d \in Nat
        OBVIOUS
      <4> QED BY <3>3, <4>1, <4>2, Zenon
    <3> QED BY <1>7, <3>1, <3>2, <3>4
  <2> QED BY <1>5, <2>1
<1> QED BY <1>6, <1>7, <1>8

(* What is flattened, from the end on.                                     *)
IsTail(H, T, seqs) ==
  /\ H \in [1..Len(seqs) + 1 -> Seq(T)] /\ H[Len(seqs) + 1] = <<>>
  /\ \A k \in 1..Len(seqs) : H[k] = seqs[k] \o H[k + 1]

LEMMA FlattenIs ==
  ASSUME NEW T, NEW seqs \in Seq(Seq(T))
  PROVE  \E H : IsTail(H, T, seqs) /\ FlattenSeq(seqs) = H[1]
<1> DEFINE L == Len(seqs)
<1>1. L \in Nat /\ L = Len(seqs) /\ \A i \in 1..L : seqs[i] \in Seq(T)
  OBVIOUS
<1> HIDE DEF L
<1>2. PICK H : IsTail(H, T, seqs)
  <2> DEFINE step == [kv \in (1..L) \X Seq(T) |-> seqs[L + 1 - kv[1]] \o kv[2]]
  <2>1. step \in [(1..L) \X Seq(T) -> Seq(T)]
    <3>1. \A kv \in (1..L) \X Seq(T) : seqs[L + 1 - kv[1]] \o kv[2] \in Seq(T)
      <4> SUFFICES ASSUME NEW kv \in (1..L) \X Seq(T) PROVE seqs[L + 1 - kv[1]] \o kv[2] \in Seq(T)
        OBVIOUS
      <4>1. kv[2] \in Seq(T) /\ L + 1 - kv[1] \in 1..L
        BY <1>1
      <4> QED BY <1>1, <4>1, ConcatProperties
    <3> QED BY <3>1
  <2>2. PICK f : Recurs(f, Seq(T), <<>>, step, L)
    <3>1. <<>> \in Seq(T)
      OBVIOUS
    <3> HIDE DEF step
    <3> QED BY <1>1, <2>1, <3>1, RecursionIsDefined
  <2>3. /\ f \in [0..L -> Seq(T)]
        /\ f[0] = <<>>
        /\ \A k \in 1..L : f[k] = step[<<k, f[k - 1]>>]
    <3>1. f \in [0..L -> Seq(T)] /\ \A k \in 0..L : f[k] = IF k = 0 THEN <<>> ELSE step[<<k, f[k - 1]>>]
      BY <2>2 DEF Recurs
    <3>2. 0 \in 0..L /\ \A k \in 1..L : k \in 0..L /\ k # 0
      BY <1>1
    <3> HIDE DEF step
    <3> QED BY <3>1, <3>2
  <2> DEFINE H == [k \in 1..L + 1 |-> f[L + 1 - k]]
  <2>4. H \in [1..L + 1 -> Seq(T)]
    <3>1. \A k \in 1..L + 1 : L + 1 - k \in 0..L
      BY <1>1
    <3> QED BY <2>3, <3>1
  <2>5. H[L + 1] = <<>>
    BY <1>1, <2>3
  <2>6. ASSUME NEW k \in 1..L PROVE H[k] = seqs[k] \o H[k + 1]
    <3>1. L + 1 - k \in 1..L /\ (L + 1 - k) - 1 = L + 1 - (k + 1) /\ (L + 1 - k) - 1 \in 0..L
          /\ L + 1 - (L + 1 - k) = k /\ k \in 1..L + 1 /\ k + 1 \in 1..L + 1
      BY <1>1, <2>6
    <3>2. f[L + 1 - k] = step[<<L + 1 - k, f[(L + 1 - k) - 1]>>]
      BY <2>3, <3>1
    <3>3. <<L + 1 - k, f[(L + 1 - k) - 1]>> \in (1..L) \X Seq(T)
      BY <2>3, <3>1
    <3>4. f[L + 1 - k] = seqs[k] \o f[L + 1 - (k + 1)]
      BY <3>1, <3>2, <3>3
    <3> QED BY <3>1, <3>4
  <2> HIDE DEF H
  <2> QED BY <1>1, <2>4, <2>5, <2>6 DEF IsTail
<1>3. H \in [1..L + 1 -> Seq(T)] /\ H[L + 1] = <<>> /\ \A k \in 1..L : H[k] = seqs[k] \o H[k + 1]
  BY <1>1, <1>2 DEF IsTail
<1>4. CASE L = 0
  <2>1. FlattenSeq(seqs) = seqs
    BY <1>1, <1>4, Zenon DEF FlattenSeq
  <2>2. seqs = <<>>
    BY <1>1, <1>4, EmptySeq
  <2> QED BY <1>2, <1>3, <1>4, <2>1, <2>2
<1>5. CASE L # 0
  <2> DEFINE is(n) == n = [i \in 1..L |-> IF i = 1 THEN seqs[i] ELSE n[i - 1] \o seqs[i]]
             flatten == CHOOSE n : is(n)
             step == [kv \in (1..L) \X Seq(T) |-> kv[2] \o seqs[kv[1]]]
  <2>1. FlattenSeq(seqs) = flatten[L]
    BY <1>1, <1>5, Zenon DEF FlattenSeq
  <2>2. step \in [(1..L) \X Seq(T) -> Seq(T)]
    <3>1. \A kv \in (1..L) \X Seq(T) : kv[2] \o seqs[kv[1]] \in Seq(T)
      <4> SUFFICES ASSUME NEW kv \in (1..L) \X Seq(T) PROVE kv[2] \o seqs[kv[1]] \in Seq(T)
        OBVIOUS
      <4>1. kv[2] \in Seq(T) /\ kv[1] \in 1..L
        OBVIOUS
      <4> QED BY <1>1, <4>1, ConcatProperties
    <3> QED BY <3>1
  <2>3. PICK f : Recurs(f, Seq(T), <<>>, step, L)
    <3>1. <<>> \in Seq(T)
      OBVIOUS
    <3> HIDE DEF step
    <3> QED BY <1>1, <2>2, <3>1, RecursionIsDefined
  <2>4. /\ f \in [0..L -> Seq(T)] /\ f[0] = <<>>
        /\ \A k \in 1..L : f[k] = f[k - 1] \o seqs[k]
    <3>1. f \in [0..L -> Seq(T)] /\ \A k \in 0..L : f[k] = IF k = 0 THEN <<>> ELSE step[<<k, f[k - 1]>>]
      BY <2>3 DEF Recurs
    <3>2. 0 \in 0..L /\ \A k \in 1..L : k \in 0..L /\ k # 0 /\ k - 1 \in 0..L
      BY <1>1
    <3>3. f[0] = <<>>
      BY <3>1, <3>2
    <3>4. ASSUME NEW k \in 1..L PROVE f[k] = f[k - 1] \o seqs[k]
      <4>1. f[k] = step[<<k, f[k - 1]>>]
        BY <3>1, <3>2
      <4>2. <<k, f[k - 1]>> \in (1..L) \X Seq(T)
        BY <3>1, <3>2
      <4> QED BY <4>1, <4>2
    <3> QED BY <3>1, <3>3, <3>4
  <2> DEFINE g == [i \in 1..L |-> f[i]]
  <2>5. \A i \in 1..L : g[i] = IF i = 1 THEN seqs[i] ELSE g[i - 1] \o seqs[i]
    <3> SUFFICES ASSUME NEW i \in 1..L PROVE g[i] = IF i = 1 THEN seqs[i] ELSE g[i - 1] \o seqs[i]
      OBVIOUS
    <3>1. f[i] = f[i - 1] \o seqs[i]
      BY <2>4
    <3>2. CASE i = 1
      <4>1. f[i] = <<>> \o seqs[i]
        <5>1. i - 1 = 0 /\ f[0] = <<>>
          BY <2>4, <3>2
        <5> QED BY <3>1, <5>1, Zenon
      <4>2. <<>> \o seqs[i] = seqs[i]
        BY <1>1, ConcatEmptySeq
      <4> QED BY <3>2, <4>1, <4>2
    <3>3. CASE i # 1
      <4>1. i - 1 \in 1..L
        BY <1>1, <3>3
      <4> QED BY <3>1, <3>3, <4>1
    <3> QED BY <3>2, <3>3
  <2>6. is(g)
    <3>1. g = [i \in 1..L |-> g[i]]
      OBVIOUS
    <3> HIDE DEF g
    <3> QED BY <2>5, <3>1
  <2>7. is(flatten)
    BY <2>6
  <2> HIDE DEF flatten, g, step
  <2>8. \A i \in 1..L : flatten[i] = IF i = 1 THEN seqs[i] ELSE flatten[i - 1] \o seqs[i]
    BY <2>7
  <2> DEFINE Fits(i) == flatten[i] \in Seq(T) /\ flatten[i] \o H[i + 1] = H[1]
             Bad == {i \in 1..L : ~Fits(i)}
  <2>9. Bad = {}
    <3>0. SUFFICES ASSUME Bad # {} PROVE FALSE
      OBVIOUS
    <3>1. PICK m \in Bad : \A i \in Bad : m <= i
      <4> HIDE DEF Fits
      <4>1. Bad \in SUBSET Nat
        BY <1>1
      <4> HIDE DEF Bad
      <4> QED BY <3>0, <4>1, Smallest
    <3>2. m \in 1..L /\ ~Fits(m) /\ (m # 1 => m - 1 \in 1..L /\ Fits(m - 1))
      <4> HIDE DEF Fits
      <4>1. m \in 1..L /\ ~Fits(m)
        BY <3>1
      <4>2. m # 1 => m - 1 \in 1..L /\ m - 1 \notin Bad
        <5> HIDE DEF Bad
        <5> QED BY <1>1, <3>1, <4>1
      <4> QED BY <4>1, <4>2
    <3> HIDE DEF Bad
    <3>3. CASE m = 1
      <4>1. flatten[1] = seqs[1] /\ H[1] = seqs[1] \o H[2] /\ seqs[1] \in Seq(T)
        BY <1>1, <1>3, <2>8, <3>2, <3>3
      <4>2. Fits(1)
        BY <4>1
      <4> QED BY <3>2, <3>3, <4>2
    <3>4. CASE m # 1
      <4>1. m \in 1..L /\ m - 1 \in 1..L /\ (m - 1) + 1 = m /\ m + 1 \in 1..L + 1
        BY <1>1, <3>2, <3>4
      <4>2. flatten[m - 1] \in Seq(T) /\ flatten[m - 1] \o H[(m - 1) + 1] = H[1]
        BY <3>2, <3>4, Zenon
      <4>3. flatten[m] = flatten[m - 1] \o seqs[m]
        BY <2>8, <3>4, <4>1, Zenon
      <4>4. H[m] = seqs[m] \o H[m + 1] /\ seqs[m] \in Seq(T) /\ H[m + 1] \in Seq(T)
        BY <1>1, <1>3, <4>1, Zenon
      <4>5. (flatten[m - 1] \o seqs[m]) \o H[m + 1] = flatten[m - 1] \o (seqs[m] \o H[m + 1])
        <5>1. \A a, b, c \in Seq(T) : (a \o b) \o c = a \o (b \o c)
          BY ConcatAssociative
        <5> QED BY <4>2, <4>4, <5>1, Zenon
      <4>6. flatten[m - 1] \o seqs[m] \in Seq(T)
        BY <4>2, <4>4, ConcatProperties, Zenon
      <4>7. flatten[m] \o H[m + 1] = H[1]
        BY <4>1, <4>2, <4>3, <4>4, <4>5, Zenon
      <4>8. Fits(m)
        BY <4>3, <4>6, <4>7, Zenon
      <4> QED BY <3>2, <4>8
    <3> QED BY <3>3, <3>4
  <2>10. Fits(L)
    <3> HIDE DEF Fits
    <3>1. L \in 1..L
      BY <1>1, <1>5
    <3> QED BY <2>9, <3>1
  <2>11. flatten[L] \in Seq(T) /\ flatten[L] \o <<>> = H[1]
    BY <1>3, <2>10, Zenon
  <2>12. flatten[L] = H[1]
    BY <2>11, ConcatEmptySeq, Zenon
  <2> QED BY <1>2, <2>1, <2>12
<1> QED BY <1>4, <1>5

-----------------------------------------------------------------------------
(* A figure that stands elsewhere, with what stands after it, is the same. *)
Moved(f, c) == [from |-> f.from + c, digits |-> f.digits + c, to |-> f.to + c]

LEMMA MovedFigure ==
  ASSUME NEW s \in Seq(Character), NEW t \in Seq(Character), NEW f, IsFigure(s, f), NEW c \in Int,
         f.from + c > 0, \A m \in f.from..f.to + 2 : At(t, m + c) = At(s, m)
  PROVE  IsFigure(t, Moved(f, c)) /\ Amount(t, Moved(f, c)) = Amount(s, f)
<1> DEFINE g == Moved(f, c)
<1>1. /\ f.from \in 1..Len(s) /\ f.digits \in 1..Len(s) /\ f.to \in 1..Len(s)
      /\ f.from < f.digits /\ f.digits <= f.to
      /\ f.to \in {f.digits, f.digits + 2, f.digits + 3}
      /\ \A k \in f.from + 1..f.to : k # f.digits + 1 => IsDigit(s[k])
      /\ f.to # f.digits => s[f.digits + 1] = "."
  BY FigureShape
<1>2. s[f.from] = "$" /\ IsDigit(s[f.from + 1]) /\ Run(s, f.from, f.digits) /\ CentsAre(s, f.digits, f.to)
  BY DEF IsFigure, Starts
<1>3. ~IsDigit("end") /\ ~IsDigit(".") /\ ~IsDigit("$")
  BY CharactersDiffer DEF DigitsAre
<1>4. g.from = f.from + c /\ g.digits = f.digits + c /\ g.to = f.to + c
      /\ g = [from |-> g.from, digits |-> g.digits, to |-> g.to]
  BY DEF Moved
<1> HIDE DEF g
<1>5. Len(s) \in Nat /\ Len(t) \in Nat
  OBVIOUS
<1>6. ASSUME NEW m \in f.from..f.to PROVE m + c \in 1..Len(t) /\ t[m + c] = s[m]
  <2>1. m \in 1..Len(s) /\ m \in f.from..f.to + 2
    BY <1>1, <1>6
  <2>2. At(t, m + c) = s[m] /\ At(s, m) = s[m]
    BY <1>5, <2>1 DEF At
  <2>3. s[m] # "end"
    <3>1. CASE m = f.from
      BY <1>2, <3>1
    <3>2. CASE m = f.digits + 1 /\ f.to # f.digits
      BY <1>1, <3>2
    <3>3. CASE m # f.from /\ ~(m = f.digits + 1 /\ f.to # f.digits)
      <4>1. m \in f.from + 1..f.to /\ m # f.digits + 1
        BY <1>1, <1>6, <3>3
      <4> QED BY <1>1, <1>3, <4>1
    <3> QED BY <3>1, <3>2, <3>3
  <2>4. m + c \in DOMAIN t
    BY <2>2, <2>3 DEF At
  <2> QED BY <2>2, <2>4 DEF At
<1>7. Starts(t, g.from)
  <2>1. f.from \in f.from..f.to /\ f.from + 1 \in f.from..f.to
    BY <1>1
  <2>2. f.from + c \in 1..Len(t) /\ (f.from + 1) + c \in 1..Len(t)
        /\ t[f.from + c] = "$" /\ IsDigit(t[(f.from + 1) + c])
    BY <1>2, <1>6, <2>1
  <2>3. (f.from + 1) + c = (f.from + c) + 1 /\ f.from + c \in 1..Len(t) - 1
    BY <1>1, <1>5, <2>2
  <2> QED BY <1>4, <2>2, <2>3 DEF Starts
<1>8. Run(t, g.from, g.digits)
  <2>1. \A k \in f.from + 1..f.digits : IsDigit(s[k])
    BY <1>1
  <2>2. ASSUME NEW k \in g.from + 1..g.digits PROVE IsDigit(t[k])
    <3>1. k - c \in f.from + 1..f.digits /\ k - c \in f.from..f.to /\ (k - c) + c = k
      BY <1>1, <1>4, <2>2
    <3> QED BY <1>6, <2>1, <3>1
  <2>3. g.digits \in g.from..Len(t)
    <3>1. f.digits \in f.from..f.to
      BY <1>1
    <3> QED BY <1>1, <1>4, <1>6, <3>1
  <2>4. g.digits = Len(t) \/ ~IsDigit(t[g.digits + 1])
    <3>1. f.digits + 1 \in f.from..f.to + 2 /\ (f.digits + 1) + c = g.digits + 1
      BY <1>1, <1>4
    <3>2. At(t, g.digits + 1) = At(s, f.digits + 1)
      BY <3>1
    <3>3. ~IsDigit(At(s, f.digits + 1))
      BY <1>1, <1>2, <1>3 DEF Run, At
    <3>4. g.digits # Len(t) => g.digits + 1 \in DOMAIN t
      BY <1>1, <1>4, <1>5, <2>3
    <3> QED BY <3>2, <3>3, <3>4 DEF At
  <2> QED BY <2>2, <2>3, <2>4 DEF Run
<1>9. CentsAre(t, g.digits, g.to)
  <2>1. f.digits + 1 \in f.from..f.to + 2 /\ f.digits + 2 \in f.from..f.to + 2
        /\ (f.digits + 1) + c = g.digits + 1 /\ (f.digits + 2) + c = g.digits + 2
        /\ (f.digits + 3) + c = g.digits + 3
    <3>1. f.digits \in Int /\ f.from \in Int /\ f.to \in Int /\ f.from < f.digits /\ f.digits <= f.to
      BY <1>1, <1>5
    <3>2. g.digits = f.digits + c
      BY <1>4, Zenon
    <3>3. f.digits + 1 \in f.from..f.to + 2 /\ f.digits + 2 \in f.from..f.to + 2
      BY <3>1
    <3>4. (f.digits + 1) + c = (f.digits + c) + 1 /\ (f.digits + 2) + c = (f.digits + c) + 2
          /\ (f.digits + 3) + c = (f.digits + c) + 3
      BY <3>1
    <3> QED BY <3>2, <3>3, <3>4
  <2>5. f.to # f.digits => f.digits + 3 \in f.from..f.to + 2
    BY <1>1, <1>5
  <2>2. At(t, g.digits + 1) = At(s, f.digits + 1) /\ At(t, g.digits + 2) = At(s, f.digits + 2)
        /\ (f.to # f.digits => At(t, g.digits + 3) = At(s, f.digits + 3))
    BY <2>1, <2>5
  <2>3. CASE f.to = f.digits
    <3>1. ~(At(s, f.digits + 1) = "." /\ IsDigit(At(s, f.digits + 2)))
      BY <1>1, <1>2, <2>3 DEF CentsAre
    <3> QED BY <1>4, <2>2, <2>3, <3>1 DEF CentsAre
  <2>4. CASE f.to # f.digits
    <3>1. At(s, f.digits + 1) = "." /\ IsDigit(At(s, f.digits + 2))
          /\ f.to = IF IsDigit(At(s, f.digits + 3)) THEN f.digits + 3 ELSE f.digits + 2
      BY <1>2, <2>4 DEF CentsAre
    <3>2. g.to = IF IsDigit(At(t, g.digits + 3)) THEN g.digits + 3 ELSE g.digits + 2
      BY <1>1, <1>4, <2>2, <2>4, <3>1
    <3> QED BY <2>2, <2>4, <3>1, <3>2 DEF CentsAre
  <2> QED BY <2>3, <2>4
<1>10. IsFigure(t, g)
  BY <1>4, <1>7, <1>8, <1>9 DEF IsFigure
<1>11. ASSUME NEW a \in Int, a >= f.from, NEW b \in Int, b <= f.to
       PROVE  SubSeq(t, a + c, b + c) = SubSeq(s, a, b)
  <2>1. \A i \in a..b : s[i] \in Character /\ t[i + c] = s[i] /\ t[i + c] \in Character
    <3> SUFFICES ASSUME NEW i \in a..b PROVE s[i] \in Character /\ t[i + c] = s[i] /\ t[i + c] \in Character
      OBVIOUS
    <3>1. i \in f.from..f.to /\ i \in 1..Len(s)
      BY <1>1, <1>11
    <3> QED BY <1>6, <3>1
  <2>2. \A j \in a + c..b + c : t[j] \in Character
    <3> SUFFICES ASSUME NEW j \in a + c..b + c PROVE t[j] \in Character
      OBVIOUS
    <3>1. j - c \in a..b /\ (j - c) + c = j
      BY <1>11
    <3> QED BY <2>1, <3>1
  <2>3. /\ SubSeq(s, a, b) \in Seq(Character)
        /\ Len(SubSeq(s, a, b)) = IF a <= b THEN b - a + 1 ELSE 0
        /\ \A i \in 1..b - a + 1 : SubSeq(s, a, b)[i] = s[a + i - 1]
    BY <2>1, SubSeqProperties
  <2>4. a + c \in Int /\ b + c \in Int
    BY <1>11
  <2>5. /\ SubSeq(t, a + c, b + c) \in Seq(Character)
        /\ Len(SubSeq(t, a + c, b + c)) = IF a + c <= b + c THEN (b + c) - (a + c) + 1 ELSE 0
        /\ \A i \in 1..(b + c) - (a + c) + 1 : SubSeq(t, a + c, b + c)[i] = t[(a + c) + i - 1]
    BY <2>2, <2>4, SubSeqProperties
  <2>6. Len(SubSeq(s, a, b)) = Len(SubSeq(t, a + c, b + c))
    BY <1>11, <2>3, <2>5
  <2>7. ASSUME NEW i \in 1..Len(SubSeq(s, a, b)) PROVE SubSeq(t, a + c, b + c)[i] = SubSeq(s, a, b)[i]
    <3>1. i \in 1..b - a + 1 /\ i \in 1..(b + c) - (a + c) + 1 /\ a + i - 1 \in a..b
          /\ (a + i - 1) + c = (a + c) + i - 1
      BY <1>11, <2>3, <2>7
    <3> QED BY <2>1, <2>3, <2>5, <3>1
  <2> QED BY <2>3, <2>5, <2>6, <2>7, SeqEqual
<1>12. Whole(t, g) = Whole(s, f)
  <2>1. f.from + 1 \in Int /\ f.from + 1 >= f.from /\ f.digits \in Int /\ f.digits <= f.to
        /\ (f.from + 1) + c = g.from + 1
    BY <1>1, <1>4
  <2>2. SubSeq(t, g.from + 1, g.digits) = SubSeq(s, f.from + 1, f.digits)
    BY <1>4, <1>11, <2>1
  <2> QED BY <2>2 DEF Whole
<1>13. Cents(t, g) = Cents(s, f)
  <2>1. t[g.to] = s[f.to]
    <3>1. f.to \in f.from..f.to
      BY <1>1
    <3> QED BY <1>4, <1>6, <3>1
  <2>2. f.digits + 2 \in Int /\ f.digits + 2 >= f.from /\ f.to \in Int /\ f.to <= f.to
        /\ (f.digits + 2) + c = g.digits + 2
    BY <1>1, <1>4
  <2>3. SubSeq(t, g.digits + 2, g.to) = SubSeq(s, f.digits + 2, f.to)
    BY <1>4, <1>11, <2>2
  <2>4. (g.to = g.digits <=> f.to = f.digits) /\ (g.to = g.digits + 2 <=> f.to = f.digits + 2)
    <3>1. f.to \in Int /\ f.digits \in Int /\ c \in Int
      BY <1>1
    <3>2. g.to = f.to + c /\ g.digits = f.digits + c
      BY <1>4
    <3>3. \A x \in Int, y \in Int : x + c = y + c <=> x = y
      BY <3>1
    <3>4. f.digits + c + 2 = (f.digits + 2) + c /\ f.digits + 2 \in Int
      BY <3>1
    <3> QED BY <3>1, <3>2, <3>3, <3>4
  <2> QED BY <2>1, <2>3, <2>4 DEF Cents
<1> QED BY <1>10, <1>12, <1>13 DEF g, Amount

-----------------------------------------------------------------------------
(* The repair of a reply.                                                  *)

(* Every figure of a text has one of these amounts.                        *)
Bears(t, M) == \A g : IsFigure(t, g) => Amount(t, g) \in M

LEMMA AtConcat ==
  ASSUME NEW a \in Seq(Character), NEW u \in Seq(Character)
  PROVE  /\ a \o u \in Seq(Character) /\ Len(a \o u) = Len(a) + Len(u)
         /\ \A m \in 1..Len(a) : At(a \o u, m) = a[m] /\ (a \o u)[m] = a[m]
         /\ \A m \in Nat : m > Len(a) => At(a \o u, m) = At(u, m - Len(a))
<1>1. Len(a) \in Nat /\ Len(u) \in Nat
  OBVIOUS
<1>2. /\ a \o u \in Seq(Character) /\ Len(a \o u) = Len(a) + Len(u)
      /\ \A i \in 1..Len(a) + Len(u) : (a \o u)[i] = IF i <= Len(a) THEN a[i] ELSE u[i - Len(a)]
  BY ConcatProperties
<1> DEFINE t == a \o u
<1>3. t \in Seq(Character) /\ Len(t) = Len(a) + Len(u)
      /\ \A i \in 1..Len(a) + Len(u) : t[i] = IF i <= Len(a) THEN a[i] ELSE u[i - Len(a)]
  BY <1>2
<1> HIDE DEF t
<1>4. ASSUME NEW m \in 1..Len(a) PROVE At(t, m) = a[m] /\ t[m] = a[m]
  <2>1. m \in DOMAIN t /\ m \in 1..Len(a) + Len(u) /\ m <= Len(a)
    BY <1>1, <1>3
  <2> QED BY <1>3, <2>1 DEF At
<1>5. ASSUME NEW m \in Nat, m > Len(a) PROVE At(t, m) = At(u, m - Len(a))
  <2>1. CASE m <= Len(a) + Len(u)
    <3>1. m \in DOMAIN t /\ m \in 1..Len(a) + Len(u) /\ ~(m <= Len(a)) /\ m - Len(a) \in DOMAIN u
      BY <1>1, <1>3, <1>5, <2>1
    <3> QED BY <1>3, <3>1 DEF At
  <2>2. CASE m > Len(a) + Len(u)
    <3>1. m \notin DOMAIN t /\ m - Len(a) \notin DOMAIN u
      BY <1>1, <1>3, <1>5, <2>2
    <3> QED BY <3>1 DEF At
  <2> QED BY <1>1, <2>1, <2>2
<1> QED BY <1>3, <1>4, <1>5 DEF t

(* What is put before a text adds no figure but those that start in it.    *)
LEMMA PutBefore ==
  ASSUME NEW M, NEW a \in Seq(Character), NEW u \in Seq(Character), Bears(u, M),
         \A g : IsFigure(a \o u, g) /\ g.from <= Len(a) => Amount(a \o u, g) \in M
  PROVE  Bears(a \o u, M)
<1> DEFINE t == a \o u
<1>1. t \in Seq(Character) /\ Len(a) \in Nat /\ Len(t) \in Nat
      /\ \A m \in Nat : m > Len(a) => At(t, m) = At(u, m - Len(a))
  BY AtConcat
<1> HIDE DEF t
<1>2. ASSUME NEW g, IsFigure(t, g), g.from > Len(a) PROVE Amount(t, g) \in M
  <2>1. g.from \in 1..Len(t) /\ g.to \in 1..Len(t)
    BY <1>1, <1>2, FigureShape
  <2>2. 0 - Len(a) \in Int /\ g.from + (0 - Len(a)) > 0
    BY <1>1, <1>2, <2>1
  <2>3. \A m \in g.from..g.to + 2 : At(u, m + (0 - Len(a))) = At(t, m)
    <3> SUFFICES ASSUME NEW m \in g.from..g.to + 2 PROVE At(u, m + (0 - Len(a))) = At(t, m)
      OBVIOUS
    <3>1. m \in Nat /\ m > Len(a) /\ m + (0 - Len(a)) = m - Len(a)
      BY <1>1, <1>2, <2>1
    <3> QED BY <1>1, <3>1
  <2>4. IsFigure(u, Moved(g, 0 - Len(a))) /\ Amount(u, Moved(g, 0 - Len(a))) = Amount(t, g)
    BY <1>1, <1>2, <2>2, <2>3, MovedFigure
  <2> QED BY <2>4 DEF Bears
<1>3. ASSUME NEW g, IsFigure(t, g) PROVE g.from <= Len(a) \/ g.from > Len(a)
  BY <1>1, <1>3, FigureShape
<1> QED BY <1>2, <1>3 DEF Bears, t

LEMMA MinOfOne ==
  ASSUME NEW x \in Int
  PROVE  Min({x}) = x
BY DEF Min

(* A figure that is repaired had one price to be, and becomes it.          *)
LEMMA RepairedIs ==
  ASSUME NEW s \in Seq(Character), NEW sources, IsFiniteSet(Range(sources)), Range(sources) \subseteq Nat,
         NEW f \in Repaired(s, sources)
  PROVE  /\ IsFigure(s, f)
         /\ \E x \in Range(sources) :
              /\ x > Whole(s, f) /\ x < Whole(s, f) + 100
              /\ Exact(s, f, Min(Abbreviated(s, f, sources))) = Exact(s, f, x)
<1> DEFINE C == Abbreviated(s, f, sources)
<1>1. IsFigure(s, f) /\ Cardinality(C) = 1
  BY FiguresAre DEF Repaired
<1>2. C \subseteq {x \in Range(sources) : x > Whole(s, f) /\ x < Whole(s, f) + 100}
  BY DEF Abbreviated
<1> HIDE DEF C
<1>3. IsFiniteSet(C)
  <2>1. C \subseteq Range(sources)
    BY <1>2
  <2> QED BY <2>1, FS_Subset
<1>4. \E x : C = {x}
  BY <1>1, <1>3, FS_Singleton
<1>5. PICK x : C = {x}
  BY <1>4
<1>6. x \in Range(sources) /\ x > Whole(s, f) /\ x < Whole(s, f) + 100
  BY <1>2, <1>5
<1>7. Min(C) = x
  BY <1>5, <1>6, MinOfOne
<1> QED BY <1>1, <1>6, <1>7 DEF C

(* A price written out, whatever follows.                                  *)
LEMMA WrittenOut ==
  ASSUME NEW s \in Seq(Character), NEW f, IsFigure(s, f), NEW x \in Nat,
         x > Whole(s, f), x < Whole(s, f) + 100, NEW u \in Seq(Character)
  PROVE  LET e == Exact(s, f, x)
         IN  /\ e \in Seq(Character) /\ Len(e) = f.digits - f.from + 4
             /\ e[1] = s[f.from] /\ e[2] = s[f.from + 1]
             /\ \A g : IsFigure(e \o u, g) /\ g.from <= Len(e) => Amount(e \o u, g) = x
<1> DEFINE n == f.digits - f.from + 1
           d1 == Digits[(x % 100) \div 10 + 1]
           d2 == Digits[(x % 10) + 1]
           p == SubSeq(s, f.from, f.digits)
           c == <<".", d1, d2>>
           e == p \o c
           t == e \o u
<1>1. /\ f.from \in 1..Len(s) /\ f.digits \in 1..Len(s) /\ f.from < f.digits
      /\ s[f.from] = "$" /\ \A k \in f.from + 1..f.digits : IsDigit(s[k])
      /\ Len(s) \in Nat
  <2>1. Run(s, f.from, f.digits) /\ s[f.from] = "$"
    BY DEF IsFigure, Starts
  <2> QED BY <2>1, FigureShape DEF Run
<1>2. n \in Nat /\ n >= 2
  BY <1>1
<1>3. p \in Seq(Character) /\ Len(p) = n /\ \A i \in 1..n : p[i] = s[f.from + i - 1]
  <2>1. f.from \in Int /\ f.digits \in Int /\ \A i \in f.from..f.digits : s[i] \in Character
    BY <1>1
  <2>2. /\ p \in Seq(Character) /\ Len(p) = IF f.from <= f.digits THEN f.digits - f.from + 1 ELSE 0
        /\ \A i \in 1..f.digits - f.from + 1 : p[i] = s[f.from + i - 1]
    BY <2>1, SubSeqProperties
  <2> QED BY <1>1, <2>2
<1>4. \E d \in 0..9, e1 \in 0..9 : d = (x % 100) \div 10 /\ e1 = x % 10 /\ x % 100 = 10 * d + e1
  <2>1. x % 100 \in 0..99 /\ x = 100 * (x \div 100) + (x % 100) /\ x \div 100 \in Nat
    OBVIOUS
  <2>2. \A y \in 0..99 : y \div 10 \in 0..9 /\ y % 10 \in 0..9 /\ y = 10 * (y \div 10) + (y % 10)
    OBVIOUS
  <2>3. \A q \in Nat, y \in 0..99 : x = 100 * q + y => x % 10 = y % 10
    OBVIOUS
  <2>4. x % 10 = (x % 100) % 10
    BY <2>1, <2>3
  <2> QED BY <2>1, <2>2, <2>4
<1>5. IsDigit(d1) /\ IsDigit(d2) /\ Digit[d1] = (x % 100) \div 10 /\ Digit[d2] = x % 10
      /\ ~IsDigit(".") /\ ~IsDigit("$") /\ "." # "$"
  BY <1>4, CharactersDiffer DEF DigitsAre
<1>6. d1 \in Character /\ d2 \in Character /\ "." \in Character
  <2>1. \A n1 \in 0..9 : Digits[n1 + 1] \in Range(Digits)
    <3>1. \A n1 \in 0..9 : n1 + 1 \in DOMAIN Digits
      BY DEF Digits
    <3> QED BY <3>1 DEF Range
  <2> QED BY <1>4, <2>1 DEF Character
<1>7. c \in Seq(Character) /\ Len(c) = 3 /\ c[1] = "." /\ c[2] = d1 /\ c[3] = d2
  BY <1>6
<1> HIDE DEF c, p, n, d1, d2
<1>8. /\ e \in Seq(Character) /\ Len(e) = n + 3
      /\ \A m \in 1..n : e[m] = p[m]
      /\ e[n + 1] = "." /\ e[n + 2] = d1 /\ e[n + 3] = d2
  <2>1. /\ e \in Seq(Character) /\ Len(e) = Len(p) + Len(c)
        /\ \A m \in 1..Len(p) : At(e, m) = p[m] /\ e[m] = p[m]
        /\ \A m \in Nat : m > Len(p) => At(e, m) = At(c, m - Len(p))
    BY <1>3, <1>7, AtConcat
  <2>2. At(e, n + 1) = At(c, 1) /\ At(e, n + 2) = At(c, 2) /\ At(e, n + 3) = At(c, 3)
    <3>1. n + 1 \in Nat /\ n + 2 \in Nat /\ n + 3 \in Nat /\ n + 1 > n /\ n + 2 > n /\ n + 3 > n
          /\ (n + 1) - n = 1 /\ (n + 2) - n = 2 /\ (n + 3) - n = 3
      BY <1>2
    <3>2. \A m \in Nat : m > n => At(e, m) = At(c, m - n)
      BY <1>3, <2>1
    <3> HIDE DEF e
    <3> QED BY <3>1, <3>2
  <2>3. At(c, 1) = "." /\ At(c, 2) = d1 /\ At(c, 3) = d2
    <3>1. 1 \in DOMAIN c /\ 2 \in DOMAIN c /\ 3 \in DOMAIN c
      BY <1>7
    <3> QED BY <1>7, <3>1 DEF At
  <2> HIDE DEF e
  <2>4. Len(e) = n + 3
    BY <1>3, <1>7, <2>1
  <2>5. n + 1 \in DOMAIN e /\ n + 2 \in DOMAIN e /\ n + 3 \in DOMAIN e
    BY <1>2, <2>1, <2>4
  <2>6. At(e, n + 1) = e[n + 1] /\ At(e, n + 2) = e[n + 2] /\ At(e, n + 3) = e[n + 3]
    BY <2>5 DEF At
  <2> QED BY <1>3, <2>1, <2>2, <2>3, <2>4, <2>6
<1>9. e = Exact(s, f, x)
  BY DEF Exact, c, d1, d2, p
<1> HIDE DEF e, t
<1>10. /\ t \in Seq(Character) /\ Len(t) = n + 3 + Len(u) /\ Len(u) \in Nat
       /\ \A m \in 1..n : t[m] = s[f.from + m - 1]
       /\ t[n + 1] = "." /\ t[n + 2] = d1 /\ t[n + 3] = d2
       /\ \A m \in 1..n + 3 : At(t, m) = t[m]
  <2>1. /\ t \in Seq(Character) /\ Len(t) = Len(e) + Len(u)
        /\ \A m \in 1..Len(e) : At(t, m) = e[m] /\ t[m] = e[m]
    BY <1>8, AtConcat DEF t
  <2>2. n + 1 \in 1..n + 3 /\ n + 2 \in 1..n + 3 /\ n + 3 \in 1..n + 3
        /\ \A m \in 1..n : m \in 1..n + 3
    BY <1>2
  <2> HIDE DEF t
  <2>4. Len(u) \in Nat
    OBVIOUS
  <2>5. \A m \in 1..n : t[m] = s[f.from + m - 1]
    BY <1>3, <1>8, <2>1, <2>2
  <2>6. \A m \in 1..n + 3 : t[m] = e[m] /\ At(t, m) = e[m]
    BY <1>8, <2>1
  <2>7. t[n + 1] = e[n + 1] /\ t[n + 2] = e[n + 2] /\ t[n + 3] = e[n + 3]
    BY <2>2, <2>6
  <2>8. t[n + 1] = "." /\ t[n + 2] = d1 /\ t[n + 3] = d2
    BY <1>8, <2>7, Zenon
  <2>9. Len(t) = n + 3 + Len(u)
    BY <1>8, <2>1
  <2> QED BY <2>1, <2>4, <2>5, <2>6, <2>8, <2>9
<1> HIDE DEF t
<1>11. \A m \in 2..n : IsDigit(t[m])
  <2> SUFFICES ASSUME NEW m \in 2..n PROVE IsDigit(t[m])
    OBVIOUS
  <2>1. m \in 1..n /\ f.from + m - 1 \in f.from + 1..f.digits
    BY <1>1, <1>2 DEF n
  <2> QED BY <1>1, <1>10, <2>1
<1>12. t[1] = "$" /\ e[1] = s[f.from] /\ e[2] = s[f.from + 1]
  <2>1. 1 \in 1..n /\ 2 \in 1..n /\ f.from + 1 - 1 = f.from /\ f.from + 2 - 1 = f.from + 1
    BY <1>1, <1>2
  <2> QED BY <1>1, <1>3, <1>8, <1>10, <2>1
<1>13. ASSUME NEW g, IsFigure(t, g), g.from <= Len(e) PROVE Amount(t, g) = x
  <2>1. /\ g.from \in 1..Len(t) /\ g.digits \in 1..Len(t) /\ g.from < g.digits
        /\ t[g.from] = "$"
        /\ \A k \in g.from + 1..g.digits : IsDigit(t[k])
        /\ g.digits = Len(t) \/ ~IsDigit(t[g.digits + 1])
        /\ CentsAre(t, g.digits, g.to)
    <3>1. g.from \in 1..Len(t) /\ g.digits \in 1..Len(t) /\ g.from < g.digits
      BY <1>10, <1>13, FigureShape
    <3> QED BY <1>13, <3>1 DEF IsFigure, Starts, Run
  <2>2. g.from = 1
    <3>1. g.from \in 1..n + 3
      BY <1>8, <1>13, <2>1
    <3>2. ~IsDigit(t[g.from]) /\ t[g.from] # "."
      BY <1>5, <2>1
    <3>3. g.from # n + 1 /\ g.from # n + 2 /\ g.from # n + 3
      BY <1>5, <1>10, <3>2
    <3>4. g.from \notin 2..n
      BY <1>11, <3>2
    <3> QED BY <1>2, <3>1, <3>3, <3>4
  <2>3. g.digits = n
    <3>1. ~(g.digits > n)
      <4>1. g.digits > n => n + 1 \in g.from + 1..g.digits
        BY <1>2, <2>1, <2>2
      <4> QED BY <1>5, <1>10, <2>1, <4>1
    <3>2. ~(g.digits < n)
      <4>1. g.digits < n => g.digits # Len(t) /\ g.digits + 1 \in 2..n
        <5>1. g.digits \in Nat /\ g.digits > 1 /\ Len(t) >= n + 3
          BY <1>2, <1>10, <2>1, <2>2
        <5> QED BY <1>2, <5>1
      <4> QED BY <1>11, <2>1, <4>1
    <3> QED BY <1>2, <2>1, <3>1, <3>2
  <2>4. g.to = n + 3
    <3>1. At(t, n + 1) = "." /\ IsDigit(At(t, n + 2)) /\ IsDigit(At(t, n + 3))
      <4>1. n + 1 \in 1..n + 3 /\ n + 2 \in 1..n + 3 /\ n + 3 \in 1..n + 3
        BY <1>2
      <4> QED BY <1>5, <1>10, <4>1
    <3> QED BY <2>1, <2>3, <3>1 DEF CentsAre
  <2>5. SubSeq(t, 2, n) = SubSeq(s, f.from + 1, f.digits)
    <3> DEFINE r == SubSeq(s, f.from + 1, f.digits)
    <3>1. \A m \in 2..n : t[m] \in Character
      BY <1>2, <1>10
    <3>2. /\ SubSeq(t, 2, n) \in Seq(Character)
          /\ Len(SubSeq(t, 2, n)) = n - 1
          /\ \A i \in 1..n - 1 : SubSeq(t, 2, n)[i] = t[2 + i - 1]
      BY <1>2, <3>1, SubSeqProperties
    <3>3. \A m \in f.from + 1..f.digits : s[m] \in Character
      BY <1>1
    <3>4. f.digits - (f.from + 1) + 1 = n - 1 /\ f.from + 1 <= f.digits /\ f.from + 1 \in Int /\ f.digits \in Int
      <4>1. f.digits \in Int /\ f.from \in Int /\ f.from < f.digits
        BY <1>1
      <4>2. n = f.digits - f.from + 1
        BY DEF n
      <4> QED BY <4>1, <4>2
    <3>5. /\ r \in Seq(Character)
          /\ Len(r) = n - 1
          /\ \A i \in 1..n - 1 : r[i] = s[(f.from + 1) + i - 1]
      <4>1. /\ r \in Seq(Character)
            /\ Len(r) = IF f.from + 1 <= f.digits THEN f.digits - (f.from + 1) + 1 ELSE 0
            /\ \A i \in 1..f.digits - (f.from + 1) + 1 : r[i] = s[(f.from + 1) + i - 1]
        <5> DEFINE a == f.from + 1
                   b == f.digits
        <5>1. a \in Int /\ b \in Int /\ \A m \in a..b : s[m] \in Character
          BY <3>3, <3>4
        <5> HIDE DEF a, b
        <5>2. /\ SubSeq(s, a, b) \in Seq(Character)
              /\ Len(SubSeq(s, a, b)) = IF a <= b THEN b - a + 1 ELSE 0
              /\ \A i \in 1..b - a + 1 : SubSeq(s, a, b)[i] = s[a + i - 1]
          BY <5>1, SubSeqProperties
        <5> QED BY <5>2 DEF a, b
      <4> HIDE DEF r
      <4> QED BY <3>4, <4>1
    <3> DEFINE w == SubSeq(t, 2, n)
    <3>7. w \in Seq(Character) /\ Len(w) = n - 1 /\ \A i \in 1..n - 1 : w[i] = t[2 + i - 1]
      BY <3>2
    <3> HIDE DEF r, w
    <3>6. ASSUME NEW i \in 1..n - 1 PROVE t[2 + i - 1] = s[(f.from + 1) + i - 1]
      <4>1. 2 + i - 1 \in 1..n /\ f.from + (2 + i - 1) - 1 = (f.from + 1) + i - 1
        BY <1>1, <1>2, <3>6
      <4> QED BY <1>10, <4>1
    <3>8. \A i \in 1..Len(w) : w[i] = r[i]
      BY <3>5, <3>6, <3>7
    <3>9. w = r
      BY <3>5, <3>7, <3>8, SeqEqual
    <3> QED BY <3>9 DEF w, r
  <2>6. Whole(t, g) = Whole(s, f)
    <3>1. g.from + 1 = 2
      BY <2>2
    <3> QED BY <2>3, <2>5, <3>1 DEF Whole
  <2> DEFINE q == SubSeq(t, n + 2, n + 3)
  <2>7. q \in Seq(Character) /\ Len(q) = 2 /\ q[1] = d1 /\ q[2] = d2
    <3>1. \A m \in n + 2..n + 3 : t[m] \in Character
      <4>1. \A m \in n + 2..n + 3 : m \in 1..Len(t)
        BY <1>2, <1>10
      <4> QED BY <1>10, <4>1
    <3>2. /\ q \in Seq(Character)
          /\ Len(q) = IF n + 2 <= n + 3 THEN (n + 3) - (n + 2) + 1 ELSE 0
          /\ \A i \in 1..(n + 3) - (n + 2) + 1 : q[i] = t[(n + 2) + i - 1]
      BY <1>2, <3>1, SubSeqProperties
    <3>3. (n + 3) - (n + 2) + 1 = 2 /\ (n + 2) + 1 - 1 = n + 2 /\ (n + 2) + 2 - 1 = n + 3 /\ n + 2 <= n + 3
      BY <1>2
    <3> HIDE DEF q
    <3>4. Len(q) = 2 /\ \A i \in 1..2 : q[i] = t[(n + 2) + i - 1]
      BY <3>2, <3>3
    <3> QED BY <1>10, <3>2, <3>3, <3>4
  <2>8. Number(q) = x % 100
    <3> HIDE DEF q
    <3>1. \A i \in 1..Len(q) : IsDigit(q[i])
      BY <1>5, <2>7
    <3>2. PICK v \in [0..Len(q) -> Nat] :
            /\ Number(q) = v[Len(q)]
            /\ \A k \in 0..Len(q) : v[k] = IF k = 0 THEN 0 ELSE 10 * v[k - 1] + Digit[q[k]]
      <4>1. Len(q) \in Nat
        BY <2>7
      <4> QED BY <3>1, <4>1, NumberIs, Zenon
    <3>3. v[0] = 0 /\ v[1] = 10 * v[0] + Digit[q[1]] /\ v[2] = 10 * v[1] + Digit[q[2]]
      BY <2>7, <3>2
    <3>4. v[1] = (x % 100) \div 10 /\ v[2] = 10 * v[1] + (x % 10)
      BY <1>4, <1>5, <2>7, <3>3
    <3> QED BY <1>4, <2>7, <3>2, <3>4
  <2>9. Cents(t, g) = x % 100
    <3>1. g.to # g.digits /\ g.to # g.digits + 2 /\ g.digits + 2 = n + 2
      BY <1>2, <2>3, <2>4
    <3> QED BY <2>4, <2>8, <3>1 DEF Cents
  <2> DEFINE N == Number(SubSeq(s, f.from + 1, f.digits))
  <2>10. N \in Nat /\ Whole(s, f) = 100 * N
    <3> DEFINE r == SubSeq(s, f.from + 1, f.digits)
    <3>1. Len(r) \in Nat /\ \A i \in 1..Len(r) : IsDigit(r[i])
      <4>1. \A m \in 2..n : t[m] \in Character
        BY <1>2, <1>10
      <4>2. /\ Len(SubSeq(t, 2, n)) = n - 1
            /\ \A i \in 1..n - 1 : SubSeq(t, 2, n)[i] = t[2 + i - 1]
        BY <1>2, <4>1, SubSeqProperties
      <4>3. \A i \in 1..n - 1 : 2 + i - 1 \in 2..n
        BY <1>2
      <4> HIDE DEF r
      <4>4. r = SubSeq(t, 2, n)
        BY <2>5 DEF r
      <4> QED BY <1>2, <1>11, <4>2, <4>3, <4>4
    <3> HIDE DEF r
    <3>2. PICK v \in [0..Len(r) -> Nat] : Number(r) = v[Len(r)]
      BY <3>1, NumberIs
    <3>3. Number(r) \in Nat
      BY <3>1, <3>2
    <3> QED BY <3>3 DEF r, Whole
  <2>11. x % 100 = x - 100 * N
    <3>1. x > 100 * N /\ x < 100 * N + 100
      BY <2>10
    <3> HIDE DEF N
    <3> QED BY <2>10, <3>1
  <2> HIDE DEF N
  <2> QED BY <2>6, <2>9, <2>10, <2>11 DEF Amount
<1> QED
  <2>1. n + 3 = f.digits - f.from + 4
    BY <1>1 DEF n
  <2>2. \A g : IsFigure(e \o u, g) /\ g.from <= Len(e) => Amount(e \o u, g) = x
    BY <1>13 DEF t
  <2> QED BY <1>8, <1>9, <1>12, <2>1, <2>2

-----------------------------------------------------------------------------
(* One source is enough.                                                   *)
LEMMA OneSource ==
  ASSUME NEW sources \in Seq(Nat), NEW v \in Range(sources)
  PROVE  isDerivable(v, sources)
<1>1. PICK i \in DOMAIN sources : v = sources[i]
  BY DEF Range
<1>2. {i} \in SUBSET DOMAIN sources /\ Cardinality({i}) = 1
  BY FS_Singleton
<1>3. v \in Nat
  BY <1>1
<1>4. SumFunctionOnSet(sources, {i}) = v
  <2> DEFINE is(n) == n = [T \in SUBSET {i} |-> IF T = {} THEN 0
                             ELSE LET x == CHOOSE x \in T : TRUE IN sources[x] + n[T \ {x}]]
             sum == CHOOSE n : is(n)
             given == [T \in SUBSET {i} |-> IF T = {} THEN 0 ELSE sources[i]]
  <2>1. SumFunctionOnSet(sources, {i}) = sum[{i}]
    BY Zenon DEF SumFunctionOnSet, FoldFunctionOnSet, MapThenFoldSet
  <2>2. \A T \in SUBSET {i} : T # {} => T = {i} /\ (CHOOSE x \in T : TRUE) = i /\ T \ {i} = {}
    OBVIOUS
  <2>3. \A T \in SUBSET {i} : given[T] = IF T = {} THEN 0
                             ELSE LET x == CHOOSE x \in T : TRUE IN sources[x] + given[T \ {x}]
    <3> SUFFICES ASSUME NEW T \in SUBSET {i}, T # {}
                 PROVE  sources[i] = sources[CHOOSE x \in T : TRUE] + given[T \ {CHOOSE x \in T : TRUE}]
      OBVIOUS
    <3>1. given[{}] = 0 /\ sources[i] \in Nat
      BY <1>1, <1>3
    <3> HIDE DEF given
    <3>2. given[T \ {CHOOSE x \in T : TRUE}] = 0 /\ sources[CHOOSE x \in T : TRUE] = sources[i]
      BY <2>2, <3>1
    <3> QED BY <3>1, <3>2
  <2>4. is(given)
    <3>1. given = [T \in SUBSET {i} |-> given[T]]
      OBVIOUS
    <3> HIDE DEF given
    <3> QED BY <2>3, <3>1
  <2>5. is(sum)
    BY <2>4
  <2> HIDE DEF sum
  <2>6. sum[{i}] = sources[i] + sum[{}] /\ sum[{}] = 0
    BY <2>2, <2>5
  <2> QED BY <1>1, <1>3, <2>1, <2>6
<1> QED BY <1>2, <1>4 DEF isDerivable

(* What the results offer.                                                 *)
LEMMA MoneyIs ==
  ASSUME NEW rs \in Seq(Results)
  PROVE  /\ Money(rs) \in Seq(Nat)
         /\ Len(rs) = 1 => Money(rs) = rs[1].money
<1> DEFINE seqs == [i \in DOMAIN rs |-> rs[i].money]
<1>1. seqs \in Seq(Seq(Nat)) /\ Len(seqs) = Len(rs) /\ \A i \in 1..Len(rs) : seqs[i] = rs[i].money /\ seqs[i] \in Seq(Nat)
  <2>1. \A i \in 1..Len(rs) : rs[i] \in Results /\ rs[i].money \in Seq(Nat)
    <3>1. \A i \in 1..Len(rs) : rs[i] \in Results
      OBVIOUS
    <3>2. \A r \in Results : r.money \in Seq(Nat)
      BY DEF Results
    <3> QED BY <3>1, <3>2
  <2>2. Len(rs) \in Nat /\ DOMAIN rs = 1..Len(rs)
    OBVIOUS
  <2> QED BY <2>1, <2>2
<1>2. Money(rs) = FlattenSeq(seqs)
  BY DEF Money
<1> HIDE DEF seqs
<1>3. PICK H : IsTail(H, Nat, seqs) /\ FlattenSeq(seqs) = H[1]
  BY <1>1, FlattenIs
<1>4. /\ H \in [1..Len(seqs) + 1 -> Seq(Nat)] /\ H[Len(seqs) + 1] = <<>>
      /\ \A k \in 1..Len(seqs) : H[k] = seqs[k] \o H[k + 1]
  BY <1>3 DEF IsTail
<1>5. H[1] \in Seq(Nat)
  <2>1. 1 \in 1..Len(seqs) + 1
    BY <1>1
  <2> QED BY <1>4, <2>1
<1>6. ASSUME Len(rs) = 1 PROVE H[1] = rs[1].money
  <2>1. 1 \in 1..Len(seqs) /\ 1 \in 1..Len(rs) /\ 1 + 1 = Len(seqs) + 1
    BY <1>1, <1>6
  <2>2. H[1] = seqs[1] \o <<>> /\ seqs[1] = rs[1].money /\ seqs[1] \in Seq(Nat)
    BY <1>1, <1>4, <2>1
  <2>3. seqs[1] \o <<>> = seqs[1]
    BY <2>2, ConcatEmptySeq
  <2> QED BY <2>2, <2>3
<1> QED BY <1>2, <1>3, <1>5, <1>6

(* The sources of a repair are those of the results.                       *)
LEMMA SourcesAre ==
  ASSUME NEW m \in Seq(Nat)
  PROVE  LET sources == SetToSeq(Range(m))
         IN  /\ IsFiniteSet(Range(sources)) /\ Range(sources) \subseteq Nat
             /\ Range(sources) \subseteq Range(m)
<1> DEFINE S == Range(m)
           f == SetToSeq(S)
<1>1. S \subseteq Nat
  BY DEF Range
<1>2. IsFiniteSet(S)
  <2>1. DOMAIN m = 1..Len(m) /\ Len(m) \in Nat
    OBVIOUS
  <2>2. IsFiniteSet(1..Len(m))
    BY <2>1, FS_Interval
  <2>3. m \in Surjection(1..Len(m), S)
    BY <2>1 DEF Range, Surjection
  <2> QED BY <2>2, <2>3, FS_Surjection
<1> HIDE DEF S
<1>3. \E g \in [1..Cardinality(S) -> S] : IsInjective(g)
  <2>1. Cardinality(S) \in Nat
    BY <1>2, FS_CardinalityType
  <2>2. IsFiniteSet(1..Cardinality(S)) /\ Cardinality(1..Cardinality(S)) = Cardinality(S)
    BY <2>1, FS_Interval
  <2>3. ExistsBijection(1..Cardinality(S), S)
    BY <1>2, <2>2, FS_SameCardinalityBij
  <2> QED BY <2>3 DEF ExistsBijection, Bijection, Injection, IsInjective
<1>4. f \in [1..Cardinality(S) -> S]
  BY <1>3 DEF SetToSeq
<1>5. Range(f) \subseteq S
  BY <1>4 DEF Range
<1>6. IsFiniteSet(Range(f))
  BY <1>2, <1>5, FS_Subset
<1> QED BY <1>1, <1>5, <1>6 DEF S

-----------------------------------------------------------------------------
(* Where a repaired figure starts, and what it has taken the place of.     *)
Mended(s, sources, i) == \E f \in Repaired(s, sources) : f.from = i
Swallowed(s, sources, i) == \E f \in Repaired(s, sources) : i \in f.from + 1..f.to

(* H is, for each place, what is written from there on.                    *)
Laid(s, sources, H) ==
  /\ H \in [1..Len(s) + 1 -> Seq(Character)] /\ H[Len(s) + 1] = <<>>
  /\ \A k \in 1..Len(s) :
       /\ Mended(s, sources, k) =>
            \E f, x : /\ IsFigure(s, f) /\ f.from = k /\ x \in Range(sources)
                      /\ x > Whole(s, f) /\ x < Whole(s, f) + 100
                      /\ H[k] = Exact(s, f, x) \o H[k + 1]
       /\ ~Mended(s, sources, k) /\ Swallowed(s, sources, k) => H[k] = H[k + 1]
       /\ ~Mended(s, sources, k) /\ ~Swallowed(s, sources, k) => H[k] = <<s[k]>> \o H[k + 1]

LEMMA PieceIs ==
  ASSUME NEW s \in Seq(Character), NEW sources, IsFiniteSet(Range(sources)), Range(sources) \subseteq Nat,
         NEW i \in 1..Len(s)
  PROVE  LET p == Piece(s, sources, Repaired(s, sources), i)
         IN  /\ p \in Seq(Character)
             /\ Mended(s, sources, i) =>
                  \E f, x : /\ IsFigure(s, f) /\ f.from = i /\ x \in Range(sources)
                            /\ x > Whole(s, f) /\ x < Whole(s, f) + 100
                            /\ p = Exact(s, f, x)
             /\ ~Mended(s, sources, i) /\ Swallowed(s, sources, i) => p = <<>>
             /\ ~Mended(s, sources, i) /\ ~Swallowed(s, sources, i) => p = <<s[i]>>
<1> DEFINE R == Repaired(s, sources)
           p == Piece(s, sources, R, i)
<1>1. CASE Mended(s, sources, i)
  <2> DEFINE f == CHOOSE f \in R : f.from = i
  <2>1. f \in R /\ f.from = i
    BY <1>1 DEF Mended
  <2>2. p = Exact(s, f, Min(Abbreviated(s, f, sources)))
    BY <1>1, Zenon DEF Piece, Mended
  <2> HIDE DEF f, p
  <2>3. IsFigure(s, f) /\ \E x \in Range(sources) :
              /\ x > Whole(s, f) /\ x < Whole(s, f) + 100
              /\ Exact(s, f, Min(Abbreviated(s, f, sources))) = Exact(s, f, x)
    BY <2>1, RepairedIs
  <2>4. PICK x \in Range(sources) : x > Whole(s, f) /\ x < Whole(s, f) + 100 /\ p = Exact(s, f, x)
    BY <2>2, <2>3
  <2>5. x \in Nat /\ <<>> \in Seq(Character)
    OBVIOUS
  <2>6. Exact(s, f, x) \in Seq(Character)
    BY <2>3, <2>4, <2>5, WrittenOut
  <2> QED BY <1>1, <2>1, <2>3, <2>4, <2>6 DEF p
<1>2. CASE ~Mended(s, sources, i) /\ Swallowed(s, sources, i)
  BY <1>2 DEF Piece, Mended, Swallowed
<1>3. CASE ~Mended(s, sources, i) /\ ~Swallowed(s, sources, i)
  <2>1. p = <<s[i]>>
    BY <1>3, Zenon DEF Piece, Mended, Swallowed
  <2>2. <<s[i]>> \in Seq(Character)
    OBVIOUS
  <2> HIDE DEF p
  <2> QED BY <1>3, <2>1, <2>2 DEF p
<1> QED BY <1>1, <1>2, <1>3

LEMMA LaidOut ==
  ASSUME NEW s \in Seq(Character), NEW sources, IsFiniteSet(Range(sources)), Range(sources) \subseteq Nat
  PROVE  \E H : Laid(s, sources, H) /\ restoreCents(s, sources) = H[1]
<1> DEFINE seqs == [i \in DOMAIN s |-> Piece(s, sources, Repaired(s, sources), i)]
<1>1. restoreCents(s, sources) = FlattenSeq(seqs)
  BY DEF restoreCents
<1>2. /\ seqs \in Seq(Seq(Character)) /\ Len(seqs) = Len(s)
      /\ \A i \in 1..Len(s) : seqs[i] = Piece(s, sources, Repaired(s, sources), i)
  <2>1. DOMAIN s = 1..Len(s) /\ Len(s) \in Nat
    OBVIOUS
  <2>2. \A i \in 1..Len(s) : Piece(s, sources, Repaired(s, sources), i) \in Seq(Character)
    BY PieceIs
  <2> QED BY <2>1, <2>2
<1> HIDE DEF seqs
<1>3. PICK H : IsTail(H, Character, seqs) /\ FlattenSeq(seqs) = H[1]
  BY <1>2, FlattenIs
<1>4. /\ H \in [1..Len(s) + 1 -> Seq(Character)] /\ H[Len(s) + 1] = <<>>
      /\ \A k \in 1..Len(s) : H[k] = seqs[k] \o H[k + 1]
  BY <1>2, <1>3 DEF IsTail
<1>5. ASSUME NEW k \in 1..Len(s)
      PROVE  /\ Mended(s, sources, k) =>
                  \E f, x : /\ IsFigure(s, f) /\ f.from = k /\ x \in Range(sources)
                            /\ x > Whole(s, f) /\ x < Whole(s, f) + 100
                            /\ H[k] = Exact(s, f, x) \o H[k + 1]
             /\ ~Mended(s, sources, k) /\ Swallowed(s, sources, k) => H[k] = H[k + 1]
             /\ ~Mended(s, sources, k) /\ ~Swallowed(s, sources, k) => H[k] = <<s[k]>> \o H[k + 1]
  <2> DEFINE p == Piece(s, sources, Repaired(s, sources), k)
  <2>1. H[k] = p \o H[k + 1] /\ H[k + 1] \in Seq(Character)
    <3>1. k + 1 \in 1..Len(s) + 1
      OBVIOUS
    <3> QED BY <1>2, <1>4, <3>1
  <2>2. /\ Mended(s, sources, k) =>
             \E f, x : /\ IsFigure(s, f) /\ f.from = k /\ x \in Range(sources)
                       /\ x > Whole(s, f) /\ x < Whole(s, f) + 100
                       /\ p = Exact(s, f, x)
        /\ ~Mended(s, sources, k) /\ Swallowed(s, sources, k) => p = <<>>
        /\ ~Mended(s, sources, k) /\ ~Swallowed(s, sources, k) => p = <<s[k]>>
    BY PieceIs
  <2>3. <<>> \o H[k + 1] = H[k + 1]
    BY <2>1, ConcatEmptySeq
  <2> HIDE DEF p
  <2> QED BY <2>1, <2>2, <2>3, Zenon
<1>6. Laid(s, sources, H)
  BY <1>4, <1>5 DEF Laid
<1> QED BY <1>1, <1>3, <1>6

(* Up to a repaired figure, and for the first two characters of it, what   *)
(* is written is as it was.                                                *)
Agrees(s, sources, H, k) ==
  \A d \in Nat :
    k + d <= Len(s) + 1 /\ (\A j \in k..k + d - 1 : ~Mended(s, sources, j)) =>
      At(H[k], d + 1) = At(s, k + d) /\ At(H[k], d + 2) = At(s, k + d + 1)

LEMMA LaidAgrees ==
  ASSUME NEW s \in Seq(Character), NEW sources, Range(sources) \subseteq Nat, NEW H, Laid(s, sources, H),
         NEW k \in 1..Len(s) + 1, ~Swallowed(s, sources, k)
  PROVE  Agrees(s, sources, H, k)
<1> DEFINE L == Len(s)
           Bad == {j \in 1..L + 1 : ~Swallowed(s, sources, j) /\ ~Agrees(s, sources, H, j)}
<1>1. SUFFICES ASSUME Bad # {} PROVE FALSE
  OBVIOUS
<1>2. PICK m \in Bad : \A j \in Bad : j <= m
  <2>1. L + 1 \in Nat /\ Bad \in SUBSET (0..L + 1)
    OBVIOUS
  <2> HIDE DEF Bad, L
  <2>2. Max(Bad) \in Bad /\ \A j \in Bad : j <= Max(Bad)
    BY <1>1, <2>1, Greatest
  <2> QED BY <2>2
<1>3. m \in 1..L + 1 /\ ~Swallowed(s, sources, m) /\ ~Agrees(s, sources, H, m) /\ L = Len(s) /\ L \in Nat
  OBVIOUS
<1>4. \A j \in m + 1..L + 1 : ~Swallowed(s, sources, j) => Agrees(s, sources, H, j)
  BY <1>2
<1> HIDE DEF Bad, L
<1>5. /\ H \in [1..L + 1 -> Seq(Character)] /\ H[L + 1] = <<>>
      /\ \A i \in 1..L :
           /\ Mended(s, sources, i) =>
                \E f, x : /\ IsFigure(s, f) /\ f.from = i /\ x \in Range(sources)
                          /\ x > Whole(s, f) /\ x < Whole(s, f) + 100
                          /\ H[i] = Exact(s, f, x) \o H[i + 1]
           /\ ~Mended(s, sources, i) /\ ~Swallowed(s, sources, i) => H[i] = <<s[i]>> \o H[i + 1]
  BY <1>3 DEF Laid
<1>6. PICK d \in Nat :
        /\ m + d <= L + 1 /\ \A j \in m..m + d - 1 : ~Mended(s, sources, j)
        /\ ~(At(H[m], d + 1) = At(s, m + d) /\ At(H[m], d + 2) = At(s, m + d + 1))
  BY <1>3 DEF Agrees
<1>7. CASE m = L + 1
  <2>1. d = 0 /\ H[m] = <<>> /\ m + d \notin DOMAIN s /\ m + d + 1 \notin DOMAIN s
    BY <1>3, <1>5, <1>6, <1>7
  <2>2. At(H[m], d + 1) = "end" /\ At(H[m], d + 2) = "end"
    BY <2>1 DEF At
  <2>3. At(s, m + d) = "end" /\ At(s, m + d + 1) = "end"
    BY <2>1 DEF At
  <2> QED BY <1>6, <2>2, <2>3
<1>8. CASE m \in 1..L /\ Mended(s, sources, m)
  <2>1. d = 0
    <3>1. d # 0 => m \in m..m + d - 1
      BY <1>8
    <3> QED BY <1>6, <1>8, <3>1
  <2>2. PICK f, x : /\ IsFigure(s, f) /\ f.from = m /\ x \in Range(sources)
                    /\ x > Whole(s, f) /\ x < Whole(s, f) + 100
                    /\ H[m] = Exact(s, f, x) \o H[m + 1]
    BY <1>5, <1>8
  <2> DEFINE e == Exact(s, f, x)
             u == H[m + 1]
  <2>3. u \in Seq(Character) /\ x \in Nat
    <3>1. m + 1 \in 1..L + 1
      BY <1>3, <1>8
    <3> QED BY <1>5, <2>2, <3>1
  <2>4. /\ e \in Seq(Character) /\ Len(e) = f.digits - f.from + 4
        /\ e[1] = s[m] /\ e[2] = s[m + 1]
    BY <2>2, <2>3, WrittenOut
  <2>5. f.from \in 1..L /\ f.digits \in 1..L /\ f.from < f.digits
    BY <1>3, <2>2, FigureShape
  <2> HIDE DEF e, u
  <2>6. 1 \in 1..Len(e) /\ 2 \in 1..Len(e)
    BY <2>4, <2>5
  <2>7. At(e \o u, 1) = s[m] /\ At(e \o u, 2) = s[m + 1]
    BY <2>3, <2>4, <2>6, AtConcat
  <2>8. At(s, m) = s[m] /\ At(s, m + 1) = s[m + 1]
    <3>1. m \in DOMAIN s /\ m + 1 \in DOMAIN s
      BY <1>3, <2>2, <2>5
    <3> QED BY <3>1 DEF At
  <2>9. H[m] = e \o u
    BY <2>2 DEF e, u
  <2>10. d + 1 = 1 /\ d + 2 = 2 /\ m + d = m /\ m + d + 1 = m + 1
    BY <1>3, <2>1
  <2> QED BY <1>6, <2>7, <2>8, <2>9, <2>10
<1>9. CASE m \in 1..L /\ ~Mended(s, sources, m)
  <2> DEFINE u == H[m + 1]
  <2>1. H[m] = <<s[m]>> \o u /\ u \in Seq(Character) /\ m + 1 \in m + 1..L + 1 /\ m \in DOMAIN s
    <3>1. m + 1 \in 1..L + 1
      BY <1>3, <1>9
    <3> QED BY <1>3, <1>5, <1>9, <3>1
  <2>2. ~Swallowed(s, sources, m + 1)
    <3> SUFFICES ASSUME NEW f \in Repaired(s, sources), m + 1 \in f.from + 1..f.to PROVE FALSE
      BY DEF Swallowed
    <3>1. f.from \in 1..L /\ f.to \in 1..L
      <4>1. IsFigure(s, f)
        BY FiguresAre DEF Repaired
      <4> QED BY <1>3, <4>1, FigureShape
    <3>2. m = f.from \/ m \in f.from + 1..f.to
      BY <1>3, <3>1
    <3> QED BY <1>3, <1>9, <3>2 DEF Mended, Swallowed
  <2>3. Agrees(s, sources, H, m + 1)
    BY <1>4, <2>1, <2>2
  <2>4. <<s[m]>> \in Seq(Character) /\ Len(<<s[m]>>) = 1 /\ <<s[m]>>[1] = s[m]
    BY <2>1
  <2> HIDE DEF u
  <2>5. /\ At(H[m], 1) = s[m]
        /\ \A i \in Nat : i > 1 => At(H[m], i) = At(u, i - 1)
    <3> DEFINE a == <<s[m]>>
    <3>1. a \in Seq(Character) /\ Len(a) = 1 /\ a[1] = s[m]
      BY <2>4
    <3> HIDE DEF a
    <3>2. /\ \A i \in 1..Len(a) : At(a \o u, i) = a[i]
          /\ \A i \in Nat : i > Len(a) => At(a \o u, i) = At(u, i - Len(a))
      BY <2>1, <3>1, AtConcat
    <3>3. H[m] = a \o u
      BY <2>1 DEF a
    <3> QED BY <3>1, <3>2, <3>3
  <2>6. CASE d = 0
    <3>1. At(u, 1) = At(s, m + 1)
      <4>1. At(u, 0 + 1) = At(s, (m + 1) + 0)
        <5>1. 0 \in Nat /\ (m + 1) + 0 <= Len(s) + 1 /\ \A j \in m + 1..(m + 1) + 0 - 1 : ~Mended(s, sources, j)
          BY <1>3, <1>9
        <5> QED BY <2>3, <5>1 DEF Agrees, u
      <4>2. 0 + 1 = 1 /\ (m + 1) + 0 = m + 1
        BY <1>3
      <4> QED BY <4>1, <4>2
    <3>2. At(H[m], 2) = At(u, 1)
      BY <2>5
    <3>3. At(s, m) = s[m]
      BY <2>1 DEF At
    <3>4. d + 1 = 1 /\ d + 2 = 2 /\ m + d = m /\ m + d + 1 = m + 1
      BY <1>3, <2>6
    <3> QED BY <1>6, <2>5, <3>1, <3>2, <3>3, <3>4
  <2>7. CASE d # 0
    <3>1. /\ d - 1 \in Nat /\ (m + 1) + (d - 1) = m + d /\ (m + 1) + (d - 1) <= Len(s) + 1
          /\ \A j \in m + 1..(m + 1) + (d - 1) - 1 : j \in m..m + d - 1
          /\ (d - 1) + 1 = d /\ (d - 1) + 2 = d + 1 /\ (m + 1) + (d - 1) + 1 = m + d + 1
      BY <1>3, <1>6, <2>7
    <3>2. At(u, (d - 1) + 1) = At(s, (m + 1) + (d - 1)) /\ At(u, (d - 1) + 2) = At(s, (m + 1) + (d - 1) + 1)
      BY <1>6, <2>3, <3>1 DEF Agrees, u
    <3>3. At(H[m], d + 1) = At(u, d) /\ At(H[m], d + 2) = At(u, d + 1)
      <4>1. d + 1 \in Nat /\ d + 1 > 1 /\ (d + 1) - 1 = d /\ d + 2 \in Nat /\ d + 2 > 1 /\ (d + 2) - 1 = d + 1
        BY <2>7
      <4> QED BY <2>5, <4>1
    <3> QED BY <1>6, <3>1, <3>2, <3>3
  <2> QED BY <2>6, <2>7
<1> QED BY <1>3, <1>7, <1>8, <1>9

(* So a repair leaves the amounts there were, and prices of the sources.   *)
LEMMA LaidBears ==
  ASSUME NEW s \in Seq(Character), NEW sources, Range(sources) \subseteq Nat, NEW H, Laid(s, sources, H),
         NEW k \in 1..Len(s) + 1
  PROVE  Bears(H[k], extractMoneyFromText(s) \cup Range(sources))
<1> DEFINE L == Len(s)
           M == extractMoneyFromText(s) \cup Range(sources)
           Bad == {j \in 1..L + 1 : ~Bears(H[j], M)}
<1>1. SUFFICES ASSUME Bad # {} PROVE FALSE
  OBVIOUS
<1>2. PICK m \in Bad : \A j \in Bad : j <= m
  <2>1. L + 1 \in Nat /\ Bad \in SUBSET (0..L + 1)
    OBVIOUS
  <2> HIDE DEF Bad, L
  <2>2. Max(Bad) \in Bad /\ \A j \in Bad : j <= Max(Bad)
    BY <1>1, <2>1, Greatest
  <2> QED BY <2>2
<1>3. m \in 1..L + 1 /\ ~Bears(H[m], M) /\ L = Len(s) /\ L \in Nat
  OBVIOUS
<1>4. \A j \in m + 1..L + 1 : Bears(H[j], M)
  <2> SUFFICES ASSUME NEW j \in m + 1..L + 1 PROVE Bears(H[j], M)
    OBVIOUS
  <2>1. j \in 1..L + 1 /\ ~(j <= m)
    BY <1>3
  <2> HIDE DEF M
  <2>2. j \notin Bad
    <3> HIDE DEF Bad
    <3> QED BY <1>2, <2>1
  <2> QED BY <2>1, <2>2
<1>5. (\A f : IsFigure(s, f) => Amount(s, f) \in M) /\ \A x \in Range(sources) : x \in M
  <2>1. \A f : IsFigure(s, f) => f \in Written(s)
    BY FiguresAre
  <2> QED BY <2>1 DEF extractMoneyFromText
<1> HIDE DEF Bad, L, M
<1>6. /\ H \in [1..L + 1 -> Seq(Character)] /\ H[L + 1] = <<>>
      /\ \A i \in 1..L :
           /\ Mended(s, sources, i) =>
                \E f, x : /\ IsFigure(s, f) /\ f.from = i /\ x \in Range(sources)
                          /\ x > Whole(s, f) /\ x < Whole(s, f) + 100
                          /\ H[i] = Exact(s, f, x) \o H[i + 1]
           /\ ~Mended(s, sources, i) /\ Swallowed(s, sources, i) => H[i] = H[i + 1]
           /\ ~Mended(s, sources, i) /\ ~Swallowed(s, sources, i) => H[i] = <<s[i]>> \o H[i + 1]
  BY <1>3 DEF Laid
<1>7. CASE m = L + 1
  <2>1. H[m] = <<>> /\ <<>> \in Seq(Character)
    BY <1>6, <1>7
  <2>2. ASSUME NEW g, IsFigure(<<>>, g) PROVE FALSE
    <3>1. g.from \in 1..Len(<<>>) /\ Len(<<>>) = 0
      BY <2>1, <2>2, FigureShape
    <3> QED BY <3>1
  <2> QED BY <1>3, <2>1, <2>2 DEF Bears
<1> DEFINE u == H[m + 1]
<1>8. m \in 1..L => u \in Seq(Character) /\ Bears(u, M)
  <2>1. m \in 1..L => m + 1 \in 1..L + 1 /\ m + 1 \in m + 1..L + 1
    BY <1>3
  <2> QED BY <1>4, <1>6, <2>1
<1>9. CASE m \in 1..L /\ Mended(s, sources, m)
  <2>1. PICK f, x : /\ IsFigure(s, f) /\ f.from = m /\ x \in Range(sources)
                    /\ x > Whole(s, f) /\ x < Whole(s, f) + 100
                    /\ H[m] = Exact(s, f, x) \o u
    BY <1>6, <1>9
  <2> DEFINE e == Exact(s, f, x)
  <2> HIDE DEF u
  <2>2. x \in Nat /\ x \in M
    BY <1>5, <2>1
  <2>3. /\ e \in Seq(Character)
        /\ \A g : IsFigure(e \o u, g) /\ g.from <= Len(e) => Amount(e \o u, g) = x
    BY <1>8, <1>9, <2>1, <2>2, WrittenOut
  <2>4. H[m] = e \o u
    BY <2>1
  <2> HIDE DEF e
  <2>5. Bears(e \o u, M)
    <3>1. \A g : IsFigure(e \o u, g) /\ g.from <= Len(e) => Amount(e \o u, g) \in M
      BY <2>2, <2>3
    <3> QED BY <1>8, <1>9, <2>3, <3>1, PutBefore
  <2> QED BY <1>3, <2>4, <2>5
<1>10. CASE m \in 1..L /\ ~Mended(s, sources, m) /\ Swallowed(s, sources, m)
  BY <1>3, <1>6, <1>8, <1>10
<1>11. CASE m \in 1..L /\ ~Mended(s, sources, m) /\ ~Swallowed(s, sources, m)
  <2> DEFINE a == <<s[m]>>
  <2>1. H[m] = a \o u
    BY <1>6, <1>11
  <2>2. a \in Seq(Character) /\ Len(a) = 1
    BY <1>3, <1>11
  <2>3. Agrees(s, sources, H, m)
    BY <1>3, <1>11, LaidAgrees
  <2>4. H[m] \in Seq(Character)
    BY <1>3, <1>6
  <2> HIDE DEF a, u
  (* The next figure that is repaired, or the end.                         *)
  <2> DEFINE Q == {j \in m + 1..L + 1 : j = L + 1 \/ Mended(s, sources, j)}
  <2>5. PICK q \in Q : \A j \in Q : q <= j
    <3>1. Q \in SUBSET Nat /\ L + 1 \in Q
      BY <1>3, <1>11
    <3> HIDE DEF Q
    <3> QED BY <3>1, Smallest
  <2>6. q \in m + 1..L + 1 /\ \A j \in m..q - 1 : ~Mended(s, sources, j)
    <3>1. q \in m + 1..L + 1
      OBVIOUS
    <3>2. \A j \in m + 1..q - 1 : ~Mended(s, sources, j)
      <4> SUFFICES ASSUME NEW j \in m + 1..q - 1, Mended(s, sources, j) PROVE FALSE
        OBVIOUS
      <4>1. j \in m + 1..L + 1 /\ ~(q <= j)
        BY <1>3, <3>1
      <4> QED BY <2>5, <4>1
    <3> QED BY <1>3, <1>11, <3>1, <3>2
  <2>7. At(s, q) \in {"$", "end"}
    <3>1. CASE q = L + 1
      <4>1. q \notin DOMAIN s
        BY <1>3, <3>1
      <4> QED BY <4>1 DEF At
    <3>2. CASE Mended(s, sources, q)
      <4>1. PICK f \in Repaired(s, sources) : f.from = q
        BY <3>2 DEF Mended
      <4>2. IsFigure(s, f)
        BY FiguresAre DEF Repaired
      <4>3. s[q] = "$" /\ q \in DOMAIN s
        BY <4>1, <4>2 DEF IsFigure, Starts
      <4> QED BY <4>3 DEF At
    <3> QED BY <2>5, <3>1, <3>2
  <2> HIDE DEF Q
  <2>8. ASSUME NEW i \in 1..(q - m) + 2 PROVE At(s, i + (m - 1)) = At(H[m], i)
    <3>1. CASE i <= (q - m) + 1
      <4>1. /\ i - 1 \in Nat /\ m + (i - 1) <= Len(s) + 1
            /\ \A j \in m..m + (i - 1) - 1 : j \in m..q - 1
            /\ (i - 1) + 1 = i /\ m + (i - 1) = i + (m - 1)
        BY <1>3, <2>6, <3>1
      <4>2. At(H[m], (i - 1) + 1) = At(s, m + (i - 1))
        BY <2>3, <2>6, <4>1 DEF Agrees
      <4> QED BY <4>1, <4>2
    <3>2. CASE i = (q - m) + 2
      <4>1. /\ q - m \in Nat /\ m + (q - m) <= Len(s) + 1
            /\ \A j \in m..m + (q - m) - 1 : j \in m..q - 1
            /\ (q - m) + 2 = i /\ m + (q - m) + 1 = i + (m - 1)
        BY <1>3, <2>6, <3>2
      <4>2. At(H[m], (q - m) + 2) = At(s, m + (q - m) + 1)
        BY <2>3, <2>6, <4>1 DEF Agrees
      <4> QED BY <4>1, <4>2
    <3> QED BY <1>3, <2>6, <3>1, <3>2
  <2>9. ASSUME NEW g, IsFigure(H[m], g), g.from <= 1 PROVE Amount(H[m], g) \in M
    <3>1. /\ g.from = 1 /\ g.digits \in Nat /\ g.to \in 1..Len(H[m]) /\ g.from < g.digits /\ g.digits <= g.to
          /\ \A i \in g.from + 1..g.to : i # g.digits + 1 => IsDigit(H[m][i])
          /\ g.to # g.digits => H[m][g.digits + 1] = "."
          /\ g.to \in {g.digits, g.digits + 2, g.digits + 3}
      <4>1. /\ g.from \in 1..Len(H[m]) /\ g.digits \in 1..Len(H[m]) /\ g.to \in 1..Len(H[m])
            /\ g.from < g.digits /\ g.digits <= g.to
            /\ g.to \in {g.digits, g.digits + 2, g.digits + 3}
            /\ \A i \in g.from + 1..g.to : i # g.digits + 1 => IsDigit(H[m][i])
            /\ g.to # g.digits => H[m][g.digits + 1] = "."
        BY <2>4, <2>9, FigureShape
      <4>2. g.from = 1
        BY <2>9, <4>1
      <4> QED BY <4>1, <4>2
    <3>2. g.to < (q - m) + 1
      <4> SUFFICES ASSUME g.to >= (q - m) + 1 PROVE FALSE
        BY <1>3, <2>6, <3>1
      <4> DEFINE i == (q - m) + 1
      <4>1. i \in 1..(q - m) + 2 /\ i + (m - 1) = q /\ i \in g.from + 1..g.to /\ i \in 1..Len(H[m])
        BY <1>3, <2>6, <3>1
      <4>2. At(H[m], i) \in {"$", "end"}
        BY <2>7, <2>8, <4>1
      <4>3. At(H[m], i) = H[m][i]
        BY <2>4, <4>1 DEF At
      <4> HIDE DEF i
      <4>4. IsDigit(H[m][i]) \/ H[m][i] = "."
        <5>1. i = g.digits + 1 => g.to # g.digits
          BY <3>1, <4>1
        <5> QED BY <3>1, <4>1, <5>1
      <4>5. ~IsDigit("$") /\ ~IsDigit("end") /\ "$" # "." /\ "end" # "."
        BY CharactersDiffer DEF DigitsAre
      <4> QED BY <4>2, <4>3, <4>4, <4>5
    <3>3. m - 1 \in Int /\ g.from + (m - 1) > 0
      BY <1>3, <3>1
    <3>4. \A i \in g.from..g.to + 2 : At(s, i + (m - 1)) = At(H[m], i)
      <4>1. \A i \in g.from..g.to + 2 : i \in 1..(q - m) + 2
        BY <1>3, <2>6, <3>1, <3>2
      <4> QED BY <2>8, <4>1
    <3>5. IsFigure(s, Moved(g, m - 1)) /\ Amount(s, Moved(g, m - 1)) = Amount(H[m], g)
      BY <2>4, <2>9, <3>3, <3>4, MovedFigure
    <3> QED BY <1>5, <3>5
  <2>10. Bears(a \o u, M)
    <3>1. \A g : IsFigure(a \o u, g) /\ g.from <= Len(a) => Amount(a \o u, g) \in M
      BY <2>1, <2>2, <2>9
    <3> QED BY <1>8, <1>11, <2>2, <3>1, PutBefore DEF u
  <2> QED BY <1>3, <2>1, <2>10
<1> QED BY <1>3, <1>7, <1>9, <1>10, <1>11

LEMMA RepairKeepsToSources ==
  ASSUME NEW s \in Seq(Character), NEW sources, IsFiniteSet(Range(sources)), Range(sources) \subseteq Nat
  PROVE  /\ restoreCents(s, sources) \in Seq(Character)
         /\ extractMoneyFromText(restoreCents(s, sources)) \subseteq extractMoneyFromText(s) \cup Range(sources)
<1>1. PICK H : Laid(s, sources, H) /\ restoreCents(s, sources) = H[1]
  BY LaidOut
<1>2. 1 \in 1..Len(s) + 1
  OBVIOUS
<1>3. H[1] \in Seq(Character) /\ Bears(H[1], extractMoneyFromText(s) \cup Range(sources))
  BY <1>1, <1>2, LaidBears DEF Laid
<1>4. \A f \in Written(H[1]) : IsFigure(H[1], f)
  BY <1>3, FiguresAre
<1>5. extractMoneyFromText(H[1]) = {Amount(H[1], f) : f \in Written(H[1])}
  BY DEF extractMoneyFromText
<1> QED BY <1>1, <1>3, <1>4, <1>5 DEF Bears

-----------------------------------------------------------------------------
(* What the judge accepts in a reply, and of the claims.                   *)
Sound(answer) ==
  /\ \A v \in extractMoneyFromText(answer) :
       isDerivable(v, Money(results)) \/ (v \in budget /\ isComparative(answer, v))
  /\ \A c \in claims : c.kind = "price" /\ c.source \in DOMAIN results =>
       \A v \in extractMoneyFromText(c.assertion) : isDerivable(v, Money(<<results[c.source]>>))

LEMMA AcceptedIsSound ==
  ASSUME NEW answer, validateGrounding(answer) = {}
  PROVE  Sound(answer)
<1>1. ASSUME NEW v \in extractMoneyFromText(answer), ~isDerivable(v, Money(results))
      PROVE  v \in budget /\ isComparative(answer, v)
  <2>1. extractMoneyFromText(answer) # {}
    BY <1>1
  <2>2. "uncited_price" \notin validateGrounding(answer) /\ "no_tool_results" \notin validateGrounding(answer)
    OBVIOUS
  <2> DEFINE asserts == extractMoneyFromText(answer) # {} \/ detectStock(answer, Names(results)) # "nothing"
             overall == IF asserts /\ results = <<>> THEN {"no_tool_results"}
                     ELSE {e \in {"uncited_price", "stock_contradicts_source"} :
                            IF e = "uncited_price" THEN Uncited(answer)
                            ELSE Contradicts(detectStock(answer, Names(results)), Available(results), SoldOut(results))}
  <2>3. validateGrounding(answer) = (UNION {ClaimErrors(c) : c \in claims}) \cup overall
    BY DEF validateGrounding
  <2>4. "uncited_price" \notin overall /\ "no_tool_results" \notin overall
    <3> DEFINE others == UNION {ClaimErrors(c) : c \in claims}
    <3>1. validateGrounding(answer) = others \cup overall
      BY <2>3, Zenon
    <3> HIDE DEF overall, others
    <3> QED BY <2>2, <3>1
  <2>5. asserts
    BY <2>1
  <2> HIDE DEF asserts
  <2>6. ~Uncited(answer)
    BY <2>4, <2>5
  <2> QED BY <1>1, <2>6 DEF Uncited
<1>2. ASSUME NEW c \in claims, c.kind = "price", c.source \in DOMAIN results,
             NEW v \in extractMoneyFromText(c.assertion)
      PROVE  isDerivable(v, Money(<<results[c.source]>>))
  <2>1. "price_not_in_source" \notin ClaimErrors(c)
    BY DEF validateGrounding
  <2> QED BY <1>2, <2>1 DEF ClaimErrors
<1> QED BY <1>1, <1>2 DEF Sound

(* What is judged is the reply, its cents restored out of the results.     *)
Judged ==
  /\ prose \in Seq(Character) /\ results \in Seq(Results)
  /\ call = "judged" =>
       /\ judgedReply = restoreCents(prose, SetToSeq(Range(Money(results))))
       /\ verdict = {} => Sound(judgedReply)

LEMMA JudgedStep == Judged /\ [FiguresNext]_figureVars => Judged'
<1> SUFFICES ASSUME Judged, [FiguresNext]_figureVars PROVE Judged'
  OBVIOUS
<1>1. CASE CallModel
  BY <1>1, FiguresAssumption, ProseIsText DEF CallModel, Judged
<1>2. CASE Types
  BY <1>2 DEF Types, Given, Judged
<1>3. CASE ReplyEnds
  BY <1>3 DEF ReplyEnds, Given, Judged
<1>4. CASE Judge
  <2>1. /\ prose' = prose /\ results' = results /\ budget' = budget /\ claims' = claims
        /\ judgedReply' = restoreCents(prose, SetToSeq(Range(Money(results))))
        /\ verdict' = validateGrounding(judgedReply')
    BY <1>4 DEF Judge, Given
  <2>2. verdict' = {} => Sound(judgedReply')
    BY <2>1, AcceptedIsSound
  <2>3. Sound(judgedReply)' <=> Sound(judgedReply')
    BY <2>1 DEF Sound, isComparative
  <2> QED BY <2>1, <2>2, <2>3 DEF Judged
<1>5. CASE UNCHANGED figureVars
  <2>1. Sound(judgedReply)' <=> Sound(judgedReply)
    BY <1>5 DEF figureVars, Sound
  <2> QED BY <1>5, <2>1 DEF figureVars, Judged
<1> QED BY <1>1, <1>2, <1>3, <1>4, <1>5 DEF FiguresNext

(* Grounding: for any reply, results and budget, what was accepted names   *)
(* no figure but those the results bear out and, where it speaks of a      *)
(* limit, the shopper's own; the repair brought in none but prices of the  *)
(* results.                                                                *)
THEOREM AcceptedStaysGrounded == FiguresSpec => []AcceptedIsGrounded
<1>1. FiguresInit => Judged
  BY DEF FiguresInit, Judged
<1>2. Judged => AcceptedIsGrounded
  <2> SUFFICES ASSUME Judged, call = "judged", verdict = {}
               PROVE  /\ \A f \in Written(judgedReply) :
                           \/ isDerivable(Amount(judgedReply, f), Money(results))
                           \/ /\ Amount(judgedReply, f) \in budget
                              /\ Amount(judgedReply, f) \in extractMoneyFromText(prose)
                              /\ \E g \in Written(judgedReply) : At(judgedReply, g.from - 2) = "under"
                      /\ \A c \in claims : c.kind = "price" /\ c.source \in DOMAIN results =>
                           \A v \in extractMoneyFromText(c.assertion) : isDerivable(v, results[c.source].money)
    BY DEF AcceptedIsGrounded
  <2>1. /\ judgedReply = restoreCents(prose, SetToSeq(Range(Money(results))))
        /\ Sound(judgedReply)
        /\ prose \in Seq(Character) /\ results \in Seq(Results)
    BY DEF Judged
  <2>2. Money(results) \in Seq(Nat)
    BY <2>1, MoneyIs
  <2>3. extractMoneyFromText(judgedReply) \subseteq extractMoneyFromText(prose) \cup Range(Money(results))
    <3> DEFINE sources == SetToSeq(Range(Money(results)))
    <3>1. /\ IsFiniteSet(Range(sources)) /\ Range(sources) \subseteq Nat
          /\ Range(sources) \subseteq Range(Money(results))
      BY <2>2, SourcesAre
    <3> HIDE DEF sources
    <3>2. extractMoneyFromText(restoreCents(prose, sources)) \subseteq extractMoneyFromText(prose) \cup Range(sources)
      BY <2>1, <3>1, RepairKeepsToSources
    <3> QED BY <2>1, <3>1, <3>2 DEF sources
  <2>4. ASSUME NEW f \in Written(judgedReply), ~isDerivable(Amount(judgedReply, f), Money(results))
        PROVE  /\ Amount(judgedReply, f) \in budget
               /\ Amount(judgedReply, f) \in extractMoneyFromText(prose)
               /\ \E g \in Written(judgedReply) : At(judgedReply, g.from - 2) = "under"
    <3>1. Amount(judgedReply, f) \in extractMoneyFromText(judgedReply)
      BY DEF extractMoneyFromText
    <3>3. Amount(judgedReply, f) \in budget /\ isComparative(judgedReply, Amount(judgedReply, f))
      BY <2>1, <2>4, <3>1 DEF Sound
    <3>4. Amount(judgedReply, f) \notin Range(Money(results))
      BY <2>2, <2>4, OneSource
    <3> QED BY <2>3, <3>1, <3>3, <3>4 DEF isComparative
  <2>5. ASSUME NEW c \in claims, c.kind = "price", c.source \in DOMAIN results,
               NEW v \in extractMoneyFromText(c.assertion)
        PROVE  isDerivable(v, results[c.source].money)
    <3> DEFINE r == results[c.source]
    <3>2. isDerivable(v, Money(<<r>>))
      BY <2>1, <2>5 DEF Sound
    <3>3. r \in Results
      BY <2>1, <2>5
    <3> HIDE DEF r
    <3>4. <<r>> \in Seq(Results) /\ Len(<<r>>) = 1 /\ <<r>>[1] = r
      BY <3>3
    <3>5. Money(<<r>>) = r.money
      BY <3>4, MoneyIs
    <3> QED BY <3>2, <3>5 DEF r
  <2> QED BY <2>4, <2>5
<1> QED BY <1>1, <1>2, JudgedStep, PTL DEF FiguresSpec

-----------------------------------------------------------------------------
(* What a result puts before the model to quote.                           *)

(* The ends of a finite set of numbers.                                    *)
LEMMA EndsOf ==
  ASSUME NEW T \in SUBSET Nat, IsFiniteSet(T), T # {}
  PROVE  /\ Min(T) \in T /\ Max(T) \in T
         /\ \A n \in T : Min(T) <= n /\ n <= Max(T)
<1>1. PICK m \in T : \A n \in T : m <= n
  BY Smallest
<1>2. Min(T) \in T /\ \A n \in T : Min(T) <= n
  BY <1>1 DEF Min
<1>3. \E x \in T : \A n \in T : x >= n
  <2> DEFINE Bad == {U \in SUBSET T : U # {} /\ ~ \E x \in U : \A n \in U : x >= n}
             Sizes == {Cardinality(U) : U \in Bad}
  <2>1. SUFFICES ASSUME Bad # {} PROVE FALSE
    OBVIOUS
  <2>2. Sizes \in SUBSET Nat /\ Sizes # {}
    <3>1. \A U \in Bad : Cardinality(U) \in Nat
      <4> SUFFICES ASSUME NEW U \in Bad PROVE Cardinality(U) \in Nat
        OBVIOUS
      <4>1. U \subseteq T
        OBVIOUS
      <4> QED BY <4>1, FS_Subset, FS_CardinalityType
    <3> HIDE DEF Bad
    <3> QED BY <2>1, <3>1
  <2>3. PICK s \in Sizes : \A r \in Sizes : s <= r
    <3> HIDE DEF Sizes
    <3> QED BY <2>2, Smallest
  <2>4. PICK U \in Bad : s = Cardinality(U)
    OBVIOUS
  <2>5. U \subseteq T /\ IsFiniteSet(U) /\ U # {} /\ ~ \E x \in U : \A n \in U : x >= n
    BY <2>4, FS_Subset
  <2>6. PICK x \in U : TRUE
    BY <2>5
  <2> DEFINE V == U \ {x}
  <2>7. IsFiniteSet(V) /\ Cardinality(V) = Cardinality(U) - 1 /\ Cardinality(U) \in Nat
    BY <2>5, <2>6, FS_RemoveElement, FS_CardinalityType
  <2>8. V \notin Bad
    <3> SUFFICES ASSUME V \in Bad PROVE FALSE
      OBVIOUS
    <3>1. Cardinality(V) \in Sizes
      OBVIOUS
    <3> HIDE DEF V, Bad, Sizes
    <3> QED BY <2>3, <2>4, <2>7, <3>1
  <2>9. \A n \in U : n \in Nat
    BY <2>5
  <2>10. CASE V = {}
    <3>1. \A n \in U : n = x
      BY <2>10
    <3> QED BY <2>5, <2>6, <2>9, <3>1
  <2>11. CASE V # {}
    <3>1. V \in SUBSET T
      BY <2>5
    <3>2. PICK y \in V : \A n \in V : y >= n
      BY <2>8, <2>11, <3>1
    <3>3. y \in U /\ y \in Nat /\ x \in Nat /\ \A n \in U : n = x \/ y >= n
      BY <2>6, <2>9, <3>2
    <3>4. CASE x >= y
      BY <2>5, <2>6, <2>9, <3>3, <3>4
    <3>5. CASE ~(x >= y)
      BY <2>5, <2>6, <2>9, <3>3, <3>5
    <3> QED BY <3>4, <3>5
  <2> QED BY <2>10, <2>11
<1>4. Max(T) \in T /\ \A n \in T : Max(T) >= n
  BY <1>3 DEF Max
<1> QED BY <1>2, <1>4

(* The values of a finite sequence are finitely many.                      *)
LEMMA FewValues ==
  ASSUME NEW s, NEW S, s \in Seq(S)
  PROVE  /\ IsFiniteSet(Range(s)) /\ IsFiniteSet(DOMAIN s)
         /\ DOMAIN s = 1..Len(s) /\ Len(s) \in Nat /\ Range(s) \subseteq S
<1>1. DOMAIN s = 1..Len(s) /\ Len(s) \in Nat /\ \A i \in DOMAIN s : s[i] \in S
  OBVIOUS
<1>2. IsFiniteSet(1..Len(s))
  BY <1>1, FS_Interval
<1>3. s \in Surjection(1..Len(s), Range(s))
  BY <1>1 DEF Range, Surjection
<1>4. IsFiniteSet(Range(s))
  BY <1>2, <1>3, FS_Surjection
<1> QED BY <1>1, <1>2, <1>4 DEF Range

-----------------------------------------------------------------------------
(* Prices.                                                                 *)

(* What a line says, of the coins it is made of.                           *)
LineIs(p, line) ==
  line # NoFigure /\ LineMoney(p) # {} =>
    /\ line \in Seq(Range(line))
    /\ \A v \in LineMoney(p) :
         /\ line[1].amount <= v.amount /\ v.amount <= line[Len(line)].amount
         /\ \A f \in Range(line) : f.sign = Shown(v).sign
    /\ \A f \in Range(line) : \E v \in LineMoney(p) : Shown(v) = f

LEMMA LineIsTrue ==
  ASSUME NEW p, IsFiniteSet(LineMoney(p)), \A m \in LineMoney(p) : m.amount \in Nat
  PROVE  LineIs(p, withPriceSummary(p))
<1> DEFINE money == LineMoney(p)
           amounts == {m.amount : m \in money}
           Quote(n) == Shown(CHOOSE m \in money : m.amount = n)
           line == withPriceSummary(p)
<1>1. SUFFICES ASSUME line # NoFigure, money # {}
               PROVE  /\ line \in Seq(Range(line))
                      /\ \A v \in money :
                           /\ line[1].amount <= v.amount /\ v.amount <= line[Len(line)].amount
                           /\ \A f \in Range(line) : f.sign = Shown(v).sign
                      /\ \A f \in Range(line) : \E v \in money : Shown(v) = f
  BY DEF LineIs
<1>2. /\ \A m, n \in money : m.currency = n.currency
      /\ line = IF Min(amounts) = Max(amounts) THEN <<Quote(Min(amounts))>>
                ELSE <<Quote(Min(amounts)), Quote(Max(amounts))>>
  BY <1>1, Zenon DEF withPriceSummary
<1>3. /\ Min(amounts) \in amounts /\ Max(amounts) \in amounts
      /\ \A n \in amounts : Min(amounts) <= n /\ n <= Max(amounts)
  <2>1. IsFiniteSet(amounts)
    <3> DEFINE f == [m \in money |-> m.amount]
    <3>1. f \in Surjection(money, amounts)
      BY DEF Surjection
    <3> HIDE DEF f
    <3> QED BY <3>1, FS_Surjection
  <2>2. amounts \in SUBSET Nat /\ amounts # {}
    BY <1>1
  <2> HIDE DEF amounts
  <2> QED BY <2>1, <2>2, EndsOf
<1>4. ASSUME NEW n \in amounts
      PROVE  /\ Quote(n).amount = n
             /\ \A v \in money : Quote(n).sign = Shown(v).sign
             /\ \E v \in money : Shown(v) = Quote(n)
  <2> DEFINE m == CHOOSE m \in money : m.amount = n
  <2>1. m \in money /\ m.amount = n
    <3>1. \E x \in money : x.amount = n
      OBVIOUS
    <3> QED BY <3>1
  <2> HIDE DEF money, m
  <2>2. Shown(m).amount = n /\ \A v \in money : Shown(m).sign = Shown(v).sign
    BY <1>2, <2>1 DEF Shown
  <2> QED BY <2>1, <2>2 DEF m
<1> DEFINE low == Quote(Min(amounts))
           high == Quote(Max(amounts))
<1>5. /\ low.amount = Min(amounts) /\ high.amount = Max(amounts)
      /\ \A v \in money : low.sign = Shown(v).sign /\ high.sign = Shown(v).sign
      /\ \E v \in money : Shown(v) = low
      /\ \E v \in money : Shown(v) = high
  BY <1>3, <1>4
<1>6. line = <<low>> \/ line = <<low, high>>
  BY <1>2
<1>7. line = <<low>> => Min(amounts) = Max(amounts)
  <2>1. <<low>> # <<low, high>>
    <3> HIDE DEF low, high
    <3>1. Len(<<low>>) = 1 /\ Len(<<low, high>>) = 2
      OBVIOUS
    <3> QED BY <3>1
  <2> QED BY <1>2, <2>1
<1>8. \A v \in money : v.amount \in amounts
  OBVIOUS
<1> HIDE DEF line, low, high, amounts, money
<1>9. /\ line \in Seq(Range(line)) /\ Range(line) \subseteq {low, high}
      /\ line[1] = low
      /\ line[Len(line)] = high \/ (Min(amounts) = Max(amounts) /\ line[Len(line)] = low)
  <2>1. CASE line = <<low>>
    BY <1>7, <2>1 DEF Range
  <2>2. CASE line = <<low, high>>
    <3>1. Len(line) = 2 /\ line[1] = low /\ line[2] = high /\ DOMAIN line = 1..2
      BY <2>2
    <3>2. Range(line) = {low, high}
      BY <3>1 DEF Range
    <3>3. line \in Seq({low, high})
      BY <2>2
    <3> QED BY <3>1, <3>2, <3>3
  <2> QED BY <1>6, <2>1, <2>2
<1> QED BY <1>3, <1>5, <1>8, <1>9

(* A displayed coin costs what it did, in its currency.                    *)
LEMMA DisplayedIs ==
  ASSUME NEW c \in Coined
  PROVE  /\ Displayed(c) \in Coined /\ Shown(Displayed(c)) = Shown(c)
         /\ Displayed(c).amount = c.amount /\ (HasPrice(Displayed(c)) <=> HasPrice(c))
<1>1. Shown(c) \in [sign : Sign, amount : Nat]
  <2> DEFINE sign == IF c.currency \in DOMAIN Signs THEN Signs[c.currency] ELSE ""
  <2>1. sign \in Sign
    BY DEF Sign, Range
  <2>2. c.amount \in Nat
    BY DEF Coined
  <2>3. Shown(c) = [sign |-> sign, amount |-> c.amount]
    BY DEF Shown
  <2> HIDE DEF sign
  <2> QED BY <2>1, <2>2, <2>3
<1>2. <<Shown(c)>> \in Seq([sign : Sign, amount : Nat])
  BY <1>1
<1> DEFINE d == [c EXCEPT !.display = <<Shown(c)>>]
<1>3. d \in Coined /\ d.amount = c.amount /\ d.currency = c.currency
  BY <1>2 DEF Coined
<1>4. Displayed(c) = d \/ Displayed(c) = c
  BY DEF Displayed
<1> HIDE DEF d
<1> QED BY <1>3, <1>4 DEF Shown, HasPrice

LEMMA NarrowedIs ==
  ASSUME NEW c \in Coined
  PROVE  /\ Narrowed(c).display = c.display
         /\ Narrowed(c).display # NoFigure /\ HasPrice(Narrowed(c)) => Narrowed(c).amount = Hidden
BY DEF Narrowed, Coined, HasPrice

(* The coins of a product whose every coin is treated.                     *)
LEMMA RangeOfTwo ==
  ASSUME NEW S, NEW s \in Seq(S), NEW t \in Seq(S)
  PROVE  Range(s \o t) = Range(s) \cup Range(t)
<1>1. /\ DOMAIN s = 1..Len(s) /\ DOMAIN t = 1..Len(t) /\ Len(s) \in Nat /\ Len(t) \in Nat
      /\ DOMAIN (s \o t) = 1..Len(s) + Len(t)
      /\ \A i \in 1..Len(s) + Len(t) : (s \o t)[i] = IF i <= Len(s) THEN s[i] ELSE t[i - Len(s)]
  OBVIOUS
<1>2. ASSUME NEW x \in Range(s \o t) PROVE x \in Range(s) \cup Range(t)
  <2>1. PICK i \in 1..Len(s) + Len(t) : x = (s \o t)[i]
    BY <1>1, <1>2 DEF Range
  <2>2. CASE i <= Len(s)
    BY <1>1, <2>1, <2>2 DEF Range
  <2>3. CASE ~(i <= Len(s))
    <3>1. i - Len(s) \in 1..Len(t)
      BY <1>1, <2>1, <2>3
    <3> QED BY <1>1, <2>1, <2>3, <3>1 DEF Range
  <2> QED BY <2>2, <2>3
<1>3. ASSUME NEW x \in Range(s) PROVE x \in Range(s \o t)
  <2>1. PICK i \in 1..Len(s) : x = s[i]
    BY <1>1, <1>3 DEF Range
  <2>2. i \in 1..Len(s) + Len(t) /\ i <= Len(s)
    BY <1>1, <2>1
  <2> QED BY <1>1, <2>1, <2>2 DEF Range
<1>4. ASSUME NEW x \in Range(t) PROVE x \in Range(s \o t)
  <2>1. PICK i \in 1..Len(t) : x = t[i]
    BY <1>1, <1>4 DEF Range
  <2>2. Len(s) + i \in 1..Len(s) + Len(t) /\ ~(Len(s) + i <= Len(s)) /\ (Len(s) + i) - Len(s) = i
    BY <1>1, <2>1
  <2> QED BY <1>1, <2>1, <2>2 DEF Range
<1> QED BY <1>2, <1>3, <1>4

LEMMA ProductIs ==
  ASSUME NEW p \in Priceable
  PROVE  /\ p.variants \in Seq(Coined) /\ p.range \in Seq(Coined)
         /\ Range(Coins(p)) = Range(p.variants) \cup Range(p.range)
         /\ Range(p.variants) \subseteq Coined /\ Range(p.range) \subseteq Coined
         /\ IsFiniteSet(LineMoney(p)) /\ \A m \in LineMoney(p) : m.amount \in Nat
<1>1. p.variants \in Seq(Coined) /\ p.range \in Seq(Coined)
  BY DEF Priceable
<1>2. Range(Coins(p)) = Range(p.variants) \cup Range(p.range)
  BY <1>1, RangeOfTwo DEF Coins
<1>3. /\ IsFiniteSet(Range(p.variants)) /\ IsFiniteSet(Range(p.range))
      /\ Range(p.variants) \subseteq Coined /\ Range(p.range) \subseteq Coined
  BY <1>1, FewValues
<1>4. LineMoney(p) \subseteq Range(p.variants) \/ LineMoney(p) \subseteq Range(p.range)
  BY DEF LineMoney
<1>5. \A m \in Coined : m.amount \in Nat
  BY DEF Coined
<1> QED BY <1>1, <1>2, <1>3, <1>4, <1>5, FS_Subset

(* A product as withDisplayPrices leaves it.                               *)
LEMMA ProductDisplayed ==
  ASSUME NEW p \in Priceable
  PROVE  /\ EachCoin(p, Displayed) \in Priceable
         /\ Range(EachCoin(p, Displayed).variants) = {Displayed(c) : c \in Range(p.variants)}
<1> DEFINE vs == [i \in DOMAIN p.variants |-> Displayed(p.variants[i])]
           rs == [i \in DOMAIN p.range |-> Displayed(p.range[i])]
<1>1. EachCoin(p, Displayed) = [variants |-> vs, range |-> rs]
  BY DEF EachCoin
<1>2. p.variants \in Seq(Coined) /\ p.range \in Seq(Coined)
  BY ProductIs
<1>3. /\ \A i \in DOMAIN p.variants : Displayed(p.variants[i]) \in Coined
      /\ \A i \in DOMAIN p.range : Displayed(p.range[i]) \in Coined
  BY <1>2, DisplayedIs
<1>4. vs \in Seq(Coined) /\ rs \in Seq(Coined)
  BY <1>2, <1>3
<1>5. Range(vs) = {Displayed(c) : c \in Range(p.variants)}
  BY DEF Range
<1> HIDE DEF vs, rs
<1> QED BY <1>1, <1>4, <1>5 DEF Priceable

LEMMA ProductNarrowed ==
  ASSUME NEW p \in Priceable, NEW c \in Range(Coins(EachCoin(p, Narrowed)))
  PROVE  \E d \in Range(Coins(p)) : d \in Coined /\ c = Narrowed(d)
<1> DEFINE vs == [i \in DOMAIN p.variants |-> Narrowed(p.variants[i])]
           rs == [i \in DOMAIN p.range |-> Narrowed(p.range[i])]
           Both == Range(vs) \cup Range(rs)
<1>1. p.variants \in Seq(Coined) /\ p.range \in Seq(Coined)
  BY ProductIs
<1>2. /\ \A i \in DOMAIN vs : vs[i] \in Both
      /\ \A i \in DOMAIN rs : rs[i] \in Both
      /\ DOMAIN vs = 1..Len(p.variants) /\ DOMAIN rs = 1..Len(p.range)
      /\ Len(p.variants) \in Nat /\ Len(p.range) \in Nat
  BY <1>1 DEF Range
<1>3. vs \in Seq(Both) /\ rs \in Seq(Both)
  <2> DEFINE m == Len(p.variants)
             n == Len(p.range)
  <2>1. /\ vs = [i \in 1..m |-> vs[i]] /\ rs = [i \in 1..n |-> rs[i]]
        /\ \A i \in 1..m : vs[i] \in Both
        /\ \A i \in 1..n : rs[i] \in Both
        /\ m \in Nat /\ n \in Nat
    BY <1>2
  <2> HIDE DEF vs, rs, Both, m, n
  <2> QED BY <2>1
<1>4. Coins(EachCoin(p, Narrowed)) = vs \o rs
  BY DEF Coins, EachCoin
<1>5. c \in Range(vs) \/ c \in Range(rs)
  <2> HIDE DEF vs, rs, Both
  <2> QED BY <1>3, <1>4, RangeOfTwo
<1>6. \E d \in Range(p.variants) \cup Range(p.range) : c = Narrowed(d)
  BY <1>5 DEF Range
<1> QED BY <1>6, ProductIs


(* The result is a list of products with a line for each: the one their    *)
(* coins make, or none.                                                    *)
IsResult(r) ==
  /\ r = [products |-> r.products, lines |-> r.lines]
  /\ r # <<>> /\ r.products \in Seq(Priceable)
  /\ DOMAIN r.lines = DOMAIN r.products
  /\ \A i \in DOMAIN r.products :
       \/ r.lines[i] = NoFigure
       \/ \E p \in Priceable : /\ r.products[i] = EachCoin(p, Displayed)
                               /\ r.lines[i] = withPriceSummary(p)

Quoted ==
  /\ payload = <<>> \/ IsResult(payload)
  /\ quotable = <<>> \/ (payload # <<>> /\ quotable = hideComputableAmounts(payload))

LEMMA ResultsAreNotNone == \A a, b : [products |-> a, lines |-> b] # <<>>
<1> SUFFICES ASSUME NEW a, NEW b, [products |-> a, lines |-> b] = <<>> PROVE FALSE
  OBVIOUS
<1>1. DOMAIN [products |-> a, lines |-> b] = {"products", "lines"} /\ DOMAIN <<>> = {}
  OBVIOUS
<1> QED BY <1>1

LEMMA DisplayedResult ==
  ASSUME NEW products \in Seq(Priceable)
  PROVE  IsResult(withDisplayPrices(products))
<1> DEFINE ps == [i \in DOMAIN products |-> EachCoin(products[i], Displayed)]
           ls == [i \in DOMAIN products |-> withPriceSummary(products[i])]
           r == withDisplayPrices(products)
<1>1. r = [products |-> ps, lines |-> ls]
  BY DEF withDisplayPrices
<1>2. r # <<>> /\ r.products = ps /\ r.lines = ls /\ r = [products |-> r.products, lines |-> r.lines]
  <2> HIDE DEF ps, ls, r
  <2> QED BY <1>1, ResultsAreNotNone
<1>3. \A i \in DOMAIN products : products[i] \in Priceable
  OBVIOUS
<1>4. \A i \in DOMAIN products : ps[i] \in Priceable
  BY <1>3, ProductDisplayed
<1>5. ps \in Seq(Priceable) /\ DOMAIN ps = DOMAIN products
  <2> DEFINE n == Len(products)
  <2>1. ps = [i \in 1..n |-> ps[i]] /\ n \in Nat /\ \A i \in 1..n : ps[i] \in Priceable
    BY <1>4
  <2>2. DOMAIN ps = DOMAIN products
    OBVIOUS
  <2> HIDE DEF ps, n
  <2> QED BY <2>1, <2>2
<1>6. \A i \in DOMAIN products : ps[i] = EachCoin(products[i], Displayed) /\ ls[i] = withPriceSummary(products[i])
  OBVIOUS
<1>7. DOMAIN ls = DOMAIN products
  OBVIOUS
<1> HIDE DEF ps, ls, r
<1> QED BY <1>2, <1>3, <1>5, <1>6, <1>7 DEF IsResult, r

LEMMA QuotedStart == PricesInit => Quoted
BY DEF PricesInit, Quoted

LEMMA QuotedStep == Quoted /\ [PricesNext]_priceVars => Quoted'
<1> SUFFICES ASSUME Quoted, [PricesNext]_priceVars PROVE Quoted'
  OBVIOUS
<1>0. /\ payload = <<>> \/ IsResult(payload)
      /\ quotable = <<>> \/ (payload # <<>> /\ quotable = hideComputableAmounts(payload))
  BY DEF Quoted
<1>1. CASE LookUp
  <2>1. PICK products \in Wares : payload' = withDisplayPrices(products)
    BY <1>1 DEF LookUp
  <2>2. IsResult(payload')
    BY <2>1, PricesAssumption, DisplayedResult
  <2>3. quotable' = <<>>
    BY <1>0, <1>1 DEF LookUp
  <2> QED BY <2>2, <2>3 DEF Quoted
<1>2. CASE AddToCart
  <2>1. PICK products \in Wares :
          payload' = [products |-> products, lines |-> [i \in DOMAIN products |-> NoFigure]]
    BY <1>2 DEF AddToCart
  <2>2. products \in Seq(Priceable)
    BY PricesAssumption
  <2>3. /\ payload'.products = products /\ payload'.lines = [i \in DOMAIN products |-> NoFigure]
        /\ payload' = [products |-> payload'.products, lines |-> payload'.lines]
    BY <2>1
  <2>4. payload' # <<>>
    BY <2>1, ResultsAreNotNone
  <2>5. IsResult(payload')
    BY <2>2, <2>3, <2>4 DEF IsResult
  <2>6. quotable' = <<>>
    BY <1>0, <1>2 DEF AddToCart
  <2> QED BY <2>5, <2>6 DEF Quoted
<1>3. CASE LookUpAgain
  <2>1. payload.products \in Seq(Priceable)
    BY <1>0, <1>3 DEF LookUpAgain, IsResult
  <2>2. IsResult(payload') /\ quotable' = <<>>
    BY <1>3, <2>1, DisplayedResult DEF LookUpAgain
  <2> QED BY <2>2 DEF Quoted
<1>4. CASE TellModel
  <2>1. payload' = payload /\ payload # <<>> /\ quotable' = hideComputableAmounts(payload)
    BY <1>4 DEF TellModel
  <2> QED BY <1>0, <2>1 DEF Quoted
<1>5. CASE UNCHANGED priceVars
  BY <1>0, <1>5 DEF Quoted, priceVars
<1> QED BY <1>1, <1>2, <1>3, <1>4, <1>5 DEF PricesNext

LEMMA QuotedIsTrue == Quoted => PriceLinesAreTrue
<1> SUFFICES ASSUME Quoted, quotable # <<>>, NEW i \in DOMAIN payload.products
             PROVE  LET priced == {v \in Range(payload.products[i].variants) : HasPrice(v)}
                        line == quotable.lines[i]
                    IN  /\ \A c \in Range(Coins(quotable.products[i])) :
                             /\ c.display # NoFigure /\ HasPrice(c) => c.amount = Hidden
                             /\ Extracted(Figures(c)) \subseteq collectMoneyFromResult(payload)
                        /\ Extracted(Range(line)) \subseteq collectMoneyFromResult(payload)
                        /\ line # NoFigure /\ priced # {} =>
                             /\ \A v \in priced : /\ line[1].amount <= v.amount
                                                  /\ v.amount <= line[Len(line)].amount
                                                  /\ \A f \in Range(line) : f.sign = Shown(v).sign
                             /\ \A f \in Range(line) : \E v \in priced : Shown(v) = f
  BY DEF PriceLinesAreTrue
<1> DEFINE q == payload.products[i]
           line == payload.lines[i]
           priced == {v \in Range(q.variants) : HasPrice(v)}
<1>1. /\ IsResult(payload) /\ quotable = hideComputableAmounts(payload)
  BY DEF Quoted
<1>2. quotable.lines[i] = line /\ quotable.products[i] = EachCoin(q, Narrowed)
  <2> DEFINE ps == payload.products
             ls == payload.lines
             hidden == [j \in DOMAIN ps |-> EachCoin(ps[j], Narrowed)]
  <2>1. payload = [products |-> ps, lines |-> ls]
    BY <1>1 DEF IsResult
  <2>2. quotable = [payload EXCEPT !.products = hidden]
    BY <1>1 DEF hideComputableAmounts
  <2>3. quotable.products = hidden /\ quotable.lines = ls
    <3> HIDE DEF ps, ls, hidden
    <3> QED BY <2>1, <2>2
  <2>4. hidden[i] = EachCoin(ps[i], Narrowed)
    OBVIOUS
  <2> QED BY <2>3, <2>4
<1>3. q \in Priceable /\ q \in Range(payload.products) /\ line \in Range(payload.lines)
  <2>1. payload.products \in Seq(Priceable) /\ i \in DOMAIN payload.lines
    BY <1>1 DEF IsResult
  <2> QED BY <2>1 DEF Range
<1>4. ASSUME NEW c \in Range(Coins(quotable.products[i]))
      PROVE  /\ c.display # NoFigure /\ HasPrice(c) => c.amount = Hidden
             /\ Extracted(Figures(c)) \subseteq collectMoneyFromResult(payload)
  <2>1. PICK d \in Range(Coins(q)) : d \in Coined /\ c = Narrowed(d)
    BY <1>2, <1>3, ProductNarrowed
  <2>2. /\ c.display = d.display
        /\ c.display # NoFigure /\ HasPrice(c) => c.amount = Hidden
    BY <2>1, NarrowedIs
  <2>3. Figures(c) = Figures(d)
    BY <2>2 DEF Figures
  <2>4. Extracted(Figures(d)) \subseteq collectMoneyFromResult(payload)
    BY <1>3, <2>1 DEF Extracted, collectMoneyFromResult
  <2> QED BY <2>2, <2>3, <2>4
<1>5. Extracted(Range(line)) \subseteq collectMoneyFromResult(payload)
  BY <1>3 DEF Extracted, collectMoneyFromResult
<1>6. ASSUME line # NoFigure, priced # {}
      PROVE  /\ \A v \in priced : /\ line[1].amount <= v.amount
                                  /\ v.amount <= line[Len(line)].amount
                                  /\ \A f \in Range(line) : f.sign = Shown(v).sign
             /\ \A f \in Range(line) : \E v \in priced : Shown(v) = f
  <2>1. PICK p \in Priceable : q = EachCoin(p, Displayed) /\ line = withPriceSummary(p)
    BY <1>1, <1>6 DEF IsResult
  <2>2. Range(q.variants) = {Displayed(c) : c \in Range(p.variants)} /\ Range(p.variants) \subseteq Coined
    BY <2>1, ProductDisplayed, ProductIs
  <2>3. ASSUME NEW v \in priced
        PROVE  \E m \in Range(p.variants) : HasPrice(m) /\ Shown(m) = Shown(v) /\ m.amount = v.amount
    <3>1. PICK m \in Range(p.variants) : v = Displayed(m)
      BY <2>2
    <3>2. m \in Coined /\ HasPrice(v)
      BY <2>2
    <3> QED BY <3>1, <3>2, DisplayedIs
  <2>4. LineMoney(p) = {m \in Range(p.variants) : HasPrice(m)} /\ LineMoney(p) # {}
    <3>1. {m \in Range(p.variants) : HasPrice(m)} # {}
      BY <1>6, <2>3
    <3> QED BY <3>1 DEF LineMoney
  <2>5. ASSUME NEW m \in LineMoney(p) PROVE \E v \in priced : Shown(v) = Shown(m)
    <3>1. m \in Range(p.variants) /\ HasPrice(m) /\ m \in Coined
      BY <2>2, <2>4
    <3>2. Displayed(m) \in priced
      BY <2>2, <3>1, DisplayedIs
    <3> QED BY <3>1, <3>2, DisplayedIs
  <2>6. LineIs(p, line)
    BY <2>1, ProductIs, LineIsTrue
  <2> HIDE DEF priced, line, q
  <2>7. /\ \A m \in LineMoney(p) :
             /\ line[1].amount <= m.amount /\ m.amount <= line[Len(line)].amount
             /\ \A f \in Range(line) : f.sign = Shown(m).sign
        /\ \A f \in Range(line) : \E m \in LineMoney(p) : Shown(m) = f
    BY <1>6, <2>4, <2>6 DEF LineIs
  <2>8. \A v \in priced : \E m \in LineMoney(p) : Shown(m) = Shown(v) /\ m.amount = v.amount
    BY <2>3, <2>4
  <2> QED BY <2>5, <2>7, <2>8
<1> HIDE DEF q, priced
<1> QED BY <1>2, <1>4, <1>5, <1>6 DEF q, priced

-----------------------------------------------------------------------------
(* What is said of the product on the page.                                *)

(* The first that passes a test: FirstOf.                                  *)
LEMMA FirstIs ==
  ASSUME NEW n \in Nat, NEW I \in SUBSET (1..n)
  PROVE  LET f == IF I # {} THEN Min(I) ELSE 0
         IN  /\ I = {} => f = 0
             /\ I # {} => f \in I /\ f # 0 /\ f \in 1..n /\ \A i \in I : f <= i
<1>1. CASE I = {}
  BY <1>1
<1>2. CASE I # {}
  <2>1. I \in SUBSET Nat
    OBVIOUS
  <2>2. PICK m \in I : \A i \in I : m <= i
    BY <1>2, <2>1, Smallest
  <2>3. Min(I) \in I /\ \A i \in I : Min(I) <= i
    BY <2>2 DEF Min
  <2> DEFINE f == Min(I)
  <2>4. f \in I /\ f \in 1..n /\ f # 0 /\ \A i \in I : f <= i
    <3>1. f \in I /\ \A i \in I : f <= i
      BY <2>3
    <3> HIDE DEF f
    <3> QED BY <3>1
  <2> QED BY <1>2, <2>4
<1> QED BY <1>1, <1>2

Fits(p, i, name) == p[i].title = name \/ name \in Range(p[i].options)

LEMMA SelectedIs ==
  ASSUME NEW p, p \in Seq(Range(p)), NEW name
  PROVE  LET chosen == selectedVariant(p, name)
         IN  \/ chosen = 0 /\ (~Named(name) \/ \A i \in DOMAIN p : ~Fits(p, i, name))
             \/ /\ Named(name) /\ chosen \in DOMAIN p /\ chosen # 0 /\ Fits(p, chosen, name)
                /\ \A i \in DOMAIN p : Fits(p, i, name) => chosen <= i
<1> DEFINE n == Len(p)
           I == {i \in 1..n : p[i].title = name \/ name \in Range(p[i].options)}
<1>1. n \in Nat /\ DOMAIN p = 1..n /\ I \in SUBSET (1..n)
  OBVIOUS
<1>2. \A i \in 1..n : i \in I <=> Fits(p, i, name)
  BY DEF Fits
<1>3. selectedVariant(p, name) = IF Named(name) THEN (IF I # {} THEN Min(I) ELSE 0) ELSE 0
  BY DEF selectedVariant, FirstOf, SelectInSeq
<1> HIDE DEF I, n
<1>4. LET f == IF I # {} THEN Min(I) ELSE 0
      IN  /\ I = {} => f = 0
          /\ I # {} => f \in I /\ f # 0 /\ f \in 1..n /\ \A i \in I : f <= i
  BY <1>1, FirstIs
<1> QED BY <1>1, <1>2, <1>3, <1>4

LEMMA ResolvedIs ==
  ASSUME NEW candidates \in NameMatches, Resolved(candidates) # 0
  PROVE  candidates[Resolved(candidates)] = "page"
<1> DEFINE n == Len(candidates)
           I == {i \in 1..n : sameProductId(candidates[i])}
           J == {i \in 1..n : candidates[i] = "page"}
           First(T) == IF T # {} THEN Min(T) ELSE 0
<1>1. n \in Nat /\ I \in SUBSET (1..n) /\ J \in SUBSET (1..n)
  BY DEF NameMatches
<1>2. Resolved(candidates) = First(I) \/ Resolved(candidates) = First(J)
  BY DEF Resolved, FirstOf, SelectInSeq
<1>3. \A i \in I \cup J : candidates[i] = "page"
  BY DEF sameProductId
<1> HIDE DEF I, J, n
<1>4. (First(I) # 0 => First(I) \in I) /\ (First(J) # 0 => First(J) \in J)
  BY <1>1, FirstIs
<1> QED BY <1>2, <1>3, <1>4

(* Who the page means is who is selected.                                  *)
LEMMA MeantIs ==
  ASSUME product \in Shelf
  PROVE  LET chosen == selectedVariant(product, viewed.variantName)
         IN  /\ product \in Seq(Range(product))
             /\ \/ chosen = 0 /\ Meant = {} /\ Titled = {}
                \/ /\ chosen \in DOMAIN product /\ product[chosen] \in Meant
                   /\ chosen # 0 /\ Named(product[chosen].title)
                   /\ Titled = {} \/ Titled = {product[chosen]}
<1> DEFINE p == product
           name == viewed.variantName
           chosen == selectedVariant(product, name)
<1>1. /\ p \in Seq(Range(p))
      /\ \A v \in Range(p) : DOMAIN v.options # {} => Named(v.title)
      /\ \A i, j \in DOMAIN p :
           i # j /\ Named(p[i].title) => p[i].title # p[j].title /\ p[i].title \notin Range(p[j].options)
  BY FactsAssumption
<1>2. \/ chosen = 0 /\ (~Named(name) \/ \A i \in DOMAIN p : ~Fits(p, i, name))
      \/ /\ Named(name) /\ chosen \in DOMAIN p /\ chosen # 0 /\ Fits(p, chosen, name)
         /\ \A i \in DOMAIN p : Fits(p, i, name) => chosen <= i
  BY <1>1, SelectedIs
<1>3. /\ \A v \in Titled : \E i \in DOMAIN p : v = p[i] /\ p[i].title = name /\ Named(name)
      /\ \A i \in DOMAIN p : p[i].title = name /\ Named(name) => p[i] \in Titled
  BY DEF Titled, Range
<1>4. /\ Meant = IF Titled # {} THEN Titled
                 ELSE {v \in Range(p) : Named(name) /\ name \in Range(v.options)}
  BY DEF Meant
<1> HIDE DEF chosen
<1>5. CASE chosen = 0
  <2>1. Titled = {}
    BY <1>2, <1>3, <1>5 DEF Fits
  <2>2. \A v \in Range(p) : ~(Named(name) /\ name \in Range(v.options))
    BY <1>2, <1>5 DEF Fits, Range
  <2> QED BY <1>1, <1>4, <1>5, <2>1, <2>2 DEF chosen
<1>6. CASE chosen # 0
  <2>1. Named(name) /\ chosen \in DOMAIN p /\ Fits(p, chosen, name) /\ p[chosen] \in Range(p)
    BY <1>2, <1>6 DEF Range
  <2>2. CASE Titled = {}
    <3>1. name \in Range(p[chosen].options)
      BY <1>3, <2>1, <2>2 DEF Fits
    <3>2. DOMAIN p[chosen].options # {}
      BY <3>1 DEF Range
    <3> QED BY <1>1, <1>4, <1>6, <2>1, <2>2, <3>1, <3>2 DEF chosen
  <2>3. CASE Titled # {}
    <3>1. \A i \in DOMAIN p : p[i].title = name => i = chosen
      BY <1>1, <2>1 DEF Fits
    <3>2. Titled = {p[chosen]} /\ p[chosen].title = name
      BY <1>3, <2>3, <3>1
    <3> QED BY <1>1, <1>4, <1>6, <2>1, <2>3, <3>2 DEF chosen
  <2> QED BY <2>2, <2>3
<1> QED BY <1>5, <1>6

LEMMA FiguresOf ==
  ASSUME NEW p \in Shelf
  PROVE  /\ p \in Seq(Range(p)) /\ Len(p) \in Nat /\ DOMAIN p = 1..Len(p)
         /\ IsFiniteSet(DOMAIN p)
         /\ \A i \in DOMAIN p :
              /\ p[i].amount \in Nat /\ priceText(p[i]) \in Nat
              /\ p[i].amount # 0 => priceText(p[i]) = p[i].amount
              /\ p[i].available \in {"yes", "no", "unknown"}
<1>1. /\ p \in Seq(Range(p))
      /\ \A i \in DOMAIN p :
           /\ p[i].amount \in Nat /\ p[i].display \in Nat
           /\ p[i].amount = 0 \/ p[i].display = 0 \/ p[i].display = p[i].amount
           /\ p[i].available \in {"yes", "no", "unknown"}
  BY FactsAssumption DEF Range
<1> QED BY <1>1, FewValues DEF priceText

(* Whatever is a sentence on the price is true: answerPrice.               *)
LEMMA PricesAreTrue ==
  ASSUME product \in Shelf, said = answerPrice(product, viewed.variantName), said # Nothing
  PROVE  said.states = "price" /\ PriceIsTrue
<1> DEFINE p == product
           chosen == selectedVariant(p, viewed.variantName)
           priced == {i \in DOMAIN p : p[i].amount # 0}
           same == {i \in priced : p[i].currency = p[Min(priced)].currency}
           amounts == {p[i].amount : i \in same}
           With(a) == {i \in same : p[i].amount = a}
           Says(a) == priceText(p[Min(With(a))])
           only == IF Len(p) = 1 THEN priceText(p[1]) ELSE 0
           InMoney(c) == {priceText(v) : v \in {v \in Range(p) : v.currency = c /\ (v.amount # 0 \/ Len(p) = 1)}}
<1>1. /\ p \in Seq(Range(p)) /\ Len(p) \in Nat /\ DOMAIN p = 1..Len(p) /\ IsFiniteSet(DOMAIN p)
      /\ \A i \in DOMAIN p : /\ p[i].amount \in Nat /\ priceText(p[i]) \in Nat
                             /\ p[i].amount # 0 => priceText(p[i]) = p[i].amount
  BY FiguresOf
<1>2. \/ chosen = 0 /\ Meant = {}
      \/ chosen \in DOMAIN p /\ p[chosen] \in Meant /\ chosen # 0
  BY MeantIs
<1>3. said = IF chosen # 0 /\ priceText(p[chosen]) # 0
               THEN Costs(priceText(p[chosen]), priceText(p[chosen]))
             ELSE IF priced # {} THEN Costs(Says(Min(amounts)), Says(Max(amounts)))
             ELSE IF only # 0 THEN Costs(only, only) ELSE Nothing
  BY DEF answerPrice
<1>4. \A a, b : Costs(a, b).states = "price" /\ Costs(a, b).low = a /\ Costs(a, b).high = b
  BY DEF Costs
<1>5. ASSUME chosen = 0 \/ priceText(p[chosen]) = 0,
             NEW low, NEW high, said = Costs(low, high),
             NEW c \in {v.currency : v \in Range(p)},
             {low, high} \subseteq InMoney(c), 0 \notin InMoney(c),
             \A f \in InMoney(c) : low <= f /\ f <= high
      PROVE  said.states = "price" /\ PriceIsTrue
  <2>1. said.low = low /\ said.high = high /\ said.states = "price"
    BY <1>4, <1>5
  <2>2. Meant = {} \/ \E v \in Meant : priceText(v) = 0
    BY <1>2, <1>5
  <2> HIDE DEF chosen
  <2> QED BY <1>5, <2>1, <2>2 DEF PriceIsTrue
<1>6. CASE chosen # 0 /\ priceText(p[chosen]) # 0
  <2>1. said = Costs(priceText(p[chosen]), priceText(p[chosen]))
    BY <1>3, <1>6
  <2>2. p[chosen] \in Meant
    BY <1>2, <1>6
  <2> HIDE DEF chosen
  <2> QED BY <1>4, <1>6, <2>1, <2>2 DEF PriceIsTrue
<1>7. CASE ~(chosen # 0 /\ priceText(p[chosen]) # 0) /\ priced # {}
  <2>1. said = Costs(Says(Min(amounts)), Says(Max(amounts)))
    BY <1>3, <1>7
  <2> DEFINE first == Min(priced)
             c == p[first].currency
  <2>2. first \in priced
    <3>1. priced \in SUBSET Nat
      BY <1>1
    <3>2. PICK m \in priced : \A i \in priced : m <= i
      <4> HIDE DEF priced
      <4> QED BY <1>7, <3>1, Smallest
    <3> QED BY <3>2 DEF Min
  <2>3. same = {i \in priced : p[i].currency = c}
    OBVIOUS
  <2>4. amounts \in SUBSET Nat /\ amounts # {} /\ IsFiniteSet(amounts)
    <3>1. first \in same /\ same \subseteq DOMAIN p
      BY <2>2
    <3>2. IsFiniteSet(same)
      BY <1>1, <3>1, FS_Subset
    <3> DEFINE f == [i \in same |-> p[i].amount]
    <3>3. f \in Surjection(same, amounts)
      BY DEF Surjection
    <3>4. IsFiniteSet(amounts)
      <4> HIDE DEF f, same, amounts
      <4> QED BY <3>2, <3>3, FS_Surjection
    <3> QED BY <1>1, <3>1, <3>4
  <2>5. /\ Min(amounts) \in amounts /\ Max(amounts) \in amounts
        /\ \A a \in amounts : Min(amounts) <= a /\ a <= Max(amounts)
    <3> HIDE DEF amounts
    <3> QED BY <2>4, EndsOf
  <2>6. ASSUME NEW a \in amounts PROVE Says(a) = a
    <3>1. With(a) \in SUBSET Nat /\ With(a) # {}
      <4>1. PICK i \in same : a = p[i].amount
        OBVIOUS
      <4>2. i \in With(a)
        BY <4>1
      <4>3. With(a) \subseteq DOMAIN p
        OBVIOUS
      <4> HIDE DEF With
      <4> QED BY <1>1, <4>2, <4>3
    <3>2. PICK m \in With(a) : \A i \in With(a) : m <= i
      <4> HIDE DEF With
      <4> QED BY <3>1, Smallest
    <3>3. Min(With(a)) \in With(a)
      <4> HIDE DEF With
      <4> QED BY <3>2 DEF Min
    <3> DEFINE k == Min(With(a))
    <3>4. k \in DOMAIN p /\ p[k].amount = a /\ p[k].amount # 0
      BY <3>3
    <3> HIDE DEF k, With
    <3> QED BY <1>1, <3>4 DEF k
  <2>7. ASSUME NEW x PROVE x \in InMoney(c) <=> x \in amounts
    <3>1. ASSUME x \in InMoney(c) PROVE x \in amounts
      <4>1. PICK i \in DOMAIN p : x = priceText(p[i]) /\ p[i].currency = c /\ (p[i].amount # 0 \/ Len(p) = 1)
        BY <3>1 DEF Range
      <4>2. p[i].amount # 0
        <5>1. CASE Len(p) = 1
          <6>1. first \in DOMAIN p /\ p[first].amount # 0
            BY <2>2
          <6>2. i = 1 /\ first = 1
            <7> HIDE DEF first
            <7> QED BY <1>1, <4>1, <5>1, <6>1
          <6> QED BY <6>1, <6>2
        <5> QED BY <4>1, <5>1
      <4>3. i \in same /\ p[i].amount = x
        BY <1>1, <4>1, <4>2
      <4> QED BY <4>3
    <3>2. ASSUME x \in amounts PROVE x \in InMoney(c)
      <4>1. PICK i \in same : x = p[i].amount
        BY <3>2
      <4>2. p[i] \in Range(p) /\ p[i].amount # 0 /\ p[i].currency = c /\ priceText(p[i]) = x
        BY <1>1, <4>1 DEF Range
      <4> QED BY <4>2
    <3> QED BY <3>1, <3>2
  <2>8. 0 \notin amounts
    OBVIOUS
  <2>9. c \in {v.currency : v \in Range(p)}
    BY <2>2 DEF Range
  <2> DEFINE low == Says(Min(amounts))
             high == Says(Max(amounts))
  <2>10. low = Min(amounts) /\ high = Max(amounts)
    BY <2>5, <2>6
  <2>11. chosen = 0 \/ priceText(p[chosen]) = 0
    BY <1>7
  <2> HIDE DEF chosen, amounts, InMoney, c, Says
  <2>12. /\ {low, high} \subseteq InMoney(c) /\ 0 \notin InMoney(c)
         /\ \A f \in InMoney(c) : low <= f /\ f <= high
         /\ said = Costs(low, high)
    BY <2>1, <2>5, <2>7, <2>8, <2>10
  <2> HIDE DEF low, high
  <2> QED BY <1>5, <2>9, <2>11, <2>12
<1>8. CASE ~(chosen # 0 /\ priceText(p[chosen]) # 0) /\ priced = {}
  <2>1. said = Costs(only, only) /\ only # 0
    BY <1>3, <1>8
  <2>2. Len(p) = 1 /\ 1 \in DOMAIN p /\ only = priceText(p[1]) /\ Range(p) = {p[1]}
    <3>1. Len(p) = 1 /\ only = priceText(p[1])
      BY <2>1
    <3>2. DOMAIN p = {1}
      BY <1>1, <3>1
    <3> QED BY <3>1, <3>2 DEF Range
  <2>3. InMoney(p[1].currency) = {only} /\ only \in Nat
    BY <1>1, <2>2
  <2>4. p[1].currency \in {v.currency : v \in Range(p)}
    BY <2>2
  <2>5. chosen = 0 \/ priceText(p[chosen]) = 0
    BY <1>8
  <2> DEFINE c == p[1].currency
  <2>6. c \in {v.currency : v \in Range(p)} /\ InMoney(c) = {only}
    BY <2>3, <2>4
  <2> HIDE DEF chosen, only, InMoney, c
  <2>7. /\ {only, only} \subseteq InMoney(c) /\ 0 \notin InMoney(c)
        /\ \A f \in InMoney(c) : only <= f /\ f <= only
    BY <2>1, <2>3, <2>6
  <2> QED BY <1>5, <2>1, <2>5, <2>6, <2>7
<1> QED BY <1>6, <1>7, <1>8

(* Whatever is a sentence on the stock is true: answerStock.               *)
LEMMA StockOfIsTrue ==
  ASSUME product \in Shelf, said = answerStock(product, viewed.variantName), said # Nothing
  PROVE  said.states = "stock" /\ StockIsTrue
<1> DEFINE p == product
           chosen == selectedVariant(p, viewed.variantName)
           known == {v \in Range(p) : v.available # "unknown"}
           inStock == {v \in known : v.available = "yes"}
           titles == {v.title : v \in inStock} \ {"none"}
           Of(title) == {v \in Range(p) : v.title = title}
           Sold(vs) == \A v \in vs : v.available # "yes"
           Known(vs) == \E v \in vs : v.available # "unknown"
<1>1. \/ chosen = 0 /\ Titled = {}
      \/ /\ chosen \in DOMAIN p /\ chosen # 0 /\ Named(p[chosen].title)
         /\ Titled = {} \/ Titled = {p[chosen]}
  BY MeantIs
<1>2. said = IF known = {} THEN Nothing
             ELSE IF chosen # 0 /\ p[chosen].available # "unknown"
               THEN Stock(p[chosen].available = "yes", {p[chosen].title} \ {"none"})
             ELSE IF inStock = {} THEN Stock(FALSE, {})
             ELSE Stock(TRUE, IF inStock = known THEN {} ELSE titles)
  BY DEF answerStock
<1>3. \A a, ts : Stock(a, ts).states = "stock" /\ Stock(a, ts).available = a /\ Stock(a, ts).titles = ts
  BY DEF Stock
<1>4. known # {}
  BY <1>2
<1>5. ASSUME said.available, \A t \in said.titles : ~Sold(Of(t)), ~Sold(Range(p)),
             Titled # {} /\ Known(Titled) => ~Sold(Titled)
      PROVE  StockIsTrue
  BY <1>5 DEF StockIsTrue
<1>6. ASSUME ~said.available,
             IF said.titles = {} THEN Known(Range(p)) /\ Sold(Range(p))
             ELSE \A t \in said.titles : Known(Of(t)) /\ Sold(Of(t))
      PROVE  StockIsTrue
  BY <1>6 DEF StockIsTrue
<1> HIDE DEF chosen
<1>7. CASE chosen # 0 /\ p[chosen].available # "unknown"
  <2> DEFINE v == p[chosen]
  <2>1. said = Stock(v.available = "yes", {v.title}) /\ v \in Range(p) /\ v \in Of(v.title)
    <3>1. chosen \in DOMAIN p /\ v.title # "none"
      BY <1>1, <1>7 DEF Named
    <3>2. {v.title} \ {"none"} = {v.title}
      BY <3>1
    <3> QED BY <1>2, <1>4, <1>7, <3>1, <3>2 DEF Range
  <2>2. said.states = "stock" /\ said.available = (v.available = "yes") /\ said.titles = {v.title}
    BY <1>3, <2>1
  <2>3. Titled = {} \/ Titled = {v}
    BY <1>1, <1>7
  <2>4. CASE v.available = "yes"
    BY <1>5, <2>1, <2>2, <2>3, <2>4
  <2>5. CASE v.available # "yes"
    <3>1. Of(v.title) = {v}
      <4>1. /\ \A i, j \in DOMAIN p : i # j /\ Named(p[i].title) => p[i].title # p[j].title
        BY FactsAssumption
      <4>2. chosen \in DOMAIN p /\ Named(v.title)
        BY <1>1, <1>7
      <4>3. \A i \in DOMAIN p : p[i].title = v.title => i = chosen
        BY <4>1, <4>2
      <4> QED BY <2>1, <4>3 DEF Range
    <3> QED BY <1>6, <1>7, <2>2, <2>5, <3>1
  <2> QED BY <2>2, <2>4, <2>5
<1>8. CASE ~(chosen # 0 /\ p[chosen].available # "unknown") /\ inStock = {}
  <2>1. said = Stock(FALSE, {})
    BY <1>2, <1>4, <1>8
  <2>2. Known(Range(p)) /\ Sold(Range(p))
    BY <1>4, <1>8
  <2>3. said.states = "stock" /\ ~said.available /\ said.titles = {}
    <3>1. LET none == Stock(FALSE, {}) IN none.states = "stock" /\ ~none.available /\ none.titles = {}
      BY DEF Stock
    <3> QED BY <2>1, <3>1
  <2>4. StockIsTrue
    BY <1>6, <2>2, <2>3
  <2> QED BY <2>3, <2>4
<1>9. CASE ~(chosen # 0 /\ p[chosen].available # "unknown") /\ inStock # {}
  <2>1. \E ts \in SUBSET titles : said = Stock(TRUE, ts)
    BY <1>2, <1>4, <1>9
  <2>2. said.states = "stock" /\ said.available /\ said.titles \subseteq titles
    <3> HIDE DEF titles
    <3>1. PICK ts \in SUBSET titles : said = Stock(TRUE, ts)
      BY <2>1
    <3>2. LET some == Stock(TRUE, ts) IN some.states = "stock" /\ some.available /\ some.titles = ts
      BY DEF Stock
    <3> QED BY <3>1, <3>2
  <2>3. \A t \in titles : ~Sold(Of(t))
    OBVIOUS
  <2>4. ~Sold(Range(p))
    BY <1>9
  <2>5. ~(Titled # {} /\ Known(Titled))
    BY <1>1, <1>9
  <2> QED BY <1>5, <2>2, <2>3, <2>4, <2>5
<1> QED BY <1>7, <1>8, <1>9

(* Whatever is listed of an axis is all of it: answerOptions.              *)
LEMMA ChoicesOfAreTrue ==
  ASSUME said = answerOptions(product, ask.axis), said # Nothing
  PROVE  said.states = "choice" /\ ChoicesAreTrue
<1> DEFINE p == product
           names == UNION {DOMAIN p[i].options : i \in DOMAIN p}
           axes == axesOf(p)
           All(a) == {v.options[a] : v \in {v \in Range(p) : a \in DOMAIN v.options}}
<1>1. \A a \in DOMAIN axes \ {""} : axes[a] = All(a)
  <2> DEFINE values == [a \in names |-> {p[i].options[a] : i \in {i \in DOMAIN p : a \in DOMAIN p[i].options}}]
  <2>1. \/ axes = values
        \/ \E ts : axes = [a \in {""} |-> ts]
    BY DEF axesOf
  <2>2. \A a \in names : values[a] = All(a)
    <3> SUFFICES ASSUME NEW a \in names
                 PROVE  {p[i].options[a] : i \in {i \in DOMAIN p : a \in DOMAIN p[i].options}} = All(a)
      OBVIOUS
    <3> QED BY DEF Range
  <2> QED BY <2>1, <2>2
<1>2. \E one : \E some :
        /\ said = Choice(one, some)
        /\ \A a \in DOMAIN some \ {""} : a \in DOMAIN axes /\ some[a] = axes[a]
  <2> HIDE DEF axes
  <2>1. said = CASE DOMAIN axes = {} -> Nothing
                 [] DOMAIN axes # {} /\ ask.axis = "none" -> Choice("none", axes)
                 [] DOMAIN axes # {} /\ ask.axis \in DOMAIN axes ->
                      Choice("none", [a \in {ask.axis} |-> axes[a]])
                 [] OTHER -> Choice(ask.axis, [a \in DOMAIN axes \ {""} |-> axes[a]])
    BY DEF answerOptions, axes
  <2>2. CASE said = Choice("none", axes)
    BY <2>2
  <2>3. CASE ask.axis \in DOMAIN axes /\ said = Choice("none", [a \in {ask.axis} |-> axes[a]])
    <3> DEFINE some == [a \in {ask.axis} |-> axes[a]]
    <3>1. \A a \in DOMAIN some \ {""} : a \in DOMAIN axes /\ some[a] = axes[a]
      BY <2>3
    <3>2. said = Choice("none", some)
      BY <2>3
    <3> HIDE DEF some
    <3> QED BY <3>1, <3>2
  <2>4. CASE said = Choice(ask.axis, [a \in DOMAIN axes \ {""} |-> axes[a]])
    <3> DEFINE some == [a \in DOMAIN axes \ {""} |-> axes[a]]
    <3>1. \A a \in DOMAIN some \ {""} : a \in DOMAIN axes /\ some[a] = axes[a]
      OBVIOUS
    <3>2. said = Choice(ask.axis, some)
      BY <2>4
    <3> HIDE DEF some
    <3> QED BY <3>1, <3>2
  <2> QED BY <2>1, <2>2, <2>3, <2>4
<1>3. PICK one, some : /\ said = Choice(one, some)
                       /\ \A a \in DOMAIN some \ {""} : a \in DOMAIN axes /\ some[a] = axes[a]
  BY <1>2
<1>4. said.states = "choice" /\ said.axes = some
  <2>1. Choice(one, some).states = "choice" /\ Choice(one, some).axes = some
    BY DEF Choice
  <2> QED BY <1>3, <2>1
<1> QED BY <1>1, <1>3, <1>4 DEF ChoicesAreTrue

(* What the lane has found is the product of the page.                     *)
Told ==
  /\ ask \in Questions
  /\ lane # "away" => product \in Shelf
  /\ lane \in {"read", "said"} => got = product
  /\ lane = "said" => said = answerPageFact(got) /\ said # Nothing

LEMMA ToldStart == FactsInit => Told
BY DEF FactsInit, Told, Questions

LEMMA ToldStep == Told /\ [FactsNext]_factVars => Told'
<1> SUFFICES ASSUME Told, [FactsNext]_factVars PROVE Told'
  OBVIOUS
<1> USE DEF Told
<1>1. CASE OpenPage
  BY <1>1 DEF OpenPage
<1>2. CASE AskFact
  BY <1>2 DEF AskFact, Go, Store
<1>3. CASE DirectAnswers
  BY <1>3 DEF DirectAnswers, Return, Store
<1>4. CASE DirectFails
  BY <1>4 DEF DirectFails, Go, Store
<1>5. CASE BrowseFinds
  BY <1>5 DEF BrowseFinds, Return, Store
<1>6. CASE BrowseMisses
  BY <1>6 DEF BrowseMisses, Go, Store
<1>7. CASE LookupFails
  BY <1>7 DEF LookupFails, Go, Store
<1>8. CASE resolveByName
  <2>1. PICK candidates \in NameMatches :
          IF Resolved(candidates) = 0 THEN Go("declined")
          ELSE Return(ProductOf(candidates[Resolved(candidates)]))
    BY <1>8 DEF resolveByName
  <2>2. lane = "name"
    BY <1>8 DEF resolveByName
  <2>3. CASE Resolved(candidates) = 0
    BY <2>1, <2>2, <2>3 DEF Go, Store
  <2>4. CASE Resolved(candidates) # 0
    <3>1. ProductOf(candidates[Resolved(candidates)]) = product
      BY <2>4, ResolvedIs DEF ProductOf
    <3> QED BY <2>1, <2>2, <2>4, <3>1 DEF Return, Store
  <2> QED BY <2>3, <2>4
<1>9. CASE Answer
  <2>1. /\ lane = "read" /\ said' = answerPageFact(got)
        /\ lane' = IF said' = Nothing THEN "declined" ELSE "said"
        /\ ask' = ask /\ got' = got /\ product' = product /\ viewed' = viewed
    BY <1>9 DEF Answer, Store
  <2>2. answerPageFact(got)' = answerPageFact(got)
    BY <2>1 DEF answerPageFact
  <2> QED BY <2>1, <2>2
<1>10. CASE NextFact
  BY <1>10 DEF NextFact, Store
<1>11. CASE UNCHANGED factVars
  <2>1. answerPageFact(got)' = answerPageFact(got)
    BY <1>11 DEF answerPageFact, factVars
  <2> QED BY <1>11, <2>1 DEF factVars
<1> QED BY <1>1, <1>2, <1>3, <1>4, <1>5, <1>6, <1>7, <1>8, <1>9, <1>10, <1>11 DEF FactsNext

LEMMA ToldIsTrue == Told => FactsAreTrue
<1> SUFFICES ASSUME Told, lane = "said" PROVE FactsAreTrue
  BY DEF FactsAreTrue
<1>1. /\ got = product /\ product \in Shelf /\ ask \in Questions
      /\ said = answerPageFact(product) /\ said # Nothing
  BY DEF Told
<1>2. ask.kind \in {"price", "stock", "options"}
  BY <1>1 DEF Questions
<1>3. CASE ask.kind = "price"
  <2>1. said = answerPrice(product, viewed.variantName)
    BY <1>1, <1>3 DEF answerPageFact
  <2> QED BY <1>1, <2>1, PricesAreTrue DEF FactsAreTrue
<1>4. CASE ask.kind = "stock"
  <2>1. said = answerStock(product, viewed.variantName)
    BY <1>1, <1>4 DEF answerPageFact
  <2> QED BY <1>1, <2>1, StockOfIsTrue DEF FactsAreTrue
<1>5. CASE ask.kind = "options"
  <2>1. said = answerOptions(product, ask.axis)
    BY <1>1, <1>5 DEF answerPageFact
  <2> QED BY <1>1, <2>1, ChoicesOfAreTrue DEF FactsAreTrue
<1> QED BY <1>2, <1>3, <1>4, <1>5

(* For any products, question, page and way of finding the product, and    *)
(* for any prices of a result: whatever is said in place of the model by   *)
(* answerPageFact, and given to it to say by withDisplayPrices, is what    *)
(* the catalog says.                                                       *)
THEOREM CatalogStaysQuoted == QuotesSpec => []CatalogIsQuoted
<1> DEFINE Inv == Told /\ Quoted
           step == \/ FactsNext /\ UNCHANGED priceVars
                   \/ PricesNext /\ UNCHANGED factVars
<1>1. FactsInit /\ PricesInit => Inv
  BY ToldStart, QuotedStart
<1>2. Inv /\ [step]_<<factVars, priceVars>> => Inv'
  <2> SUFFICES ASSUME Inv, [step]_<<factVars, priceVars>> PROVE Inv'
    OBVIOUS
  <2>1. [FactsNext]_factVars /\ [PricesNext]_priceVars
    OBVIOUS
  <2> QED BY <2>1, ToldStep, QuotedStep
<1>3. Inv => CatalogIsQuoted
  BY ToldIsTrue, QuotedIsTrue DEF CatalogIsQuoted
<1> QED BY <1>1, <1>2, <1>3, PTL DEF QuotesSpec

-----------------------------------------------------------------------------
(* What a document is written in.                                          *)
Symbols == {"open", "re", "ply", ":", "blank", "quote", "a", "\\", "n", "u", "h", "claims"}

(* Where the characters of the reply are in the document.                  *)
Layout(at) ==
  /\ reply \in Seq(Chars) /\ doc \in Seq(Symbols)
  /\ at \in [1..Len(reply) + 1 -> Nat] /\ at[1] \in {6, 7}
  /\ doc[1] = "open" /\ doc[2] = "re" /\ doc[3] = "ply" /\ doc[4] = ":"
  /\ at[1] = 7 => doc[5] = "blank"
  /\ doc[at[1] - 1] = "quote"
  /\ \A k \in 1..Len(reply) + 1 : at[k] >= at[1]
  /\ \A k \in 1..Len(reply) :
       /\ at[k + 1] = at[k] + Len(Encoded[reply[k]])
       /\ \A j \in 1..Len(Encoded[reply[k]]) : doc[at[k] + j - 1] = Encoded[reply[k]][j]
  /\ doc[at[Len(reply) + 1]] = "quote" /\ Len(doc) = at[Len(reply) + 1] + 1

(* The loop over the string stands before a character of the reply, in its *)
(* escape, or past the last; there is nothing it could go on with.         *)
Place(at, k, sc, t) ==
  \/ sc = ScanAt("in_string", at[k + 1], FALSE) /\ at[k + 1] - 1 <= t
  \/ /\ k < Len(reply) /\ sc = ScanAt("in_string", at[k + 1] + 1, TRUE)
     /\ at[k + 1] <= t /\ doc[at[k + 1]] = "\\"
  \/ k = Len(reply) /\ sc = ScanAt("done", at[k + 1] + 1, FALSE) /\ at[k + 1] <= t

Waits(at, k, sc, t) ==
  \/ sc.state = "done"
  \/ sc.state = "in_string" /\ ~sc.pendingEscape /\ sc.cursor = t + 1
  \/ sc.state = "in_string" /\ sc.pendingEscape /\ t < at[k + 2] - 1

(* What a layout says of the kinds of things.                              *)
LEMMA LayoutTyped ==
  ASSUME NEW at, Layout(at)
  PROVE  /\ reply \in Seq(Chars) /\ doc \in Seq(Symbols) /\ Len(reply) \in Nat /\ Len(doc) \in Nat
         /\ \A k \in 1..Len(reply) + 1 : at[k] \in Nat /\ at[k] >= 6
<1>1. /\ reply \in Seq(Chars) /\ doc \in Seq(Symbols)
      /\ at \in [1..Len(reply) + 1 -> Nat] /\ at[1] \in {6, 7}
      /\ \A k \in 1..Len(reply) + 1 : at[k] >= at[1]
  BY DEF Layout
<1>2. Len(reply) \in Nat /\ Len(doc) \in Nat
  BY <1>1
<1> QED BY <1>1, <1>2

(* How each character is written.                                          *)
LEMMA EncodedIs ==
  /\ Encoded["a"] = <<"a">> /\ Encoded["nl"] = <<"\\", "n">> /\ Encoded["q"] = <<"\\", "quote">>
  /\ Encoded["uni"] = <<"\\", "u", "h", "h", "h", "h">>
BY DEF Encoded, Chars

(* A character of the reply, in the document.                              *)
LEMMA CharIs ==
  ASSUME NEW at, Layout(at), NEW k \in 0..Len(reply), k < Len(reply)
  PROVE  LET c == reply[k + 1]
             i == at[k + 1]
         IN  /\ i \in Nat \ {0} /\ at[k + 2] \in Nat
             /\ \/ c = "a" /\ doc[i] = "a" /\ at[k + 2] = i + 1
                \/ c = "nl" /\ doc[i] = "\\" /\ doc[i + 1] = "n" /\ at[k + 2] = i + 2
                \/ c = "q" /\ doc[i] = "\\" /\ doc[i + 1] = "quote" /\ at[k + 2] = i + 2
                \/ /\ c = "uni" /\ doc[i] = "\\" /\ doc[i + 1] = "u" /\ at[k + 2] = i + 6
                   /\ doc[i + 2] = "h" /\ doc[i + 3] = "h" /\ doc[i + 4] = "h" /\ doc[i + 5] = "h"
<1> DEFINE c == reply[k + 1]
           i == at[k + 1]
           e == Encoded[c]
<1>1. /\ k + 1 \in 1..Len(reply) /\ c \in Chars /\ i \in Nat /\ i >= 6 /\ at[k + 2] \in Nat
      /\ at[k + 2] = i + Len(e) /\ \A j \in 1..Len(e) : doc[i + j - 1] = e[j]
  <2>0. Len(reply) \in Nat /\ reply \in Seq(Chars) /\ \A m \in 1..Len(reply) + 1 : at[m] \in Nat /\ at[m] >= 6
    BY LayoutTyped
  <2>1. k + 1 \in 1..Len(reply) /\ (k + 1) + 1 = k + 2
        /\ k + 1 \in 1..Len(reply) + 1 /\ k + 2 \in 1..Len(reply) + 1
    BY <2>0
  <2>2. at[(k + 1) + 1] = at[k + 1] + Len(e) /\ \A j \in 1..Len(e) : doc[at[k + 1] + j - 1] = e[j]
    BY <2>1 DEF Layout
  <2> QED BY <2>0, <2>1, <2>2
<1>2. i # 0
  BY <1>1
<1> HIDE DEF c, i
<1>3. CASE c = "a"
  <2>1. e = <<"a">>
    BY <1>3, EncodedIs
  <2>2. Len(e) = 1 /\ e[1] = "a"
    BY <2>1
  <2> HIDE DEF e
  <2>3. doc[i + 1 - 1] = "a"
    BY <1>1, <2>2
  <2>4. i + 1 - 1 = i
    BY <1>1
  <2> QED BY <1>1, <1>2, <1>3, <2>2, <2>3, <2>4 DEF c, i
<1>4. CASE c \in {"nl", "q"}
  <2> DEFINE x == IF c = "nl" THEN "n" ELSE "quote"
  <2>1. e = <<"\\", x>>
    BY <1>4, EncodedIs
  <2>2. Len(e) = 2 /\ e[1] = "\\" /\ e[2] = x
    BY <2>1
  <2> HIDE DEF e, x
  <2>3. doc[i + 1 - 1] = "\\" /\ doc[i + 2 - 1] = x
    BY <1>1, <2>2
  <2>4. i + 1 - 1 = i /\ i + 2 - 1 = i + 1
    BY <1>1
  <2> QED BY <1>1, <1>2, <1>4, <2>2, <2>3, <2>4 DEF c, i, x
<1>5. CASE c = "uni"
  <2>1. e = <<"\\", "u", "h", "h", "h", "h">>
    BY <1>5, EncodedIs
  <2>2. Len(e) = 6 /\ e[1] = "\\" /\ e[2] = "u" /\ e[3] = "h" /\ e[4] = "h" /\ e[5] = "h" /\ e[6] = "h"
    BY <2>1
  <2> HIDE DEF e
  <2>3. /\ doc[i + 1 - 1] = "\\" /\ doc[i + 2 - 1] = "u" /\ doc[i + 3 - 1] = "h"
        /\ doc[i + 4 - 1] = "h" /\ doc[i + 5 - 1] = "h" /\ doc[i + 6 - 1] = "h"
    BY <1>1, <2>2
  <2>4. /\ i + 1 - 1 = i /\ i + 2 - 1 = i + 1 /\ i + 3 - 1 = i + 2
        /\ i + 4 - 1 = i + 3 /\ i + 5 - 1 = i + 4 /\ i + 6 - 1 = i + 5
    BY <1>1
  <2> QED BY <1>1, <1>2, <1>5, <2>2, <2>3, <2>4 DEF c, i
<1> QED BY <1>1, <1>3, <1>4, <1>5 DEF Chars

(* What has been read of the document.                                     *)
LEMMA SymbolIs ==
  ASSUME doc \in Seq(Symbols), NEW t \in 0..Len(doc), NEW i \in Nat \ {0}
  PROVE  /\ Len(SubSeq(doc, 1, t)) = t
         /\ i <= t => SubSeq(doc, 1, t)[i] = doc[i] /\ Symbol(SubSeq(doc, 1, t), i) = doc[i]
         /\ i > t => Symbol(SubSeq(doc, 1, t), i) = "none"
<1>1. Len(doc) \in Nat /\ Len(SubSeq(doc, 1, t)) = t /\ DOMAIN SubSeq(doc, 1, t) = 1..t
      /\ \A j \in 1..t : SubSeq(doc, 1, t)[j] = doc[j]
  OBVIOUS
<1> QED BY <1>1 DEF Symbol

(* Once round the loop.                                                    *)
Onward(at, k0, k, sc, t, a) ==
  \E m \in k..Len(reply) : \E d :
    a = [out |-> SubSeq(reply, k0 + 1, m), scan |-> d] /\ Place(at, m, d, t) /\ d.cursor > sc.cursor

(* It passes a character or a part of one, unless it has to wait.          *)
LEMMA AdvanceIs ==
  ASSUME NEW at, Layout(at), NEW t \in 0..Len(doc), NEW k0 \in 0..Len(reply), NEW k \in k0..Len(reply),
         NEW sc, Place(at, k, sc, t)
  PROVE  LET b == [out |-> SubSeq(reply, k0 + 1, k), scan |-> sc]
             a == Advance(SubSeq(doc, 1, t), b)
         IN  IF Waits(at, k, sc, t) THEN a = b ELSE Onward(at, k0, k, sc, t, a)
<1> DEFINE s == SubSeq(doc, 1, t)
           out == SubSeq(reply, k0 + 1, k)
           b == [out |-> out, scan |-> sc]
           esc == decodeEscape(s, sc.cursor)
           stays == b.scan.state # "in_string" \/ Symbol(s, sc.cursor) = "none"
                    \/ (sc.pendingEscape /\ esc = NoEscape)
           i == at[k + 1]
<1>0. /\ reply \in Seq(Chars) /\ doc \in Seq(Symbols) /\ Len(reply) \in Nat /\ Len(doc) \in Nat
      /\ k \in 0..Len(reply) /\ k + 1 \in 1..Len(reply) + 1 /\ t \in Nat /\ k0 \in Nat /\ k \in Nat
  BY LayoutTyped
<1>1. i \in Nat \ {0}
  BY <1>0, LayoutTyped
<1>2. /\ b.scan = sc /\ b.out = out
      /\ \A d : [b EXCEPT !.scan = d] = [out |-> out, scan |-> d]
  <2> HIDE DEF out
  <2> QED OBVIOUS
<1>3. Advance(s, b) =
        CASE stays -> b
          [] ~stays /\ sc.pendingEscape ->
               [out |-> out \o esc.text, scan |-> ScanAt("in_string", sc.cursor + esc.consumed, FALSE)]
          [] ~stays /\ ~sc.pendingEscape /\ s[sc.cursor] = "\\" ->
               [out |-> out, scan |-> ScanAt("in_string", sc.cursor + 1, TRUE)]
          [] ~stays /\ ~sc.pendingEscape /\ s[sc.cursor] = "quote" ->
               [out |-> out, scan |-> ScanAt("done", sc.cursor + 1, FALSE)]
          [] OTHER -> [out |-> Append(out, s[sc.cursor]), scan |-> ScanAt("in_string", sc.cursor + 1, FALSE)]
  BY <1>2, Zenon DEF Advance
<1>4. stays <=> \/ sc.state # "in_string" \/ Symbol(s, sc.cursor) = "none"
                \/ sc.pendingEscape /\ esc = NoEscape
  BY <1>2
<1>11. \A c, w : /\ ScanAt("in_string", c, w).state = "in_string" /\ ScanAt("in_string", c, w).cursor = c
                 /\ ScanAt("in_string", c, w).pendingEscape = w
  BY DEF ScanAt
<1>12. \A c, w : ScanAt("done", c, w).state = "done" /\ ScanAt("done", c, w).cursor = c
  BY DEF ScanAt
<1>5. \A m \in k..Len(reply) : m = k + 1 /\ k < Len(reply) => Append(out, reply[m]) = SubSeq(reply, k0 + 1, m)
  BY <1>0
<1> DEFINE Goes(m, d) == /\ m \in k..Len(reply) /\ Advance(s, b) = [out |-> SubSeq(reply, k0 + 1, m), scan |-> d]
                         /\ Place(at, m, d, t) /\ d.cursor > sc.cursor
<1>6. SUFFICES \/ Advance(s, b) = b /\ Waits(at, k, sc, t)
               \/ ~Waits(at, k, sc, t) /\ \E m, d : Goes(m, d)
  BY DEF Onward
<1> HIDE DEF stays, b, s, out, i
<1>7. CASE sc.state = "done"
  BY <1>3, <1>4, <1>7 DEF Waits
<1>8. CASE sc = ScanAt("in_string", i, FALSE) /\ i - 1 <= t
  <2>0. sc.state = "in_string" /\ sc.cursor = i /\ sc.pendingEscape = FALSE
    BY <1>8, <1>11
  <2>1. CASE i > t
    <3>1. Symbol(s, i) = "none"
      BY <1>0, <1>1, <2>1, SymbolIs DEF s
    <3>2. i = t + 1
      BY <1>0, <1>1, <1>8, <2>1
    <3> QED BY <1>3, <1>4, <2>0, <3>1, <3>2 DEF Waits
  <2>2. CASE i <= t
    <3>0. s[i] = doc[i] /\ Symbol(s, i) = doc[i] /\ ~Waits(at, k, sc, t)
      BY <1>0, <1>1, <2>0, <2>2, SymbolIs DEF s, Waits
    <3>1. CASE k = Len(reply)
      <4>1. doc[i] = "quote"
        BY <3>1 DEF Layout, i
      <4>2. ~stays
        BY <1>4, <2>0, <3>0, <4>1
      <4> DEFINE d == ScanAt("done", i + 1, FALSE)
      <4>3. Advance(s, b) = [out |-> out, scan |-> d]
        BY <1>3, <2>0, <3>0, <4>1, <4>2
      <4>4. Place(at, k, d, t)
        BY <2>2, <3>1 DEF Place, i
      <4>5. d.cursor > sc.cursor
        BY <1>1, <2>0 DEF ScanAt
      <4> HIDE DEF d
      <4>6. Goes(k, d)
        BY <1>0, <4>3, <4>4, <4>5 DEF out
      <4> QED BY <3>0, <4>6
    <3>2. CASE k < Len(reply) /\ doc[i] = "a"
      <4>1. reply[k + 1] = "a" /\ at[k + 2] = i + 1
        <5>1. LET c == reply[k + 1] IN
                \/ c = "a" /\ doc[i] = "a" /\ at[k + 2] = i + 1
                \/ doc[i] = "\\"
          BY <1>0, <3>2, CharIs DEF i
        <5> QED BY <3>2, <5>1
      <4>2. ~stays
        BY <1>4, <2>0, <3>0, <3>2
      <4>3. Advance(s, b) = [out |-> Append(out, "a"), scan |-> ScanAt("in_string", i + 1, FALSE)]
        BY <1>3, <2>0, <3>0, <3>2, <4>2
      <4> DEFINE m == k + 1
                 d == ScanAt("in_string", i + 1, FALSE)
      <4>4. m \in k..Len(reply) /\ Append(out, "a") = SubSeq(reply, k0 + 1, m)
        BY <1>0, <1>5, <3>2, <4>1
      <4>5. Place(at, m, d, t)
        <5>1. at[m + 1] = i + 1 /\ (i + 1) - 1 <= t
          BY <1>0, <1>1, <2>2, <4>1
        <5>2. d = ScanAt("in_string", at[m + 1], FALSE)
          BY <5>1
        <5> HIDE DEF d, m
        <5> QED BY <5>1, <5>2 DEF Place
      <4>6. d.cursor > sc.cursor
        BY <1>1, <2>0 DEF ScanAt
      <4>7. Goes(m, d)
        BY <4>3, <4>4, <4>5, <4>6
      <4> QED BY <3>0, <4>7
    <3>3. CASE k < Len(reply) /\ doc[i] = "\\"
      <4>2. ~stays
        BY <1>4, <2>0, <3>0, <3>3
      <4> DEFINE d == ScanAt("in_string", i + 1, TRUE)
      <4>3. Advance(s, b) = [out |-> out, scan |-> d]
        BY <1>3, <2>0, <3>0, <3>3, <4>2
      <4>4. Place(at, k, d, t)
        BY <2>2, <3>3 DEF Place, i
      <4>5. d.cursor > sc.cursor
        BY <1>1, <2>0 DEF ScanAt
      <4> HIDE DEF d
      <4>6. Goes(k, d)
        BY <1>0, <4>3, <4>4, <4>5 DEF out
      <4> QED BY <3>0, <4>6
    <3>4. k < Len(reply) => doc[i] \in {"a", "\\"}
      BY <1>0, CharIs DEF i
    <3> QED BY <1>0, <3>1, <3>2, <3>3, <3>4
  <2> QED BY <1>0, <1>1, <2>1, <2>2
<1>9. CASE k < Len(reply) /\ sc = ScanAt("in_string", i + 1, TRUE) /\ i <= t /\ doc[i] = "\\"
  <2>0. sc.state = "in_string" /\ sc.cursor = i + 1 /\ sc.pendingEscape = TRUE /\ i + 1 \in Nat \ {0}
    BY <1>1, <1>9 DEF ScanAt
  <2>1. /\ at[k + 2] \in Nat
        /\ \/ reply[k + 1] = "nl" /\ doc[i + 1] = "n" /\ at[k + 2] = i + 2
           \/ reply[k + 1] = "q" /\ doc[i + 1] = "quote" /\ at[k + 2] = i + 2
           \/ /\ reply[k + 1] = "uni" /\ doc[i + 1] = "u" /\ at[k + 2] = i + 6
              /\ doc[i + 2] = "h" /\ doc[i + 3] = "h" /\ doc[i + 4] = "h" /\ doc[i + 5] = "h"
    <3>1. LET c == reply[k + 1] IN
             /\ at[k + 2] \in Nat
             /\ \/ c = "a" /\ doc[i] = "a" /\ at[k + 2] = i + 1
                \/ c = "nl" /\ doc[i] = "\\" /\ doc[i + 1] = "n" /\ at[k + 2] = i + 2
                \/ c = "q" /\ doc[i] = "\\" /\ doc[i + 1] = "quote" /\ at[k + 2] = i + 2
                \/ /\ c = "uni" /\ doc[i] = "\\" /\ doc[i + 1] = "u" /\ at[k + 2] = i + 6
                   /\ doc[i + 2] = "h" /\ doc[i + 3] = "h" /\ doc[i + 4] = "h" /\ doc[i + 5] = "h"
      BY <1>0, <1>9, CharIs DEF i
    <3> QED BY <1>9, <3>1
  <2>2. CASE i + 1 > t
    <3>1. Symbol(s, i + 1) = "none"
      BY <1>0, <2>0, <2>2, SymbolIs DEF s
    <3>2. t < at[k + 2] - 1
      BY <1>0, <1>1, <2>1, <2>2
    <3> QED BY <1>3, <1>4, <2>0, <3>1, <3>2 DEF Waits
  <2>3. CASE i + 1 <= t
    <3>0. Symbol(s, i + 1) = doc[i + 1] /\ Len(s) = t
      BY <1>0, <2>0, <2>3, SymbolIs DEF s
    <3>1. CASE doc[i + 1] = "u" /\ i + 5 > t
      <4>1. i + 1 + 4 > Len(s)
        BY <1>0, <1>1, <3>0, <3>1
      <4>2. esc = NoEscape
        BY <2>0, <3>0, <3>1, <4>1 DEF decodeEscape
      <4>3. t < at[k + 2] - 1
        BY <1>0, <1>1, <2>1, <3>1
      <4> QED BY <1>3, <1>4, <2>0, <4>2, <4>3 DEF Waits
    <3>2. CASE ~(doc[i + 1] = "u" /\ i + 5 > t)
      <4>1. esc = Escape(reply[k + 1], at[k + 2] - (i + 1))
        <5>1. CASE doc[i + 1] = "u"
          <6>1. i + 5 <= t /\ i + 1 + 4 <= Len(s)
            BY <1>0, <1>1, <3>0, <3>2, <5>1
          <6>2. \A j \in 1..4 : Symbol(s, i + 1 + j) = "h"
            <7> SUFFICES ASSUME NEW j \in 1..4 PROVE Symbol(s, i + 1 + j) = "h"
              OBVIOUS
            <7>1. i + 1 + j \in Nat \ {0} /\ i + 1 + j <= t /\ i + 1 + j \in {i + 2, i + 3, i + 4, i + 5}
              BY <1>0, <1>1, <6>1
            <7>2. doc[i + 1 + j] = "h"
              BY <2>1, <5>1, <7>1
            <7> QED BY <1>0, <7>1, <7>2, SymbolIs DEF s
          <6>3. CodeUnit(s, i + 1) = Escape("uni", 5)
            BY <6>2 DEF CodeUnit
          <6>4. reply[k + 1] = "uni" /\ at[k + 2] - (i + 1) = 5
            BY <1>1, <2>1, <5>1
          <6>5. ~(i + 1 + 4 > Len(s))
            BY <1>0, <1>1, <3>0, <6>1
          <6>6. decodeEscape(s, i + 1) = CodeUnit(s, i + 1)
            BY <3>0, <5>1, <6>1, <6>5 DEF decodeEscape
          <6> QED BY <2>0, <6>3, <6>4, <6>6
        <5>2. CASE doc[i + 1] # "u"
          <6>1. \/ reply[k + 1] = "nl" /\ doc[i + 1] = "n"
                \/ reply[k + 1] = "q" /\ doc[i + 1] = "quote"
            BY <2>1, <5>2
          <6>2. at[k + 2] - (i + 1) = 1
            BY <1>1, <2>1, <5>2
          <6>3. esc = Escape(reply[k + 1], 1)
            BY <2>0, <3>0, <6>1 DEF decodeEscape
          <6> QED BY <6>2, <6>3
        <5> QED BY <5>1, <5>2
      <4> DEFINE n == at[k + 2] - (i + 1)
                 d == ScanAt("in_string", at[k + 2], FALSE)
      <4>2. n \in Nat \ {0} /\ i + 1 + n = at[k + 2] /\ at[k + 2] - 1 <= t
        BY <1>0, <1>1, <2>1, <2>3, <3>2
      <4>3. esc.text = <<reply[k + 1]>> /\ esc.consumed = n /\ esc # NoEscape
        <5>1. esc.text = <<reply[k + 1]>> /\ esc.consumed = n
          BY <4>1 DEF Escape
        <5>2. NoEscape.consumed = 0
          BY DEF NoEscape
        <5> QED BY <4>2, <5>1, <5>2
      <4>4. ~stays
        BY <1>4, <2>0, <2>1, <3>0, <4>3
      <4>5. Advance(s, b) = [out |-> out \o <<reply[k + 1]>>, scan |-> d]
        BY <1>3, <2>0, <4>2, <4>3, <4>4
      <4> DEFINE m == k + 1
      <4>6. m \in k..Len(reply) /\ out \o <<reply[m]>> = SubSeq(reply, k0 + 1, m)
        <5>1. out \in Seq(Chars)
          BY <1>0 DEF out
        <5>2. out \o <<reply[m]>> = Append(out, reply[m])
          BY <5>1
        <5> QED BY <1>0, <1>5, <1>9, <5>2
      <4>7. Place(at, m, d, t)
        <5>1. at[m + 1] = at[k + 2]
          BY <1>0
        <5> QED BY <4>2, <5>1 DEF Place
      <4>8. d.cursor > sc.cursor
        BY <1>1, <2>0, <4>2 DEF ScanAt
      <4>9. Goes(m, d)
        BY <4>5, <4>6, <4>7, <4>8
      <4>10. ~Waits(at, k, sc, t)
        <5>1. sc.state = "in_string" /\ sc.pendingEscape /\ ~(t < at[k + 2] - 1)
          BY <1>0, <2>0, <2>1, <4>2
        <5> QED BY <5>1 DEF Waits
      <4> QED BY <4>9, <4>10
    <3> QED BY <3>1, <3>2
  <2> QED BY <1>0, <1>1, <2>2, <2>3
<1>10. sc = ScanAt("done", i + 1, FALSE) => sc.state = "done"
  BY DEF ScanAt
<1> QED BY <1>7, <1>8, <1>9, <1>10 DEF Place, i

(* Induction over the numbers of a set.                                    *)
LEMMA CountsUp ==
  ASSUME NEW S \in SUBSET Nat, 0 \in S, \A n \in S : n + 1 \in S
  PROVE  S = Nat
<1>1. SUFFICES ASSUME Nat \ S # {} PROVE FALSE
  OBVIOUS
<1>2. PICK m \in Nat \ S : \A n \in Nat \ S : m <= n
  BY <1>1, Smallest
<1>3. m - 1 \in Nat /\ ~(m <= m - 1)
  BY <1>2
<1>4. m - 1 \in S /\ (m - 1) + 1 = m
  BY <1>2, <1>3
<1> QED BY <1>2, <1>4

(* Round after round, until there is nothing to go on with.                *)
LEMMA InStringIs ==
  ASSUME NEW at, Layout(at), NEW t \in 0..Len(doc), NEW k0 \in 0..Len(reply),
         NEW sc, Place(at, k0, sc, t)
  PROVE  \E k \in k0..Len(reply) : \E d :
           /\ InString(SubSeq(doc, 1, t), sc) = [out |-> SubSeq(reply, k0 + 1, k), scan |-> d]
           /\ Place(at, k, d, t) /\ Waits(at, k, d, t)
<1> DEFINE s == SubSeq(doc, 1, t)
           is(f, m) == f = [n \in 0..m |-> IF n = 0 THEN [out |-> <<>>, scan |-> sc] ELSE Advance(s, f[n - 1])]
<1>0. /\ reply \in Seq(Chars) /\ doc \in Seq(Symbols) /\ Len(reply) \in Nat /\ Len(doc) \in Nat
      /\ t \in Nat /\ Len(s) = t /\ \A k \in 1..Len(reply) + 1 : at[k] \in Nat /\ at[k] >= 6
  BY LayoutTyped
<1> HIDE DEF s
<1>1. \A m \in Nat : \E f : is(f, m)
  <2> DEFINE S == {m \in Nat : \E f : is(f, m)}
  <2>1. 0 \in S
    <3>1. is([n \in 0..0 |-> [out |-> <<>>, scan |-> sc]], 0)
      OBVIOUS
    <3> QED BY <3>1
  <2>2. ASSUME NEW m \in S PROVE m + 1 \in S
    <3>1. PICK f : is(f, m)
      BY <2>2
    <3> DEFINE g == [n \in 0..m + 1 |-> IF n = m + 1 THEN Advance(s, f[m]) ELSE f[n]]
    <3>2. \A n \in 0..m + 1 : g[n] = IF n = 0 THEN [out |-> <<>>, scan |-> sc] ELSE Advance(s, g[n - 1])
      <4> SUFFICES ASSUME NEW n \in 0..m + 1
                   PROVE  g[n] = IF n = 0 THEN [out |-> <<>>, scan |-> sc] ELSE Advance(s, g[n - 1])
        OBVIOUS
      <4>1. m \in Nat /\ \A i \in 0..m : f[i] = IF i = 0 THEN [out |-> <<>>, scan |-> sc] ELSE Advance(s, f[i - 1])
        BY <3>1
      <4>2. CASE n = m + 1
        <5>1. n - 1 = m /\ n # 0 /\ m \in 0..m + 1 /\ m # m + 1
          BY <4>1, <4>2
        <5> QED BY <4>2, <5>1
      <4>3. CASE n # m + 1
        <5>1. n \in 0..m /\ (n # 0 => n - 1 \in 0..m + 1 /\ n - 1 # m + 1)
          BY <4>1, <4>3
        <5> QED BY <4>1, <4>3, <5>1
      <4> QED BY <4>2, <4>3
    <3>3. is(g, m + 1)
      <4>1. g = [n \in 0..m + 1 |-> g[n]]
        OBVIOUS
      <4> HIDE DEF g
      <4> QED BY <3>2, <4>1
    <3> HIDE DEF is, g
    <3>4. m + 1 \in Nat /\ \E e : is(e, m + 1)
      BY <2>2, <3>3
    <3> QED BY <3>4
  <2> HIDE DEF is
  <2>3. S \in SUBSET Nat
    OBVIOUS
  <2>4. S = Nat
    <3> HIDE DEF S
    <3> QED BY <2>1, <2>2, <2>3, CountsUp
  <2> QED BY <2>4
<1> DEFINE After == CHOOSE f : is(f, Len(s))
<1>2. InString(s, sc) = After[Len(s)]
  BY Zenon DEF InString
<1>3. is(After, Len(s))
  BY <1>0, <1>1
<1>4. \A n \in 0..t : After[n] = IF n = 0 THEN [out |-> <<>>, scan |-> sc] ELSE Advance(s, After[n - 1])
  <2> HIDE DEF After
  <2> QED BY <1>0, <1>3
<1> HIDE DEF After, is
<1> DEFINE Stands(n) ==
      \E k \in k0..Len(reply) : \E d :
        /\ After[n] = [out |-> SubSeq(reply, k0 + 1, k), scan |-> d]
        /\ Place(at, k, d, t)
        /\ Waits(at, k, d, t) \/ (d.cursor \in Nat /\ d.cursor >= sc.cursor + n)
<1>5. \A k \in k0..Len(reply) : \A d : Place(at, k, d, t) =>
        /\ d.cursor \in Nat \ {0}
        /\ d.cursor >= t + 1 => Waits(at, k, d, t)
  <2> SUFFICES ASSUME NEW k \in k0..Len(reply), NEW d, Place(at, k, d, t)
               PROVE  d.cursor \in Nat \ {0} /\ (d.cursor >= t + 1 => Waits(at, k, d, t))
    OBVIOUS
  <2>1. at[k + 1] \in Nat /\ at[k + 1] >= 6 /\ k \in 0..Len(reply)
    BY <1>0
  <2>2. CASE d = ScanAt("in_string", at[k + 1], FALSE) /\ at[k + 1] - 1 <= t
    <3>1. d.cursor = at[k + 1] /\ d.state = "in_string" /\ ~d.pendingEscape
      BY <2>2 DEF ScanAt
    <3>2. d.cursor >= t + 1 => d.cursor = t + 1
      <4>1. d.cursor = at[k + 1] /\ at[k + 1] \in Nat /\ at[k + 1] - 1 <= t /\ t \in Nat
        BY <1>0, <2>1, <2>2, <3>1
      <4> QED BY ONLY <4>1
    <3>3. d.cursor \in Nat \ {0}
      BY <2>1, <3>1
    <3> QED BY <3>1, <3>2, <3>3 DEF Waits
  <2>3. CASE k < Len(reply) /\ d = ScanAt("in_string", at[k + 1] + 1, TRUE)
             /\ at[k + 1] <= t /\ doc[at[k + 1]] = "\\"
    <3>1. d.cursor = at[k + 1] + 1 /\ d.state = "in_string" /\ d.pendingEscape
      BY <2>3 DEF ScanAt
    <3>2. at[k + 2] \in Nat /\ at[k + 2] >= at[k + 1] + 2
      <4> DEFINE i == at[k + 1]
                 c == reply[k + 1]
      <4>1. /\ at[k + 2] \in Nat
            /\ \/ c = "a" /\ doc[i] = "a" /\ at[k + 2] = i + 1
               \/ at[k + 2] = i + 2
               \/ at[k + 2] = i + 6
        BY <2>1, <2>3, CharIs
      <4> QED BY <2>1, <2>3, <4>1
    <3>3. d.cursor >= t + 1 => t < at[k + 2] - 1
      <4>1. /\ d.cursor = at[k + 1] + 1 /\ at[k + 1] \in Nat /\ at[k + 1] <= t /\ t \in Nat
            /\ at[k + 2] \in Nat /\ at[k + 2] >= at[k + 1] + 2
        BY <1>0, <2>1, <2>3, <3>1, <3>2
      <4> QED BY ONLY <4>1
    <3>4. d.cursor \in Nat \ {0}
      BY <2>1, <3>1
    <3> QED BY <3>1, <3>3, <3>4 DEF Waits
  <2>4. CASE k = Len(reply) /\ d = ScanAt("done", at[k + 1] + 1, FALSE) /\ at[k + 1] <= t
    <3>1. d.cursor = at[k + 1] + 1 /\ d.state = "done"
      BY <2>4 DEF ScanAt
    <3> QED BY <2>1, <3>1 DEF Waits
  <2> QED BY <2>2, <2>3, <2>4 DEF Place
<1>6. Stands(0)
  <2>1. After[0] = [out |-> <<>>, scan |-> sc]
    BY <1>0, <1>4
  <2>2. SubSeq(reply, k0 + 1, k0) = <<>> /\ k0 \in k0..Len(reply)
    BY <1>0
  <2>3. sc.cursor \in Nat /\ sc.cursor >= sc.cursor + 0
    BY <1>5, <2>2
  <2> QED BY <2>1, <2>2, <2>3
<1>7. ASSUME NEW n \in Nat, n + 1 <= t, Stands(n) PROVE Stands(n + 1)
  <2>1. PICK k, d :
          /\ k \in k0..Len(reply)
          /\ After[n] = [out |-> SubSeq(reply, k0 + 1, k), scan |-> d]
          /\ Place(at, k, d, t)
          /\ Waits(at, k, d, t) \/ (d.cursor \in Nat /\ d.cursor >= sc.cursor + n)
    BY <1>7
  <2>2. After[n + 1] = Advance(s, After[n])
    <3>1. n + 1 \in 0..t /\ n + 1 # 0 /\ (n + 1) - 1 = n
      BY <1>0, <1>7
    <3> QED BY <1>4, <3>1
  <2>3. CASE Waits(at, k, d, t)
    <3>1. After[n + 1] = After[n]
      BY <1>0, <2>1, <2>2, <2>3, AdvanceIs DEF s
    <3> QED BY <2>1, <2>3, <3>1
  <2>4. CASE ~Waits(at, k, d, t)
    <3>0. /\ After[n] = [out |-> SubSeq(reply, k0 + 1, k), scan |-> d] /\ k \in k0..Len(reply)
          /\ Place(at, k, d, t) /\ ~Waits(at, k, d, t) /\ Layout(at)
      BY <2>1, <2>4
    <3>1. PICK m, e :
            /\ m \in k..Len(reply)
            /\ After[n + 1] = [out |-> SubSeq(reply, k0 + 1, m), scan |-> e]
            /\ Place(at, m, e, t) /\ e.cursor > d.cursor
      <4>1. Onward(at, k0, k, d, t, Advance(SubSeq(doc, 1, t), [out |-> SubSeq(reply, k0 + 1, k), scan |-> d]))
        BY <3>0, AdvanceIs
      <4>2. Onward(at, k0, k, d, t, After[n + 1])
        BY <2>2, <3>0, <4>1 DEF s
      <4> QED BY <4>2 DEF Onward
    <3>2. m \in k0..Len(reply)
      BY <1>0, <3>0, <3>1
    <3>3. e.cursor \in Nat /\ sc.cursor \in Nat
      <4>1. k0 \in k0..Len(reply)
        BY <1>0
      <4> QED BY <1>5, <3>1, <3>2, <4>1
    <3>4. e.cursor >= sc.cursor + (n + 1)
      BY <2>1, <2>4, <3>1, <3>3
    <3> QED BY <3>1, <3>2, <3>3, <3>4
  <2> QED BY <2>3, <2>4
<1>8. Stands(t)
  <2> DEFINE S == {n \in Nat : n <= t => Stands(n)}
  <2> HIDE DEF Stands
  <2>1. 0 \in S
    BY <1>6
  <2>2. ASSUME NEW n \in S PROVE n + 1 \in S
    BY <1>0, <1>7, <2>2
  <2>3. S = Nat
    <3>1. S \in SUBSET Nat
      OBVIOUS
    <3> HIDE DEF S
    <3> QED BY <2>1, <2>2, <3>1, CountsUp
  <2>4. t \in S
    BY <1>0, <2>3
  <2> QED BY <1>0, <2>4
<1>9. PICK k, d :
        /\ k \in k0..Len(reply)
        /\ After[t] = [out |-> SubSeq(reply, k0 + 1, k), scan |-> d]
        /\ Place(at, k, d, t)
        /\ Waits(at, k, d, t) \/ (d.cursor \in Nat /\ d.cursor >= sc.cursor + t)
  BY <1>8
<1>10. Waits(at, k, d, t)
  <2>1. sc.cursor \in Nat \ {0}
    <3>1. k0 \in k0..Len(reply)
      BY <1>0
    <3> QED BY <1>5, <3>1
  <2>2. CASE d.cursor \in Nat /\ d.cursor >= sc.cursor + t
    <3>1. d.cursor >= t + 1
      BY <1>0, <2>1, <2>2
    <3> QED BY <1>5, <1>9, <3>1
  <2> QED BY <1>9, <2>2
<1> QED BY <1>0, <1>2, <1>9, <1>10 DEF s

(* What the extractor holds and what it has shown, of a document of which  *)
(* so much has come.                                                       *)
Follows(at, sc, out, t) ==
  \/ t < 3 /\ out = <<>> /\ sc = ScanAt("seeking_key", 1, FALSE)
  \/ t = 3 /\ out = <<>> /\ sc = ScanAt("seeking_colon", 4, FALSE)
  \/ 4 <= t /\ t < at[1] - 1 /\ out = <<>> /\ sc = ScanAt("seeking_open_quote", t + 1, FALSE)
  \/ /\ at[1] - 1 <= t
     /\ \E k \in 0..Len(reply) :
          out = SubSeq(reply, 1, k) /\ Place(at, k, sc, t) /\ Waits(at, k, sc, t)

(* What a pause holds.                                                     *)
LEMMA PauseIs == \A st, i : Pause(st, i).out = <<>> /\ Pause(st, i).scan = ScanAt(st, i, FALSE)
BY DEF Pause

(* A sequence of two.                                                      *)
LEMMA PairIs ==
  ASSUME NEW S, NEW x \in S, NEW y \in S
  PROVE  <<x, y>> \in Seq(S) /\ Len(<<x, y>>) = 2 /\ <<x, y>>[1] = x /\ <<x, y>>[2] = y
OBVIOUS

(* The start of a document.                                                *)
LEMMA HeadIs ==
  ASSUME NEW at, Layout(at)
  PROVE  /\ at[1] \in {6, 7} /\ doc[1] = "open" /\ doc[2] = "re" /\ doc[3] = "ply" /\ doc[4] = ":"
         /\ doc[at[1] - 1] = "quote" /\ (at[1] = 7 => doc[5] = "blank")
         /\ reply \in Seq(Chars) /\ doc \in Seq(Symbols) /\ Len(reply) \in Nat /\ Len(doc) \in Nat
<1>1. /\ at[1] \in {6, 7} /\ doc[1] = "open" /\ doc[2] = "re" /\ doc[3] = "ply" /\ doc[4] = ":"
      /\ doc[at[1] - 1] = "quote" /\ (at[1] = 7 => doc[5] = "blank")
  BY DEF Layout
<1> QED BY <1>1, LayoutTyped

LEMMA PrefixIs ==
  ASSUME doc \in Seq(Symbols), NEW t \in 0..Len(doc), NEW s, s = SubSeq(doc, 1, t), NEW n \in Nat \ {0}
  PROVE  /\ n <= t => s[n] = doc[n] /\ Symbol(s, n) = doc[n]
         /\ n > t => Symbol(s, n) = "none"
<1>1. /\ n <= t => SubSeq(doc, 1, t)[n] = doc[n] /\ Symbol(SubSeq(doc, 1, t), n) = doc[n]
      /\ n > t => Symbol(SubSeq(doc, 1, t), n) = "none"
  BY SymbolIs
<1> QED BY <1>1

(* From the colon on.                                                      *)
LEMMA OpenQuoteIs ==
  ASSUME NEW at, Layout(at), NEW t \in 0..Len(doc), NEW s, s = SubSeq(doc, 1, t),
         NEW i \in {5, 6}, i <= at[1] - 1, i <= t + 1, t >= 4
  PROVE  Follows(at, OpenQuote(s, i).scan, OpenQuote(s, i).out, t)
<1> DEFINE j == SkipBlanks(s, i)
<1>0. t \in Nat /\ at[1] \in {6, 7} /\ Len(reply) \in Nat /\ i \in Nat \ {0} /\ doc \in Seq(Symbols)
  <2>1. at[1] \in {6, 7} /\ Len(reply) \in Nat /\ doc \in Seq(Symbols)
    BY HeadIs
  <2> QED BY <2>1
<1>1. \A n \in Nat \ {0} : /\ n <= t => Symbol(s, n) = doc[n]
                           /\ n > t => Symbol(s, n) = "none"
  <2> SUFFICES ASSUME NEW n \in Nat \ {0}
               PROVE  /\ n <= t => Symbol(s, n) = doc[n]
                      /\ n > t => Symbol(s, n) = "none"
    OBVIOUS
  <2> QED BY <1>0, PrefixIs
<1>2. doc[at[1] - 1] = "quote" /\ (at[1] = 7 => doc[5] = "blank")
  BY HeadIs
<1>3. CASE t < at[1] - 1
  <2>1. j = t + 1
    <3>1. CASE i = t + 1
      <4>1. Symbol(s, i) = "none"
        BY <1>0, <1>1, <3>1
      <4> QED BY <3>1, <4>1 DEF SkipBlanks
    <3>2. CASE i # t + 1
      <4>1. at[1] = 7 /\ t = 5 /\ i = 5
        BY <1>0, <1>3, <3>2
      <4>2. Symbol(s, 5) = "blank"
        <5>1. doc[5] = "blank"
          BY ONLY <1>2, <4>1
        <5>2. 5 \in Nat \ {0} /\ 5 <= t
          BY ONLY <4>1
        <5> QED BY <1>1, <5>1, <5>2
      <4> QED BY <4>1, <4>2 DEF SkipBlanks
    <3> QED BY <3>1, <3>2
  <2>2. Symbol(s, j) = "none"
    BY <1>0, <1>1, <2>1
  <2>3. OpenQuote(s, i) = Pause("seeking_open_quote", t + 1)
    BY <2>1, <2>2 DEF OpenQuote
  <2>4. OpenQuote(s, i).out = <<>> /\ OpenQuote(s, i).scan = ScanAt("seeking_open_quote", t + 1, FALSE)
    BY <2>3, PauseIs
  <2> QED BY <1>0, <1>3, <2>4 DEF Follows
<1>4. CASE t >= at[1] - 1
  <2>1. j = at[1] - 1
    <3>1. CASE i = at[1] - 1
      <4>1. Symbol(s, i) = "quote"
        BY <1>0, <1>1, <1>2, <1>4, <3>1
      <4> QED BY <3>1, <4>1 DEF SkipBlanks
    <3>2. CASE i # at[1] - 1
      <4>1. at[1] = 7 /\ i = 5 /\ 5 <= t
        BY <1>0, <1>4, <3>2
      <4>2. Symbol(s, 5) = "blank"
        <5>1. doc[5] = "blank"
          BY ONLY <1>2, <4>1
        <5>2. 5 \in Nat \ {0} /\ 5 <= t
          BY ONLY <4>1
        <5> QED BY <1>1, <5>1, <5>2
      <4>3. j = i + 1
        <5>1. Symbol(s, i) = "blank"
          BY Zenon, <4>1, <4>2
        <5> QED BY Zenon, <5>1 DEF SkipBlanks
      <4>4. i + 1 = at[1] - 1
        BY ONLY <4>1
      <4> QED BY Zenon, <4>3, <4>4
    <3> QED BY Zenon, <3>1, <3>2
  <2>2. Symbol(s, at[1] - 1) = "quote" /\ (at[1] - 1) + 1 = at[1]
    <3>1. at[1] - 1 \in Nat \ {0} /\ at[1] - 1 <= t
      BY <1>0, <1>4
    <3>2. Symbol(s, at[1] - 1) = doc[at[1] - 1]
      BY <1>1, <3>1
    <3>3. (at[1] - 1) + 1 = at[1]
      BY <1>0
    <3> QED BY <1>2, <3>2, <3>3
  <2> DEFINE sc == ScanAt("in_string", at[1], FALSE)
  <2>3. OpenQuote(s, i) = InString(s, sc)
    BY <2>1, <2>2 DEF OpenQuote
  <2>4. Place(at, 0, sc, t)
    <3>1. at[0 + 1] = at[1]
      OBVIOUS
    <3> QED BY <1>4, <3>1 DEF Place
  <2> HIDE DEF sc
  <2>5. PICK k, d :
          /\ k \in 0..Len(reply)
          /\ InString(s, sc) = [out |-> SubSeq(reply, 0 + 1, k), scan |-> d]
          /\ Place(at, k, d, t) /\ Waits(at, k, d, t)
    <3>1. 0 \in 0..Len(reply)
      BY <1>0
    <3> QED BY <2>4, <3>1, InStringIs
  <2>6. OpenQuote(s, i).scan = d /\ OpenQuote(s, i).out = SubSeq(reply, 1, k)
    BY <2>3, <2>5
  <2> QED BY <1>4, <2>5, <2>6 DEF Follows
<1> QED BY <1>0, <1>3, <1>4

(* From the key on.                                                        *)
LEMMA ColonIs ==
  ASSUME NEW at, Layout(at), NEW t \in 0..Len(doc), t >= 3, NEW s, s = SubSeq(doc, 1, t)
  PROVE  Follows(at, Colon(s, 4).scan, Colon(s, 4).out, t)
<1>0. t \in Nat /\ at[1] \in {6, 7} /\ doc \in Seq(Symbols) /\ doc[4] = ":"
  <2>1. at[1] \in {6, 7} /\ doc \in Seq(Symbols) /\ doc[4] = ":"
    BY HeadIs
  <2> QED BY <2>1
<1>1. /\ 4 <= t => Symbol(s, 4) = ":"
      /\ 4 > t => Symbol(s, 4) = "none"
  <2>1. /\ 4 <= t => Symbol(s, 4) = doc[4]
        /\ 4 > t => Symbol(s, 4) = "none"
    <3>1. 4 \in Nat \ {0}
      OBVIOUS
    <3> QED BY <1>0, <3>1, PrefixIs
  <2> QED BY <1>0, <2>1
<1>2. SkipBlanks(s, 4) = 4
  <2>1. Symbol(s, 4) \in {":", "none"}
    BY <1>0, <1>1
  <2> QED BY <2>1 DEF SkipBlanks
<1>3. CASE t = 3
  <2>1. Symbol(s, 4) = "none"
    BY <1>1, <1>3
  <2>2. Colon(s, 4) = Pause("seeking_colon", 4)
    BY <1>2, <2>1 DEF Colon
  <2>3. Colon(s, 4).out = <<>> /\ Colon(s, 4).scan = ScanAt("seeking_colon", 4, FALSE)
    BY <2>2, PauseIs
  <2> QED BY <1>3, <2>3 DEF Follows
<1>4. CASE t >= 4
  <2>1. Symbol(s, 4) = ":"
    BY <1>0, <1>1, <1>4
  <2>2. Colon(s, 4) = OpenQuote(s, 4 + 1)
    BY <1>2, <2>1 DEF Colon
  <2>3. 5 \in {5, 6} /\ 5 <= at[1] - 1 /\ 5 <= t + 1 /\ 4 + 1 = 5
    BY <1>0, <1>4
  <2>4. Follows(at, OpenQuote(s, 5).scan, OpenQuote(s, 5).out, t)
    BY <1>4, <2>3, OpenQuoteIs
  <2> QED BY <2>2, <2>3, <2>4
<1> QED BY <1>0, <1>3, <1>4

(* From the start.                                                         *)
LEMMA KeyIs ==
  ASSUME NEW at, Layout(at), NEW t \in 0..Len(doc), NEW s, s = SubSeq(doc, 1, t)
  PROVE  Follows(at, Key(s, 1).scan, Key(s, 1).out, t)
<1> DEFINE found == {j \in 1..Len(s) - 1 : SubSeq(s, j, j + 1) = KEY}
<1>0. /\ t \in Nat /\ Len(s) = t /\ s \in Seq(Symbols)
      /\ \A i \in 1..t : s[i] = doc[i]
  <2>1. doc \in Seq(Symbols)
    BY HeadIs
  <2> QED BY <2>1
<1>1. KEY = <<"re", "ply">> /\ Len(KEY) = 2
  BY DEF KEY
<1>2. ASSUME NEW j \in 1..t - 1, NEW q, q = SubSeq(s, j, j + 1)
      PROVE  q \in Seq(Symbols) /\ Len(q) = 2 /\ q[1] = s[j] /\ q[2] = s[j + 1]
  <2>1. /\ j \in 1..t /\ j + 1 \in 1..t /\ (j + 1) - j + 1 = 2 /\ j + 2 - 1 = j + 1 /\ j + 1 - 1 = j
    BY <1>0
  <2>2. /\ Len(SubSeq(s, j, j + 1)) = 2 /\ SubSeq(s, j, j + 1) \in Seq(Symbols)
        /\ \A n \in 1..2 : SubSeq(s, j, j + 1)[n] = s[j + n - 1]
    BY <1>0, <2>1
  <2>3. q[1] = s[j + 1 - 1] /\ q[2] = s[j + 2 - 1]
    <3>1. 1 \in 1..2 /\ 2 \in 1..2
      OBVIOUS
    <3> QED BY Zenon, <1>2, <2>2, <3>1
  <2> QED BY <1>2, <2>1, <2>2, <2>3
<1>3. doc[1] = "open" /\ doc[2] = "re" /\ doc[3] = "ply"
  BY HeadIs
<1>4. 1 \notin found
  <2> SUFFICES ASSUME 1 \in 1..t - 1, SubSeq(s, 1, 1 + 1) = KEY PROVE FALSE
    BY <1>0
  <2>1. SubSeq(s, 1, 1 + 1)[1] = s[1]
    BY <1>2
  <2>2. s[1] = "re"
    <3>1. KEY[1] = "re"
      BY <1>1
    <3> QED BY Zenon, <2>1, <3>1
  <2>3. s[1] = "open"
    <3>1. 1 \in 1..t
      BY <1>0
    <3> QED BY <1>0, <1>3, <3>1
  <2> QED BY <2>2, <2>3
<1>5. Key(s, 1) = IF found = {} THEN Pause("seeking_key", Max({1, Len(s) + 1 - Len(KEY)}))
                  ELSE Colon(s, Min(found) + Len(KEY))
  BY DEF Key
<1>6. CASE t < 3
  <2>1. found = {}
    <3>1. \A j \in 1..t - 1 : j = 1
      BY <1>0, <1>6
    <3> QED BY <1>0, <1>4, <3>1
  <2>2. Max({1, Len(s) + 1 - Len(KEY)}) = 1
    <3> DEFINE n == Len(s) + 1 - Len(KEY)
    <3>1. n \in Int /\ n <= 1
      <4>1. Len(s) = t /\ Len(KEY) = 2 /\ t \in Nat /\ t < 3
        BY <1>0, <1>1, <1>6
      <4> HIDE DEF n
      <4>2. n = t + 1 - 2
        BY <4>1 DEF n
      <4> QED BY ONLY <4>1, <4>2
    <3> HIDE DEF n
    <3>2. /\ Max({1, n}) \in {1, n} /\ Max({1, n}) >= 1
      <4>1. \E x \in {1, n} : \A y \in {1, n} : x >= y
        BY <3>1
      <4> QED BY Zenon, <4>1 DEF Max
    <3> QED BY <3>1, <3>2 DEF n
  <2>3. Key(s, 1) = Pause("seeking_key", 1)
    BY <1>5, <2>1, <2>2
  <2>4. Key(s, 1).out = <<>> /\ Key(s, 1).scan = ScanAt("seeking_key", 1, FALSE)
    BY <2>3, PauseIs
  <2> QED BY <1>6, <2>4 DEF Follows
<1>7. CASE t >= 3
  <2>1. 2 \in found
    <3>1. 2 \in 1..t - 1 /\ 2 \in 1..t /\ 2 + 1 \in 1..t
      BY <1>0, <1>7
    <3>2. s[2] = "re" /\ s[2 + 1] = "ply"
      <4>1. s[2] = doc[2] /\ s[2 + 1] = doc[2 + 1] /\ 2 + 1 = 3
        BY <1>0, <3>1
      <4> QED BY <1>3, <4>1
    <3>3. SubSeq(s, 2, 2 + 1) = KEY
      <4> DEFINE q == SubSeq(s, 2, 2 + 1)
      <4>1. q \in Seq(Symbols) /\ Len(q) = 2 /\ q[1] = s[2] /\ q[2] = s[2 + 1]
        BY <1>2, <3>1
      <4> HIDE DEF q
      <4>2. q = <<"re", "ply">>
        <5> DEFINE w == <<"re", "ply">>
        <5>1. w \in Seq(Symbols) /\ Len(w) = 2 /\ w[1] = "re" /\ w[2] = "ply"
          <6>1. "re" \in Symbols /\ "ply" \in Symbols
            BY DEF Symbols
          <6> QED BY <6>1, PairIs
        <5> HIDE DEF w
        <5>2. \A n \in 1..Len(q) : q[n] = w[n]
          <6>1. \A n \in 1..Len(q) : n = 1 \/ n = 2
            BY ONLY <4>1
          <6>2. q[1] = w[1] /\ q[2] = w[2]
            BY Zenon, <3>2, <4>1, <5>1
          <6> QED BY Zenon, <6>1, <6>2
        <5>3. q = w
          BY <4>1, <5>1, <5>2, SeqEqual
        <5> QED BY <5>3 DEF w
      <4> QED BY <1>1, <4>2 DEF q
    <3> QED BY <1>0, <3>1, <3>3
  <2>2. \A j \in found : 2 <= j
    <3> SUFFICES ASSUME NEW j \in found PROVE 2 <= j
      OBVIOUS
    <3>1. j \in Nat /\ j >= 1 /\ j # 1
      BY <1>0, <1>4
    <3> QED BY <3>1
  <2>3. Min(found) = 2
    <3>1. found \in SUBSET Nat
      BY <1>0
    <3> HIDE DEF found
    <3>2. Min(found) \in found /\ \A y \in found : Min(found) <= y
      <4>1. \E x \in found : \A y \in found : x <= y
        BY <2>1, <2>2
      <4> QED BY Zenon, <4>1 DEF Min
    <3> DEFINE m == Min(found)
    <3> HIDE DEF m
    <3>3. m \in Nat /\ m <= 2 /\ 2 <= m
      BY <2>1, <2>2, <3>1, <3>2 DEF m
    <3>4. m = 2
      BY ONLY <3>3
    <3> QED BY <3>4 DEF m
  <2>4. Key(s, 1) = Colon(s, 2 + 2)
    BY <1>1, <1>5, <2>1, <2>3
  <2>5. Follows(at, Colon(s, 4).scan, Colon(s, 4).out, t)
    BY <1>7, ColonIs
  <2>6. 2 + 2 = 4
    OBVIOUS
  <2> QED BY <2>4, <2>5, <2>6
<1> QED BY <1>0, <1>6, <1>7

(* Whatever the chunk, the extractor goes on as if all had come at once.   *)
LEMMA ExtractIs ==
  ASSUME NEW at, Layout(at), NEW t \in 0..Len(doc), NEW u \in t..Len(doc), NEW s, s = SubSeq(doc, 1, u),
         NEW sc, NEW out, Follows(at, sc, out, t)
  PROVE  Follows(at, Extract(s, sc).scan, out \o Extract(s, sc).out, u)
<1> DEFINE x == Extract(s, sc)
<1>0. /\ reply \in Seq(Chars) /\ Len(reply) \in Nat /\ Len(doc) \in Nat
      /\ t \in Nat /\ u \in Nat /\ t <= u /\ u \in 0..Len(doc) /\ at[1] \in {6, 7}
      /\ \A k \in 1..Len(reply) + 1 : at[k] \in Nat
  <2>1. /\ reply \in Seq(Chars) /\ Len(reply) \in Nat /\ Len(doc) \in Nat /\ at[1] \in {6, 7}
        /\ \A k \in 1..Len(reply) + 1 : at[k] \in Nat
    BY HeadIs, LayoutTyped
  <2> QED BY <2>1
<1>2. ASSUME out = <<>>, Follows(at, x.scan, x.out, u) PROVE Follows(at, x.scan, out \o x.out, u)
  <2>1. x.out \in Seq(Chars)
    <3>1. \A k \in 0..Len(reply) : SubSeq(reply, 1, k) \in Seq(Chars)
      BY <1>0
    <3>2. <<>> \in Seq(Chars)
      OBVIOUS
    <3> HIDE DEF x
    <3> QED BY <1>2, <3>1, <3>2 DEF Follows
  <2>2. out \o x.out = x.out
    <3> HIDE DEF x
    <3> QED BY <1>2, <2>1
  <2> QED BY <1>2, <2>2
<1>3. CASE t < 3 /\ out = <<>> /\ sc = ScanAt("seeking_key", 1, FALSE)
  <2>1. x = Key(s, 1)
    <3>1. sc.state = "seeking_key" /\ sc.cursor = 1
      BY <1>3 DEF ScanAt
    <3> QED BY <3>1 DEF Extract
  <2>2. Follows(at, Key(s, 1).scan, Key(s, 1).out, u)
    BY <1>0, KeyIs
  <2> QED BY <1>2, <1>3, <2>1, <2>2
<1>4. CASE t = 3 /\ out = <<>> /\ sc = ScanAt("seeking_colon", 4, FALSE)
  <2>1. x = Colon(s, 4)
    <3>1. sc.state = "seeking_colon" /\ sc.cursor = 4
      BY <1>4 DEF ScanAt
    <3> QED BY <3>1 DEF Extract
  <2>2. Follows(at, Colon(s, 4).scan, Colon(s, 4).out, u)
    <3>1. u >= 3
      BY <1>0, <1>4
    <3> QED BY <1>0, <3>1, ColonIs
  <2> QED BY <1>2, <1>4, <2>1, <2>2
<1>5. CASE 4 <= t /\ t < at[1] - 1 /\ out = <<>> /\ sc = ScanAt("seeking_open_quote", t + 1, FALSE)
  <2>1. x = OpenQuote(s, t + 1)
    <3>1. sc.state = "seeking_open_quote" /\ sc.cursor = t + 1
      BY <1>5 DEF ScanAt
    <3> QED BY <3>1 DEF Extract
  <2>2. t + 1 \in {5, 6} /\ t + 1 <= at[1] - 1 /\ t + 1 <= u + 1 /\ u >= 4
    BY <1>0, <1>5
  <2>3. Follows(at, OpenQuote(s, t + 1).scan, OpenQuote(s, t + 1).out, u)
    BY <1>0, <2>2, OpenQuoteIs
  <2> QED BY <1>2, <1>5, <2>1, <2>3
<1>6. CASE /\ at[1] - 1 <= t
           /\ \E k \in 0..Len(reply) : out = SubSeq(reply, 1, k) /\ Place(at, k, sc, t) /\ Waits(at, k, sc, t)
  <2>1. PICK k \in 0..Len(reply) : out = SubSeq(reply, 1, k) /\ Place(at, k, sc, t)
    BY <1>6
  <2>2. Place(at, k, sc, u)
    <3>1. k + 1 \in 1..Len(reply) + 1 /\ at[k + 1] \in Nat
      BY <1>0
    <3>2. /\ at[k + 1] - 1 <= t => at[k + 1] - 1 <= u
          /\ at[k + 1] <= t => at[k + 1] <= u
      BY <1>0, <3>1
    <3> QED BY <2>1, <3>2 DEF Place
  <2>3. PICK m, d :
          /\ m \in k..Len(reply)
          /\ x = [out |-> SubSeq(reply, k + 1, m), scan |-> d] /\ Place(at, m, d, u) /\ Waits(at, m, d, u)
    <3>1. CASE sc.state = "in_string"
      <4>1. x = InString(s, sc)
        BY <3>1 DEF Extract
      <4> QED BY <1>0, <2>2, <4>1, InStringIs
    <3>2. CASE sc.state = "done"
      <4>1. x = [out |-> <<>>, scan |-> sc]
        BY <3>2 DEF Extract
      <4>2. SubSeq(reply, k + 1, k) = <<>> /\ k \in k..Len(reply)
        BY <1>0
      <4>3. Waits(at, k, sc, u)
        BY <3>2 DEF Waits
      <4> QED BY <2>2, <4>1, <4>2, <4>3
    <3>3. sc.state \in {"in_string", "done"}
      <4>1. \A c, w : ScanAt("in_string", c, w).state = "in_string" /\ ScanAt("done", c, w).state = "done"
        BY DEF ScanAt
      <4> QED BY <2>1, <4>1 DEF Place
    <3> QED BY <3>1, <3>2, <3>3
  <2>4. out \o x.out = SubSeq(reply, 1, m) /\ x.scan = d /\ m \in 0..Len(reply)
    <3>1. SubSeq(reply, 1, k) \o SubSeq(reply, k + 1, m) = SubSeq(reply, 1, m)
      BY <1>0, <2>1, <2>3
    <3>2. x.out = SubSeq(reply, k + 1, m) /\ x.scan = d /\ m \in 0..Len(reply)
      BY <1>0, <2>3
    <3> HIDE DEF x
    <3> QED BY <2>1, <3>1, <3>2
  <2>5. at[1] - 1 <= u
    BY <1>0, <1>6
  <2> HIDE DEF x
  <2>6. Follows(at, x.scan, out \o x.out, u)
    BY <2>3, <2>4, <2>5 DEF Follows
  <2> QED BY <2>6 DEF x
<1> QED BY <1>3, <1>4, <1>5, <1>6 DEF Follows

-----------------------------------------------------------------------------
(* The document, as the reply lies in it.                                  *)
LEMMA JoinIs ==
  ASSUME NEW S, NEW a \in Seq(S), NEW b \in Seq(S), NEW c, c = a \o b
  PROVE  /\ c \in Seq(S) /\ Len(c) = Len(a) + Len(b) /\ Len(a) \in Nat /\ Len(b) \in Nat
         /\ \A i \in 1..Len(a) : c[i] = a[i]
         /\ \A i \in 1..Len(b) : c[Len(a) + i] = b[i]
<1>1. /\ a \o b \in Seq(S) /\ Len(a \o b) = Len(a) + Len(b) /\ Len(a) \in Nat /\ Len(b) \in Nat
      /\ \A i \in 1..Len(a) : (a \o b)[i] = a[i]
  OBVIOUS
<1>2. ASSUME NEW i \in 1..Len(b) PROVE (a \o b)[Len(a) + i] = b[i]
  OBVIOUS
<1> QED BY <1>1, <1>2

(* A sequence of one.                                                      *)
LEMMA OneIs ==
  ASSUME NEW S, NEW x \in S
  PROVE  <<x>> \in Seq(S) /\ Len(<<x>>) = 1 /\ <<x>>[1] = x
OBVIOUS

(* What stands between two ends.                                           *)
LEMMA BetweenIs ==
  ASSUME NEW S, NEW h \in Seq(S), NEW m \in Seq(S), NEW x \in S, NEW y \in S,
         NEW d, d = (h \o (m \o <<x>>)) \o <<y>>
  PROVE  /\ d \in Seq(S) /\ Len(d) = Len(h) + Len(m) + 2
         /\ \A i \in 1..Len(h) : d[i] = h[i]
         /\ \A i \in 1..Len(m) : d[Len(h) + i] = m[i]
         /\ d[Len(h) + Len(m) + 1] = x
<1> DEFINE mx == m \o <<x>>
           hmx == h \o mx
<1>0. Len(h) \in Nat /\ Len(m) \in Nat
  OBVIOUS
<1>1. <<x>> \in Seq(S) /\ Len(<<x>>) = 1 /\ <<x>>[1] = x /\ <<y>> \in Seq(S) /\ Len(<<y>>) = 1
  OBVIOUS
<1>2. /\ mx \in Seq(S) /\ Len(mx) = Len(m) + 1 /\ mx[Len(m) + 1] = x
      /\ \A i \in 1..Len(m) : mx[i] = m[i]
  BY <1>0, <1>1, ConcatProperties
<1> HIDE DEF mx
<1>3. /\ hmx \in Seq(S) /\ Len(hmx) = Len(h) + Len(mx)
      /\ \A i \in 1..Len(h) : hmx[i] = h[i]
      /\ \A i \in 1..Len(mx) : hmx[Len(h) + i] = mx[i]
  <2>1. hmx = h \o mx
    OBVIOUS
  <2> HIDE DEF hmx
  <2> QED BY <1>2, <2>1, JoinIs
<1> HIDE DEF hmx
<1>4. /\ d \in Seq(S) /\ Len(d) = Len(hmx) + 1
      /\ \A i \in 1..Len(hmx) : d[i] = hmx[i]
  BY <1>1, <1>3 DEF hmx, mx
<1>5. Len(hmx) = Len(h) + Len(m) + 1 /\ Len(d) = Len(h) + Len(m) + 2
  BY <1>0, <1>2, <1>3, <1>4
<1>6. ASSUME NEW i \in 1..Len(h) PROVE d[i] = h[i]
  BY <1>0, <1>3, <1>4, <1>5
<1>7. ASSUME NEW i \in 1..Len(m) PROVE d[Len(h) + i] = m[i]
  <2>1. i \in 1..Len(mx) /\ Len(h) + i \in 1..Len(hmx)
    BY <1>0, <1>2, <1>5
  <2> QED BY <1>2, <1>3, <1>4, <2>1
<1>8. d[Len(h) + Len(m) + 1] = x
  <2>1. Len(m) + 1 \in 1..Len(mx) /\ Len(h) + (Len(m) + 1) \in 1..Len(hmx)
        /\ Len(h) + (Len(m) + 1) = Len(h) + Len(m) + 1
    BY <1>0, <1>2, <1>5
  <2>2. d[Len(h) + (Len(m) + 1)] = mx[Len(m) + 1]
    BY <1>3, <1>4, <2>1
  <2> QED BY <1>2, <2>1, <2>2
<1> QED BY <1>4, <1>5, <1>6, <1>7, <1>8

(* A document up to its reply, with or without the blank.                  *)
LEMMA HeadWith ==
  ASSUME NEW blanks \in Seq(Symbols), Len(blanks) \in {0, 1}, \A i \in 1..Len(blanks) : blanks[i] = "blank"
  PROVE  LET h == <<"open">> \o KEY \o <<":">> \o blanks \o <<"quote">>
         IN  /\ h \in Seq(Symbols) /\ Len(h) = 5 + Len(blanks) /\ Len(blanks) \in {0, 1}
             /\ h[1] = "open" /\ h[2] = "re" /\ h[3] = "ply" /\ h[4] = ":"
             /\ Len(blanks) = 1 => h[5] = "blank"
             /\ h[5 + Len(blanks)] = "quote"
<1> DEFINE h1 == <<"open">> \o KEY
           h2 == h1 \o <<":">>
           h3 == h2 \o blanks
           h4 == h3 \o <<"quote">>
<1>1. /\ <<"open">> \in Seq(Symbols) /\ Len(<<"open">>) = 1 /\ <<"open">>[1] = "open"
      /\ <<":">> \in Seq(Symbols) /\ Len(<<":">>) = 1 /\ <<":">>[1] = ":"
      /\ <<"quote">> \in Seq(Symbols) /\ Len(<<"quote">>) = 1 /\ <<"quote">>[1] = "quote"
  BY OneIs DEF Symbols
<1>2. KEY \in Seq(Symbols) /\ Len(KEY) = 2 /\ KEY[1] = "re" /\ KEY[2] = "ply"
  <2>1. "re" \in Symbols /\ "ply" \in Symbols
    BY DEF Symbols
  <2> QED BY <2>1, PairIs DEF KEY
<1>3. blanks \in Seq(Symbols) /\ Len(blanks) \in {0, 1} /\ \A i \in 1..Len(blanks) : blanks[i] = "blank"
  OBVIOUS
<1>4. h1 \in Seq(Symbols) /\ Len(h1) = 3 /\ h1[1] = "open" /\ h1[2] = "re" /\ h1[3] = "ply"
  <2> DEFINE a == <<"open">>
  <2>1. a \in Seq(Symbols) /\ Len(a) = 1 /\ a[1] = "open"
    BY <1>1
  <2> HIDE DEF a
  <2>2. h1 = a \o KEY
    BY DEF a
  <2> HIDE DEF h1
  <2>3. /\ h1 \in Seq(Symbols) /\ Len(h1) = Len(a) + Len(KEY)
        /\ \A i \in 1..Len(a) : h1[i] = a[i]
        /\ \A i \in 1..Len(KEY) : h1[Len(a) + i] = KEY[i]
    <3>1. a \in Seq(Symbols) /\ KEY \in Seq(Symbols)
      BY <1>2, <2>1, <2>2
    <3> QED BY ONLY <2>2, <3>1, JoinIs
  <2> QED BY <1>2, <2>1, <2>3
<1> HIDE DEF h1
<1>5. h2 \in Seq(Symbols) /\ Len(h2) = 4 /\ h2[1] = "open" /\ h2[2] = "re" /\ h2[3] = "ply" /\ h2[4] = ":"
  <2> DEFINE a == <<":">>
  <2>1. a \in Seq(Symbols) /\ Len(a) = 1 /\ a[1] = ":"
    BY <1>1
  <2> HIDE DEF a
  <2>2. h2 = h1 \o a
    BY DEF a
  <2> HIDE DEF h2
  <2>3. /\ h2 \in Seq(Symbols) /\ Len(h2) = Len(h1) + Len(a)
        /\ \A i \in 1..Len(h1) : h2[i] = h1[i]
        /\ \A i \in 1..Len(a) : h2[Len(h1) + i] = a[i]
    <3>1. h1 \in Seq(Symbols) /\ a \in Seq(Symbols)
      BY <1>4, <2>1, <2>2
    <3> QED BY ONLY <2>2, <3>1, JoinIs
  <2> QED BY <1>4, <2>1, <2>3
<1> HIDE DEF h2
<1>6. /\ h3 \in Seq(Symbols) /\ Len(h3) = 4 + Len(blanks)
      /\ h3[1] = "open" /\ h3[2] = "re" /\ h3[3] = "ply" /\ h3[4] = ":"
      /\ Len(blanks) = 1 => h3[5] = "blank"
  <2>2. h3 = h2 \o blanks
    OBVIOUS
  <2> HIDE DEF h3
  <2>3. /\ h3 \in Seq(Symbols) /\ Len(h3) = Len(h2) + Len(blanks)
        /\ \A i \in 1..Len(h2) : h3[i] = h2[i]
        /\ \A i \in 1..Len(blanks) : h3[Len(h2) + i] = blanks[i]
    <3>1. h2 \in Seq(Symbols) /\ blanks \in Seq(Symbols)
      BY <1>3, <1>5, <2>2
    <3> QED BY ONLY <2>2, <3>1, JoinIs
  <2>4. Len(h2) = 4 /\ Len(blanks) \in {0, 1}
    BY <1>3, <1>5
  <2>5. h3[1] = h2[1] /\ h3[2] = h2[2] /\ h3[3] = h2[3] /\ h3[4] = h2[4]
    BY ONLY <2>3, <2>4
  <2>6. Len(blanks) = 1 => h3[5] = "blank"
    <3>1. SUFFICES ASSUME Len(blanks) = 1 PROVE h3[5] = "blank"
      OBVIOUS
    <3>2. 1 \in 1..Len(blanks) /\ 4 + 1 = 5
      BY ONLY <3>1
    <3>3. h3[4 + 1] = blanks[1]
      BY ONLY <2>3, <2>4, <3>2
    <3> QED BY <1>3, <3>2, <3>3
  <2> QED BY <1>5, <2>3, <2>4, <2>5, <2>6
<1> HIDE DEF h3
<1>7. /\ h4 \in Seq(Symbols) /\ Len(h4) = 5 + Len(blanks)
      /\ \A i \in 1..4 + Len(blanks) : h4[i] = h3[i]
      /\ h4[5 + Len(blanks)] = "quote"
  <2> DEFINE a == <<"quote">>
  <2>1. a \in Seq(Symbols) /\ Len(a) = 1 /\ a[1] = "quote"
    BY <1>1
  <2> HIDE DEF a
  <2>2. h4 = h3 \o a
    BY DEF a
  <2> HIDE DEF h4
  <2>3. /\ h4 \in Seq(Symbols) /\ Len(h4) = Len(h3) + Len(a)
        /\ \A i \in 1..Len(h3) : h4[i] = h3[i]
        /\ \A i \in 1..Len(a) : h4[Len(h3) + i] = a[i]
    <3>1. h3 \in Seq(Symbols) /\ a \in Seq(Symbols)
      BY <1>6, <2>1, <2>2
    <3> QED BY ONLY <2>2, <3>1, JoinIs
  <2>4. Len(h3) + 1 = 5 + Len(blanks) /\ 1 \in 1..1
    BY <1>3, <1>6
  <2> QED BY <1>3, <1>6, <2>1, <2>3, <2>4
<1> HIDE DEF h4
<1>8. /\ h4[1] = "open" /\ h4[2] = "re" /\ h4[3] = "ply" /\ h4[4] = ":"
      /\ Len(blanks) = 1 => h4[5] = "blank"
  <2>1. 1 \in 1..4 + Len(blanks) /\ 2 \in 1..4 + Len(blanks) /\ 3 \in 1..4 + Len(blanks)
        /\ 4 \in 1..4 + Len(blanks) /\ (Len(blanks) = 1 => 5 \in 1..4 + Len(blanks))
    <3>1. Len(blanks) \in {0, 1}
      BY <1>3
    <3> QED BY ONLY <3>1
  <2> QED BY <1>6, <1>7, <2>1
<1>9. h4 = <<"open">> \o KEY \o <<":">> \o blanks \o <<"quote">>
  BY DEF h1, h2, h3, h4
<1> QED BY <1>3, <1>7, <1>8, <1>9

(* So for either kind of document.                                         *)
LEMMA HeadOfIs ==
  ASSUME NEW blanks \in {<<>>, <<"blank">>}
  PROVE  LET h == <<"open">> \o KEY \o <<":">> \o blanks \o <<"quote">>
         IN  /\ h \in Seq(Symbols) /\ Len(h) = 5 + Len(blanks) /\ Len(blanks) \in {0, 1}
             /\ h[1] = "open" /\ h[2] = "re" /\ h[3] = "ply" /\ h[4] = ":"
             /\ Len(blanks) = 1 => h[5] = "blank"
             /\ h[5 + Len(blanks)] = "quote"
<1>1. CASE blanks = <<>>
  <2>1. blanks \in Seq(Symbols) /\ Len(blanks) \in {0, 1} /\ \A i \in 1..Len(blanks) : blanks[i] = "blank"
    BY <1>1
  <2> QED BY Zenon, <2>1, HeadWith
<1>2. CASE blanks = <<"blank">>
  <2>1. <<"blank">> \in Seq(Symbols) /\ Len(<<"blank">>) = 1 /\ <<"blank">>[1] = "blank"
    BY OneIs DEF Symbols
  <2>2. blanks \in Seq(Symbols) /\ Len(blanks) = 1 /\ blanks[1] = "blank"
    BY Zenon, <1>2, <2>1
  <2>3. Len(blanks) \in {0, 1} /\ \A i \in 1..Len(blanks) : blanks[i] = "blank"
    <3>1. \A i \in 1..1 : i = 1
      OBVIOUS
    <3> QED BY ONLY <2>2, <3>1
  <2> QED BY Zenon, <2>2, <2>3, HeadWith
<1> QED BY <1>1, <1>2

(* Where the reply starts.                                                 *)
LEMMA LengthsAre ==
  ASSUME NEW b \in {0, 1}, NEW l, l = 5 + b, NEW i, i = l + 1
  PROVE  /\ l \in {5, 6} /\ 1 \in 1..l /\ 2 \in 1..l /\ 3 \in 1..l /\ 4 \in 1..l /\ 5 \in 1..l /\ l \in 1..l
         /\ i \in {6, 7} /\ i - 1 = l /\ (i = 7 => b = 1)
OBVIOUS

(* Each character is written in symbols.                                   *)
LEMMA EncodedTyped == \A c \in Chars : Encoded[c] \in Seq(Symbols)
<1>1. "a" \in Symbols /\ "n" \in Symbols /\ "\\" \in Symbols /\ "quote" \in Symbols /\ "u" \in Symbols /\ "h" \in Symbols
  BY DEF Symbols
<1>2. /\ <<"a">> \in Seq(Symbols) /\ <<"\\", "n">> \in Seq(Symbols) /\ <<"\\", "quote">> \in Seq(Symbols)
  BY <1>1, OneIs, PairIs
<1>3. <<"\\", "u", "h", "h", "h", "h">> \in Seq(Symbols)
  <2>1. \A x, y, z \in Symbols : <<x, y, z, z, z, z>> \in Seq(Symbols)
    OBVIOUS
  <2> QED BY <1>1, <2>1
<1>4. /\ Encoded["a"] \in Seq(Symbols) /\ Encoded["nl"] \in Seq(Symbols)
      /\ Encoded["q"] \in Seq(Symbols) /\ Encoded["uni"] \in Seq(Symbols)
  BY <1>2, <1>3, EncodedIs
<1> QED BY Zenon, <1>4 DEF Chars

(* Each document has a layout.                                             *)
LEMMA LayoutIs ==
  ASSUME reply \in Seq(Chars), NEW blanks, blanks \in {<<>>, <<"blank">>}, doc = Document(reply, blanks)
  PROVE  \E at : Layout(at)
<1> DEFINE h == <<"open">> \o KEY \o <<":">> \o blanks \o <<"quote">>
           seqs == [i \in DOMAIN reply |-> Encoded[reply[i]]]
           m == FlattenSeq(seqs)
           n == Len(reply)
           l == Len(h)
<1>1. /\ h \in Seq(Symbols) /\ l = 5 + Len(blanks) /\ Len(blanks) \in {0, 1}
      /\ h[1] = "open" /\ h[2] = "re" /\ h[3] = "ply" /\ h[4] = ":"
      /\ Len(blanks) = 1 => h[5] = "blank"
      /\ h[5 + Len(blanks)] = "quote"
  BY HeadOfIs
<1>2. doc = (h \o (m \o <<"quote">>)) \o <<"claims">>
  BY DEF Document, JsonString
<1> HIDE DEF h
<1>3. n \in Nat /\ DOMAIN reply = 1..n /\ \A i \in 1..n : reply[i] \in Chars
  OBVIOUS
<1>4. \A c \in Chars : Encoded[c] \in Seq(Symbols)
  BY EncodedTyped
<1>5. seqs \in Seq(Seq(Symbols)) /\ Len(seqs) = n /\ \A i \in 1..n : seqs[i] = Encoded[reply[i]]
  <2>1. seqs = [i \in 1..n |-> Encoded[reply[i]]]
    BY <1>3
  <2>2. \A i \in 1..n : seqs[i] = Encoded[reply[i]]
    BY <1>3
  <2>3. seqs \in [1..n -> Seq(Symbols)]
    BY <1>3, <1>4, <2>1, <2>2
  <2> HIDE DEF seqs, n
  <2> QED BY <1>3, <2>2, <2>3
<1> HIDE DEF seqs, n
<1>6. PICK H : IsTail(H, Symbols, seqs) /\ m = H[1]
  BY <1>5, FlattenIs
<1>7. /\ H \in [1..n + 1 -> Seq(Symbols)] /\ H[n + 1] = <<>>
      /\ \A k \in 1..n : H[k] = Encoded[reply[k]] \o H[k + 1]
  BY <1>5, <1>6 DEF IsTail
<1> HIDE DEF m
<1>8. m \in Seq(Symbols) /\ Len(m) \in Nat /\ l \in Nat /\ l \in {5, 6}
  <2>1. 1 \in 1..n + 1
    BY <1>3
  <2>2. m \in Seq(Symbols)
    BY <1>6, <1>7, <2>1
  <2>3. Len(m) \in Nat
    BY <2>2
  <2>4. Len(h) \in {5, 6}
    <3>1. Len(h) = 5 + Len(blanks) /\ Len(blanks) \in {0, 1}
      BY <1>1
    <3> QED BY Zenon, <3>1, LengthsAre
  <2> QED BY <2>2, <2>3, <2>4
<1> HIDE DEF l
<1>9. /\ doc \in Seq(Symbols) /\ Len(doc) = l + Len(m) + 2
      /\ \A i \in 1..l : doc[i] = h[i]
      /\ \A i \in 1..Len(m) : doc[l + i] = m[i]
      /\ doc[l + Len(m) + 1] = "quote"
  <2>1. "quote" \in Symbols /\ "claims" \in Symbols
    BY DEF Symbols
  <2>2. h \in Seq(Symbols) /\ m \in Seq(Symbols)
    BY <1>1, <1>8
  <2>3. l = Len(h)
    BY DEF l
  <2> QED BY ONLY <1>2, <2>1, <2>2, <2>3, BetweenIs
<1> DEFINE Before(k) == {P \in Seq(Symbols) : m = P \o H[k]}
<1>10. \A k \in 1..n + 1 : Before(k) # {}
  <2> DEFINE S == {k \in Nat : k + 1 \in 1..n + 1 => Before(k + 1) # {}}
  <2>1. 0 \in S
    <3>1. m = <<>> \o H[1] /\ <<>> \in Seq(Symbols)
      <4>1. m \in Seq(Symbols) /\ H[1] = m
        BY <1>6, <1>8
      <4> QED BY <4>1, ConcatEmptySeq
    <3>2. 0 + 1 = 1
      OBVIOUS
    <3>3. Before(0 + 1) # {}
      BY Zenon, <3>1, <3>2
    <3> HIDE DEF Before
    <3> QED BY <3>3
  <2>2. ASSUME NEW k \in S PROVE k + 1 \in S
    <3>1. SUFFICES ASSUME (k + 1) + 1 \in 1..n + 1 PROVE Before((k + 1) + 1) # {}
      BY <2>2
    <3>2. k \in Nat /\ k + 1 \in 1..n + 1 /\ k + 1 \in 1..n
      BY <1>3, <3>1, <2>2
    <3>3. PICK P \in Seq(Symbols) : m = P \o H[k + 1]
      BY <2>2, <3>2
    <3>4. H[k + 1] = Encoded[reply[k + 1]] \o H[(k + 1) + 1]
      BY <1>7, <3>2
    <3>5. /\ Encoded[reply[k + 1]] \in Seq(Symbols) /\ H[(k + 1) + 1] \in Seq(Symbols)
      BY <1>3, <1>4, <1>7, <3>1, <3>2
    <3> DEFINE e == Encoded[reply[k + 1]]
               r == H[(k + 1) + 1]
    <3> HIDE DEF e, r
    <3>6. m = (P \o e) \o r /\ P \o e \in Seq(Symbols)
      <4>1. m = P \o (e \o r)
        BY <3>3, <3>4 DEF e, r
      <4>2. e \in Seq(Symbols) /\ r \in Seq(Symbols)
        BY <3>5 DEF e, r
      <4>3. (P \o e) \o r = P \o (e \o r)
        BY <4>2, ConcatAssociative
      <4>4. P \o e \in Seq(Symbols)
        BY <4>2
      <4> QED BY <4>1, <4>3, <4>4
    <3> QED BY <3>6 DEF r
  <2>3. S = Nat
    <3>1. S \in SUBSET Nat
      OBVIOUS
    <3> HIDE DEF S
    <3> QED BY <2>1, <2>2, <3>1, CountsUp
  <2>4. ASSUME NEW k \in 1..n + 1 PROVE Before(k) # {}
    <3>1. k - 1 \in Nat /\ (k - 1) + 1 = k
      BY <1>3
    <3>2. k - 1 \in S
      BY <2>3, <3>1
    <3> HIDE DEF Before
    <3> QED BY <3>1, <3>2
  <2> QED BY <2>4
<1> DEFINE at == [k \in 1..n + 1 |-> l + 1 + Len(m) - Len(H[k])]
<1>11. ASSUME NEW k \in 1..n + 1
       PROVE  /\ at[k] \in Nat /\ at[k] >= l + 1 /\ at[k] = l + 1 + Len(m) - Len(H[k]) /\ Len(H[k]) \in Nat
              /\ \A i \in 1..Len(H[k]) : doc[at[k] + i - 1] = H[k][i]
  <2>1. PICK P \in Seq(Symbols) : m = P \o H[k]
    BY <1>10
  <2>2. H[k] \in Seq(Symbols)
    BY <1>7
  <2> DEFINE r == H[k]
  <2> HIDE DEF r
  <2>3. /\ Len(m) = Len(P) + Len(r) /\ Len(P) \in Nat /\ Len(r) \in Nat
        /\ \A i \in 1..Len(r) : m[Len(P) + i] = r[i]
    <3>1. r \in Seq(Symbols) /\ m = P \o r
      BY <2>1, <2>2 DEF r
    <3> QED BY <3>1, JoinIs
  <2>4. at[k] = l + 1 + Len(m) - Len(r)
    BY DEF r
  <2> HIDE DEF at
  <2>5. at[k] = l + 1 + Len(P) /\ at[k] \in Nat /\ at[k] >= l + 1
    BY ONLY <2>3, <2>4, <1>8
  <2>6. ASSUME NEW i \in 1..Len(r) PROVE doc[at[k] + i - 1] = r[i]
    <3>1. Len(P) + i \in 1..Len(m) /\ at[k] + i - 1 = l + (Len(P) + i)
      BY ONLY <2>3, <2>5, <1>8, i \in 1..Len(r)
    <3> QED BY <1>9, <2>3, <3>1
  <2> QED BY <2>3, <2>4, <2>5, <2>6 DEF r
<1>12. at \in [1..n + 1 -> Nat]
  BY <1>11
<1>13. at[1] = l + 1 /\ at[n + 1] = l + 1 + Len(m)
  <2>1. 1 \in 1..n + 1 /\ n + 1 \in 1..n + 1
    BY <1>3
  <2>2. Len(H[n + 1]) = 0 /\ H[1] = m
    BY <1>6, <1>7
  <2>3. /\ at[1] = l + 1 + Len(m) - Len(H[1])
        /\ at[n + 1] = l + 1 + Len(m) - Len(H[n + 1])
    BY <1>11, <2>1
  <2> HIDE DEF at
  <2> QED BY <1>8, <2>2, <2>3
<1> HIDE DEF at
<1>14. ASSUME NEW k \in 1..n
       PROVE  /\ at[k + 1] = at[k] + Len(Encoded[reply[k]])
              /\ \A j \in 1..Len(Encoded[reply[k]]) : doc[at[k] + j - 1] = Encoded[reply[k]][j]
  <2> DEFINE e == Encoded[reply[k]]
             r == H[k + 1]
             q == H[k]
  <2>1. k \in 1..n + 1 /\ k + 1 \in 1..n + 1
    BY <1>3
  <2>2. e \in Seq(Symbols) /\ r \in Seq(Symbols) /\ q = e \o r
    BY <1>3, <1>4, <1>7, <2>1
  <2>3. /\ at[k] = l + 1 + Len(m) - Len(q) /\ at[k + 1] = l + 1 + Len(m) - Len(r)
        /\ \A i \in 1..Len(q) : doc[at[k] + i - 1] = q[i]
    BY <1>11, <2>1
  <2> HIDE DEF e, r, q
  <2>4. /\ Len(q) = Len(e) + Len(r) /\ Len(e) \in Nat /\ Len(r) \in Nat
        /\ \A i \in 1..Len(e) : q[i] = e[i]
    BY ONLY <2>2, JoinIs
  <2>5. at[k + 1] = at[k] + Len(e)
    BY ONLY <1>8, <2>3, <2>4
  <2>6. ASSUME NEW j \in 1..Len(e) PROVE doc[at[k] + j - 1] = e[j]
    <3>1. j \in 1..Len(q)
      BY ONLY <2>4, j \in 1..Len(e)
    <3> QED BY <2>3, <2>4, <3>1
  <2> QED BY <2>5, <2>6 DEF e
<1>15. /\ at[1] \in {6, 7} /\ at[1] - 1 = l /\ (at[1] = 7 => Len(blanks) = 1)
       /\ 1 \in 1..l /\ 2 \in 1..l /\ 3 \in 1..l /\ 4 \in 1..l /\ 5 \in 1..l /\ l \in 1..l
       /\ Len(doc) = at[n + 1] + 1 /\ l + Len(m) + 1 = at[n + 1]
  <2>1. l = 5 + Len(blanks) /\ Len(blanks) \in {0, 1} /\ Len(m) \in Nat /\ Len(doc) = l + Len(m) + 2
    BY <1>1, <1>8, <1>9 DEF l
  <2>2. /\ l \in {5, 6} /\ 1 \in 1..l /\ 2 \in 1..l /\ 3 \in 1..l /\ 4 \in 1..l /\ 5 \in 1..l /\ l \in 1..l
        /\ at[1] \in {6, 7} /\ at[1] - 1 = l /\ (at[1] = 7 => Len(blanks) = 1)
    BY Zenon, <1>13, <2>1, LengthsAre
  <2>3. Len(doc) = at[n + 1] + 1 /\ l + Len(m) + 1 = at[n + 1]
    <3>1. Len(m) \in Nat /\ l \in {5, 6} /\ Len(doc) = l + Len(m) + 2 /\ at[n + 1] = l + 1 + Len(m)
      BY Zenon, <1>13, <2>1, <2>2
    <3> QED BY ONLY <3>1
  <2> QED BY Zenon, <2>2, <2>3
<1>16. /\ doc[1] = "open" /\ doc[2] = "re" /\ doc[3] = "ply" /\ doc[4] = ":"
       /\ at[1] = 7 => doc[5] = "blank"
       /\ doc[at[1] - 1] = "quote" /\ doc[at[n + 1]] = "quote"
  <2>1. h[l] = "quote"
    BY <1>1 DEF l
  <2>2. doc[1] = h[1] /\ doc[2] = h[2] /\ doc[3] = h[3] /\ doc[4] = h[4] /\ doc[5] = h[5] /\ doc[l] = h[l]
    BY <1>9, <1>15
  <2>3. at[1] = 7 => h[5] = "blank"
    BY <1>1, <1>15
  <2>4. doc[at[n + 1]] = "quote"
    BY Zenon, <1>9, <1>15
  <2> QED BY Zenon, <1>1, <1>15, <2>1, <2>2, <2>3, <2>4
<1>17. \A k \in 1..n + 1 : at[k] >= at[1]
  BY <1>11, <1>13
<1> QED
  <2> USE DEF n
  <2> QED BY Zenon, <1>9, <1>12, <1>14, <1>15, <1>16, <1>17 DEF Layout

-----------------------------------------------------------------------------
(* What the provider sends: records of a line and two line ends.           *)
Notices == {"comment", "completed", "incomplete", "failed"}
Lines == {<<w>> : w \in Notices} \cup {<<"delta", m, n>> : m, n \in Nat}

Width == IF eol = "lf" THEN 3 ELSE 5
EndAt(j) == IF eol = "lf" \/ j \in {2, 4} THEN LF ELSE CR

(* It starts with a record, or as much of one as there is.                 *)
Begins(p) ==
  p # <<>> => p[1] \in Lines /\ \A j \in 1..Width - 1 : 1 + j <= Len(p) => p[1 + j] = EndAt(j)

(* No line is the end of one.                                              *)
LEMMA LineIsNoEnd ==
  /\ \A x \in Lines : x \notin Ends
  /\ LF \in Ends /\ CR \in Ends /\ LF # CR
  /\ \A x \in Ends \cup {<<"comment">>} : x[1] \in {"cr", "lf", "comment"}
<1>1. ASSUME NEW x \in Ends PROVE x[1] \in {"cr", "lf"}
  BY DEF Ends, CR, LF
<1>2. ASSUME NEW x \in Lines PROVE x[1] \in Notices \cup {"delta"}
  <2>1. CASE x \in {<<w>> : w \in Notices}
    BY <2>1
  <2>2. CASE x \in {<<"delta", m, n>> : m, n \in Nat}
    BY <2>2
  <2> QED BY <2>1, <2>2 DEF Lines
<1>3. ASSUME NEW x \in Lines PROVE x \notin Ends
  BY <1>1, <1>2 DEF Notices
<1>4. LF \in Ends /\ CR \in Ends /\ LF # CR
  <2>1. CR[1] = "cr" /\ LF[1] = "lf"
    BY DEF CR, LF
  <2> QED BY <2>1 DEF Ends
<1>5. ASSUME NEW x \in Ends \cup {<<"comment">>} PROVE x[1] \in {"cr", "lf", "comment"}
  <2>1. CASE x = <<"comment">>
    BY <2>1
  <2> QED BY <1>1, <2>1
<1> QED BY <1>3, <1>4, <1>5

(* Two bytes together, by each of them.                                    *)
LEMMA PairAt ==
  ASSUME NEW S, NEW p \in Seq(S), NEW i \in 1..Len(p) - 1, NEW x \in S, NEW y \in S
  PROVE  SubSeq(p, i, i + 1) = <<x, y>> <=> p[i] = x /\ p[i + 1] = y
<1> DEFINE q == SubSeq(p, i, i + 1)
           r == <<x, y>>
<1>1. q \in Seq(S) /\ Len(q) = 2 /\ q[1] = p[i] /\ q[2] = p[i + 1]
  <2>1. Len(p) \in Nat /\ i \in 1..Len(p) /\ i + 1 \in 1..Len(p) /\ i + 1 - 1 = i /\ i + 2 - 1 = i + 1 /\ (i + 1) - i + 1 = 2
    OBVIOUS
  <2>2. q \in Seq(S) /\ Len(q) = 2 /\ \A n \in 1..2 : q[n] = p[i + n - 1]
    <3>1. q \in Seq(S) /\ Len(q) = 2
      BY <2>1
    <3>2. \A n \in 1..2 : q[n] = p[i + n - 1]
      BY <2>1, SubSeqProperties
    <3> QED BY <3>1, <3>2
  <2>3. q[1] = p[i + 1 - 1] /\ q[2] = p[i + 2 - 1]
    <3> HIDE DEF q
    <3> QED BY <2>2
  <2> QED BY <2>1, <2>2, <2>3
<1>2. r \in Seq(S) /\ Len(r) = 2 /\ r[1] = x /\ r[2] = y
  BY PairIs
<1> HIDE DEF q, r
<1>3. q[1] = x /\ q[2] = y => q = r
  <2> SUFFICES ASSUME q[1] = x, q[2] = y PROVE q = r
    OBVIOUS
  <2>1. \A n \in 1..Len(q) : q[n] = r[n]
    <3>1. \A n \in 1..2 : n = 1 \/ n = 2
      OBVIOUS
    <3> QED BY <1>1, <1>2, <3>1
  <2> QED BY <1>1, <1>2, <2>1, SeqEqual
<1>4. q = r => p[i] = x /\ p[i + 1] = y
  BY <1>1, <1>2
<1>5. q = r <=> p[i] = x /\ p[i + 1] = y
  BY <1>1, <1>3, <1>4
<1> QED BY <1>5 DEF q, r

(* Four bytes together, by each of them.                                   *)
LEMMA FourAt ==
  ASSUME NEW S, NEW p \in Seq(S), NEW i \in 1..Len(p) - 3,
         NEW x \in S, NEW y \in S, NEW z \in S, NEW w \in S
  PROVE  SubSeq(p, i, i + 3) = <<x, y, z, w>> <=> p[i] = x /\ p[i + 1] = y /\ p[i + 2] = z /\ p[i + 3] = w
<1> DEFINE q == SubSeq(p, i, i + 3)
           r == <<x, y, z, w>>
<1>1. q \in Seq(S) /\ Len(q) = 4 /\ q[1] = p[i] /\ q[2] = p[i + 1] /\ q[3] = p[i + 2] /\ q[4] = p[i + 3]
  <2>1. /\ Len(p) \in Nat /\ i \in 1..Len(p) /\ i + 3 \in 1..Len(p) /\ i + 1 - 1 = i /\ i + 2 - 1 = i + 1
        /\ i + 3 - 1 = i + 2 /\ i + 4 - 1 = i + 3 /\ (i + 3) - i + 1 = 4
    OBVIOUS
  <2>2. q \in Seq(S) /\ Len(q) = 4 /\ \A n \in 1..4 : q[n] = p[i + n - 1]
    <3>1. q \in Seq(S) /\ Len(q) = 4
      BY <2>1
    <3>2. \A n \in 1..4 : q[n] = p[i + n - 1]
      BY <2>1, SubSeqProperties
    <3> QED BY <3>1, <3>2
  <2>3. q[1] = p[i + 1 - 1] /\ q[2] = p[i + 2 - 1] /\ q[3] = p[i + 3 - 1] /\ q[4] = p[i + 4 - 1]
    <3> HIDE DEF q
    <3> QED BY <2>2
  <2> QED BY <2>1, <2>2, <2>3
<1>2. r \in Seq(S) /\ Len(r) = 4 /\ r[1] = x /\ r[2] = y /\ r[3] = z /\ r[4] = w
  OBVIOUS
<1> HIDE DEF q, r
<1>3. q[1] = x /\ q[2] = y /\ q[3] = z /\ q[4] = w => q = r
  <2> SUFFICES ASSUME q[1] = x, q[2] = y, q[3] = z, q[4] = w PROVE q = r
    OBVIOUS
  <2>1. \A n \in 1..Len(q) : q[n] = r[n]
    <3>1. \A n \in 1..4 : n = 1 \/ n = 2 \/ n = 3 \/ n = 4
      OBVIOUS
    <3> QED BY <1>1, <1>2, <3>1
  <2> QED BY <1>1, <1>2, <2>1, SeqEqual
<1>4. q = r => p[i] = x /\ p[i + 1] = y /\ p[i + 2] = z /\ p[i + 3] = w
  BY <1>1, <1>2
<1>5. q = r <=> p[i] = x /\ p[i + 1] = y /\ p[i + 2] = z /\ p[i + 3] = w
  BY <1>1, <1>3, <1>4
<1> QED BY <1>5 DEF q, r

(* Where a record ends, by the bytes there.                                *)
LEMMA RecordEndsAre ==
  ASSUME NEW p \in Seq(Lines \cup Ends), NEW e
  PROVE  e \in RecordEnds(p) <=>
           \/ \E i \in 1..Len(p) - 1 : e = <<i, 2>> /\ p[i] = LF /\ p[i + 1] = LF
           \/ \E i \in 1..Len(p) - 3 :
                e = <<i, 4>> /\ p[i] = CR /\ p[i + 1] = LF /\ p[i + 2] = CR /\ p[i + 3] = LF
<1>1. LF \in Lines \cup Ends /\ CR \in Lines \cup Ends
  BY LineIsNoEnd
<1> DEFINE two(i) == SubSeq(p, i, i + 1) = <<LF, LF>>
           four(i) == SubSeq(p, i, i + 3) = <<CR, LF, CR, LF>>
<1>2. \A i \in 1..Len(p) - 1 : two(i) <=> p[i] = LF /\ p[i + 1] = LF
  BY <1>1, PairAt
<1>3. \A i \in 1..Len(p) - 3 : four(i) <=> p[i] = CR /\ p[i + 1] = LF /\ p[i + 2] = CR /\ p[i + 3] = LF
  BY <1>1, FourAt
<1>4. RecordEnds(p) = {<<i, 2>> : i \in {i \in 1..Len(p) - 1 : two(i)}}
                      \cup {<<i, 4>> : i \in {i \in 1..Len(p) - 3 : four(i)}}
  BY Zenon DEF RecordEnds
<1> HIDE DEF two, four
<1>5. e \in RecordEnds(p) <=> \/ \E i \in 1..Len(p) - 1 : two(i) /\ e = <<i, 2>>
                              \/ \E i \in 1..Len(p) - 3 : four(i) /\ e = <<i, 4>>
  BY Zenon, <1>4
<1> QED BY Zenon, <1>2, <1>3, <1>5

(* Too few bytes for a record are kept.                                    *)
LEMMA RecordsWait ==
  ASSUME eol \in {"lf", "crlf"}, NEW p \in Seq(Lines \cup Ends), Begins(p), Len(p) < Width
  PROVE  Records(p) = [events |-> <<>>, rest |-> p]
<1>0. Len(p) \in Nat /\ Len(p) <= 4 /\ (Len(p) = 0 \/ p # <<>>)
  <2>1. Len(p) \in Nat /\ (Len(p) = 0 \/ p # <<>>)
    OBVIOUS
  <2>2. Width \in {3, 5}
    BY DEF Width
  <2> QED BY <2>1, <2>2
<1>1. LF # CR /\ LF \notin Lines /\ CR \notin Lines
  BY LineIsNoEnd
<1>2. ASSUME NEW e \in RecordEnds(p) PROVE FALSE
  <2>0. \/ \E i \in 1..Len(p) - 1 : e = <<i, 2>> /\ p[i] = LF /\ p[i + 1] = LF
        \/ \E i \in 1..Len(p) - 3 :
             e = <<i, 4>> /\ p[i] = CR /\ p[i + 1] = LF /\ p[i + 2] = CR /\ p[i + 3] = LF
    BY <1>2, RecordEndsAre
  <2>1. p # <<>>
    BY <1>0, <2>0
  <2>2. p[1] \in Lines /\ \A j \in 1..Width - 1 : 1 + j <= Len(p) => p[1 + j] = EndAt(j)
    BY <2>1 DEF Begins
  <2>3. CASE \E i \in 1..Len(p) - 1 : p[i] = LF /\ p[i + 1] = LF
    <3>1. PICK i \in 1..Len(p) - 1 : p[i] = LF /\ p[i + 1] = LF
      BY <2>3
    <3>2. i # 1
      BY <1>1, <2>2, <3>1
    <3>3. eol = "crlf" /\ Width = 5 /\ i \in {2, 3} /\ Len(p) > i
      <4>1. eol = "lf" => Width = 3
        BY DEF Width
      <4>2. eol = "crlf" => Width = 5
        BY DEF Width
      <4> QED BY <1>0, <3>1, <3>2, <4>1, <4>2
    <3>4. EndAt(1) = CR /\ EndAt(3) = CR
      <4>1. eol # "lf"
        BY <3>3
      <4> QED BY <4>1 DEF EndAt
    <3>5. CASE i = 2
      <4>1. 1 \in 1..Width - 1 /\ 1 + 1 <= Len(p) /\ 1 + 1 = i
        BY <1>0, <3>3, <3>5
      <4>2. p[i] = CR
        BY <2>2, <3>4, <4>1
      <4> QED BY <1>1, <3>1, <4>2
    <3>6. CASE i = 3
      <4>1. 3 \in 1..Width - 1 /\ 1 + 3 <= Len(p) /\ 1 + 3 = i + 1
        BY <1>0, <3>3, <3>6
      <4>2. p[i + 1] = CR
        BY <2>2, <3>4, <4>1
      <4> QED BY <1>1, <3>1, <4>2
    <3> QED BY <3>3, <3>5, <3>6
  <2>4. CASE \E i \in 1..Len(p) - 3 : p[i] = CR
    <3>1. PICK i \in 1..Len(p) - 3 : p[i] = CR
      BY <2>4
    <3>2. i = 1
      BY <1>0, <3>1
    <3> QED BY <1>1, <2>2, <3>1, <3>2
  <2> QED BY <2>0, <2>3, <2>4
<1>3. RecordEnds(p) = {}
  BY <1>2
<1> QED BY <1>3, Zenon DEF Records

(* The data of one line.                                                   *)
LEMMA DataOfOne ==
  ASSUME NEW x \in Lines, NEW q, q = <<x>>
  PROVE  DataLines(q) = IF x = <<"comment">> THEN <<>> ELSE <<x>>
<1> DEFINE seqs == [i \in DOMAIN q |-> IF q[i] \in Ends \cup {<<"comment">>} THEN <<>> ELSE <<q[i]>>]
           d == IF x = <<"comment">> THEN <<>> ELSE <<x>>
<1>1. DOMAIN q = 1..1 /\ q[1] = x
  OBVIOUS
<1>2. x \in Ends \cup {<<"comment">>} <=> x = <<"comment">>
  BY LineIsNoEnd
<1>3. seqs = [i \in 1..1 |-> d]
  <2>1. \A i \in 1..1 : i = 1
    OBVIOUS
  <2>2. (IF q[1] \in Ends \cup {<<"comment">>} THEN <<>> ELSE <<q[1]>>) = d
    BY <1>1, <1>2
  <2>3. \A i \in DOMAIN q : (IF q[i] \in Ends \cup {<<"comment">>} THEN <<>> ELSE <<q[i]>>) = d
    BY Zenon, <1>1, <2>1, <2>2
  <2>4. seqs = [i \in DOMAIN q |-> d]
    BY Zenon, <2>3
  <2> QED BY Zenon, <1>1, <2>4
<1>4. d \in Seq(Lines)
  <2>1. <<x>> \in Seq(Lines)
    BY OneIs
  <2>2. <<>> \in Seq(Lines)
    OBVIOUS
  <2> QED BY <2>1, <2>2
<1>5. DataLines(q) = FlattenSeq(seqs)
  BY Zenon DEF DataLines
<1> HIDE DEF d, seqs
<1>6. seqs \in Seq(Seq(Lines)) /\ Len(seqs) = 1 /\ seqs[1] = d
  <2> DEFINE T == Seq(Lines)
  <2>1. d \in T
    BY <1>4
  <2> HIDE DEF T
  <2>2. seqs \in Seq(T) /\ Len(seqs) = 1
    <3> DEFINE n == 1
    <3>1. n \in Nat /\ seqs \in [1..n -> T]
      BY <1>3, <2>1
    <3> HIDE DEF n
    <3>2. seqs \in Seq(T) /\ Len(seqs) = n
      BY <3>1
    <3> QED BY <3>2 DEF n
  <2>3. 1 \in 1..1
    OBVIOUS
  <2>4. seqs[1] = d
    BY Zenon, <1>3, <2>3
  <2> QED BY <2>2, <2>4 DEF T
<1>7. PICK H : IsTail(H, Lines, seqs) /\ FlattenSeq(seqs) = H[1]
  BY <1>6, FlattenIs
<1>8. H[2] = <<>> /\ H[1] = seqs[1] \o H[2]
  <2>1. 1 + 1 = 2 /\ 1 \in 1..1
    OBVIOUS
  <2>2. H[Len(seqs) + 1] = <<>> /\ \A k \in 1..Len(seqs) : H[k] = seqs[k] \o H[k + 1]
    BY <1>7 DEF IsTail
  <2> QED BY <1>6, <2>1, <2>2
<1>9. H[1] = d
  BY <1>4, <1>6, <1>8, ConcatEmptySeq
<1> QED BY <1>5, <1>7, <1>9 DEF d

(* A whole record is taken.                                                *)
LEMMA RecordsTake ==
  ASSUME eol \in {"lf", "crlf"}, NEW p \in Seq(Lines \cup Ends), Begins(p), Width <= Len(p)
  PROVE  Records(p) = [events |-> IF p[1] = <<"comment">> THEN <<>> ELSE <<p[1]>>,
                       rest |-> SubSeq(p, Width + 1, Len(p))]
<1>0. /\ Len(p) \in Nat /\ Width \in {3, 5} /\ (eol = "lf" => Width = 3) /\ (eol # "lf" => Width = 5)
  <2>1. Len(p) \in Nat
    OBVIOUS
  <2> QED BY <2>1 DEF Width
<1>1. LF # CR /\ LF \notin Lines /\ CR \notin Lines
  BY LineIsNoEnd
<1>2. p[1] \in Lines /\ \A j \in 1..Width - 1 : p[1 + j] = EndAt(j)
  <2>1. p # <<>>
    BY <1>0
  <2>2. p[1] \in Lines /\ \A j \in 1..Width - 1 : 1 + j <= Len(p) => p[1 + j] = EndAt(j)
    BY <2>1 DEF Begins
  <2>3. \A j \in 1..Width - 1 : 1 + j <= Len(p)
    BY <1>0
  <2> QED BY <2>2, <2>3
<1>3. /\ eol = "lf" => p[2] = LF /\ p[3] = LF
      /\ eol # "lf" => p[2] = CR /\ p[3] = LF /\ p[4] = CR /\ p[5] = LF
  <2>1. /\ eol = "lf" => \A j : EndAt(j) = LF
        /\ eol # "lf" => EndAt(1) = CR /\ EndAt(2) = LF /\ EndAt(3) = CR /\ EndAt(4) = LF
    BY DEF EndAt
  <2>2. 1 \in 1..Width - 1 /\ 2 \in 1..Width - 1 /\ 1 + 1 = 2 /\ 1 + 2 = 3
        /\ (eol # "lf" => 3 \in 1..Width - 1 /\ 4 \in 1..Width - 1) /\ 1 + 3 = 4 /\ 1 + 4 = 5
    BY <1>0
  <2>3. p[1 + 1] = EndAt(1) /\ p[1 + 2] = EndAt(2) /\ (eol # "lf" => p[1 + 3] = EndAt(3) /\ p[1 + 4] = EndAt(4))
    BY <1>2, <2>2
  <2> QED BY <2>1, <2>2, <2>3
<1> DEFINE end == <<2, Width - 1>>
<1>4. end \in RecordEnds(p)
  <2>1. CASE eol = "lf"
    <3>1. 2 \in 1..Len(p) - 1 /\ end = <<2, 2>> /\ 2 + 1 = 3
      BY <1>0, <2>1
    <3> QED BY <1>3, <2>1, <3>1, RecordEndsAre
  <2>2. CASE eol # "lf"
    <3>1. 2 \in 1..Len(p) - 3 /\ end = <<2, 4>> /\ 2 + 1 = 3 /\ 2 + 2 = 4 /\ 2 + 3 = 5
      BY <1>0, <2>2
    <3> QED BY <1>3, <2>2, <3>1, RecordEndsAre
  <2> QED BY <2>1, <2>2
<1>5. ASSUME NEW e \in RecordEnds(p)
      PROVE  e[1] \in Nat /\ e[1] >= 2 /\ (e[1] = 2 => e = end)
  <2>1. \/ \E i \in 1..Len(p) - 1 : e = <<i, 2>> /\ p[i] = LF /\ p[i + 1] = LF
        \/ \E i \in 1..Len(p) - 3 :
             e = <<i, 4>> /\ p[i] = CR /\ p[i + 1] = LF /\ p[i + 2] = CR /\ p[i + 3] = LF
    BY <1>5, RecordEndsAre
  <2>2. CASE \E i \in 1..Len(p) - 1 : e = <<i, 2>> /\ p[i] = LF /\ p[i + 1] = LF
    <3>1. PICK i \in 1..Len(p) - 1 : e = <<i, 2>> /\ p[i] = LF /\ p[i + 1] = LF
      BY <2>2
    <3>2. i # 1 /\ (i = 2 => eol = "lf")
      BY <1>1, <1>2, <1>3, <3>1
    <3>3. e[1] = i
      BY <3>1
    <3> QED BY <1>0, <3>1, <3>2, <3>3
  <2>3. CASE \E i \in 1..Len(p) - 3 :
               e = <<i, 4>> /\ p[i] = CR /\ p[i + 1] = LF /\ p[i + 2] = CR /\ p[i + 3] = LF
    <3>1. PICK i \in 1..Len(p) - 3 : e = <<i, 4>> /\ p[i] = CR
      BY <2>3
    <3>2. i # 1 /\ (i = 2 => eol # "lf")
      BY <1>1, <1>2, <1>3, <3>1
    <3>3. e[1] = i
      BY <3>1
    <3> QED BY <1>0, <3>1, <3>2, <3>3
  <2> QED BY <2>1, <2>2, <2>3
<1> DEFINE first == CHOOSE e \in RecordEnds(p) : \A f \in RecordEnds(p) : e[1] <= f[1]
<1>6. first = end
  <2>1. end[1] = 2
    OBVIOUS
  <2> HIDE DEF end
  <2>2. \A f \in RecordEnds(p) : end[1] <= f[1]
    BY <1>5, <2>1
  <2>3. first \in RecordEnds(p) /\ \A f \in RecordEnds(p) : first[1] <= f[1]
    BY Zenon, <1>4, <2>2
  <2> HIDE DEF first
  <2>4. first[1] <= 2
    BY <1>4, <2>1, <2>3
  <2>5. first[1] = 2
    BY <1>5, <2>3, <2>4
  <2> QED BY <1>5, <2>3, <2>5
<1>7. Records(p) = [events |-> DataLines(SubSeq(p, 1, first[1] - 1)), rest |-> SubSeq(p, first[1] + first[2], Len(p))]
  BY <1>4, Zenon DEF Records
<1> HIDE DEF first
<1>8. first[1] - 1 = 1 /\ first[1] + first[2] = Width + 1
  <2>1. first[1] = 2 /\ first[2] = Width - 1
    BY <1>6
  <2> QED BY <1>0, <2>1
<1>9. DataLines(SubSeq(p, 1, 1)) = IF p[1] = <<"comment">> THEN <<>> ELSE <<p[1]>>
  <2> DEFINE q == SubSeq(p, 1, 1)
             x == p[1]
  <2>1. q \in Seq(Lines \cup Ends) /\ Len(q) = 1 /\ q[1] = p[1]
    <3>1. 1 \in 1..Len(p)
      BY <1>0
    <3> QED BY <3>1
  <2> HIDE DEF q
  <2>2. q = <<p[1]>>
    BY <2>1
  <2> HIDE DEF x
  <2>3. x \in Lines /\ q = <<x>>
    BY <1>2, <2>2 DEF x
  <2>4. DataLines(q) = IF x = <<"comment">> THEN <<>> ELSE <<x>>
    BY <2>3, DataOfOne
  <2> QED BY <2>4 DEF q, x
<1> QED BY <1>7, <1>8, <1>9

(* Where the record after so many starts.                                  *)
Off(i) == IF eol = "lf" THEN 3 * i ELSE 5 * i

(* These bytes are the records of these lines.                             *)
Carries(s, ls) ==
  /\ ls \in Seq(Lines) /\ s \in Seq(Lines \cup Ends) /\ Len(s) = Off(Len(ls))
  /\ \A i \in 0..Len(ls) - 1 :
       /\ s[Off(i) + 1] = ls[i + 1]
       /\ \A j \in 1..Width - 1 : s[Off(i) + 1 + j] = EndAt(j)

(* How far in the document each line gets.                                 *)
Moves(x, m, n) ==
  \/ x = <<"delta", m + 1, n>> /\ m < n
  \/ x \in {<<w>> : w \in Notices} /\ m = n

Marked(ls, p) ==
  /\ ls \in Seq(Lines) /\ p \in [0..Len(ls) -> 0..Len(doc)]
  /\ \A i \in 1..Len(ls) : Moves(ls[i], p[i - 1], p[i])

(* Records follow one another, each of the same width.                     *)
LEMMA OffIs ==
  ASSUME eol \in {"lf", "crlf"}, NEW i \in Nat
  PROVE  /\ Off(0) = 0 /\ Off(i) \in Nat /\ Width \in {3, 5}
         /\ Off(i + 1) \in Nat /\ Off(i + 1) = Off(i) + Width
         /\ \A j \in Nat : /\ i < j => Off(i) + Width <= Off(j)
                           /\ i <= j => Off(i) <= Off(j)
                           /\ Off(i) < Off(j) => i < j
                           /\ Off(i + j) = Off(i) + Off(j)
<1>1. CASE eol = "lf"
  <2>1. Width = 3 /\ \A j \in Nat : Off(j) = 3 * j
    BY <1>1 DEF Off, Width
  <2> QED BY <2>1
<1>2. CASE eol # "lf"
  <2>1. Width = 5 /\ \A j \in Nat : Off(j) = 5 * j
    BY <1>2 DEF Off, Width
  <2> QED BY <2>1
<1> QED BY <1>1, <1>2

(* What is left of them after some records starts with the next.           *)
Ahead(t, s, ls, c, k) ==
  /\ t \in Seq(Lines \cup Ends) /\ Begins(t)
  /\ Width <= Len(t) =>
       /\ k < Len(ls) /\ t[1] = ls[k + 1] /\ Off(k + 1) <= c
       /\ SubSeq(t, Width + 1, Len(t)) = SubSeq(s, Off(k + 1) + 1, c)

(* From the start of a record, bytes start with a record.                  *)
LEMMA BeginsAt ==
  ASSUME eol \in {"lf", "crlf"}, NEW s, NEW ls, Carries(s, ls), NEW c \in 0..Len(s),
         NEW k \in 0..Len(ls), Off(k) <= c
  PROVE  Ahead(SubSeq(s, Off(k) + 1, c), s, ls, c, k)
<1> DEFINE p == SubSeq(s, Off(k) + 1, c)
<1> DEFINE o == Off(k)
<1>1. /\ ls \in Seq(Lines) /\ s \in Seq(Lines \cup Ends) /\ Len(s) = Off(Len(ls))
      /\ \A i \in 0..Len(ls) - 1 :
           /\ s[Off(i) + 1] = ls[i + 1]
           /\ \A j \in 1..Width - 1 : s[Off(i) + 1 + j] = EndAt(j)
  BY DEF Carries
<1>2. Len(ls) \in Nat /\ Len(s) \in Nat /\ k \in Nat /\ c \in Nat /\ c <= Len(s) /\ k <= Len(ls)
  BY <1>1
<1>3. /\ Width \in {3, 5} /\ o \in Nat /\ Off(k + 1) = o + Width
      /\ k < Len(ls) => o + Width <= Len(s)
      /\ o < Len(s) => k < Len(ls)
      /\ o <= c
  <2>1. k \in Nat /\ Len(ls) \in Nat /\ Len(s) = Off(Len(ls))
    BY <1>1, <1>2
  <2> QED BY <2>1, OffIs
<1> HIDE DEF o
<1>4. p = SubSeq(s, o + 1, c)
  BY DEF o
<1> HIDE DEF p
<1>5. p \in Seq(Lines \cup Ends) /\ Len(p) = c - o /\ \A i \in 1..c - o : p[i] = s[o + i]
  <2>1. \A i \in o + 1..c : s[i] \in Lines \cup Ends
    <3>1. \A i \in 1..Len(s) : s[i] \in Lines \cup Ends
      BY <1>1
    <3>2. \A i \in o + 1..c : i \in 1..Len(s)
      BY <1>2, <1>3
    <3> QED BY <3>1, <3>2
  <2>2. o + 1 \in Int /\ c \in Int /\ c - (o + 1) + 1 = c - o
    BY <1>2, <1>3
  <2>3. /\ p \in Seq(Lines \cup Ends)
        /\ Len(p) = IF o + 1 <= c THEN c - (o + 1) + 1 ELSE 0
        /\ \A i \in 1..c - (o + 1) + 1 : p[i] = s[(o + 1) + i - 1]
    BY ONLY <1>4, <2>1, <2>2, SubSeqProperties
  <2>4. Len(p) = c - o
    BY <1>2, <1>3, <2>3
  <2>5. ASSUME NEW i \in 1..c - o PROVE p[i] = s[o + i]
    <3>1. i \in 1..c - (o + 1) + 1 /\ (o + 1) + i - 1 = o + i
      BY <1>3, <2>2
    <3> QED BY <2>3, <3>1
  <2> QED BY <2>3, <2>4, <2>5
<1>6. ASSUME p # <<>>
      PROVE  /\ k < Len(ls) /\ p[1] = ls[k + 1] /\ ls[k + 1] \in Lines
             /\ \A j \in 1..Width - 1 : 1 + j <= Len(p) => p[1 + j] = EndAt(j)
  <2>1. Len(p) >= 1 /\ o < Len(s)
    <3>1. Len(p) \in Nat /\ Len(p) # 0
      BY <1>5, <1>6
    <3>2. c \in Nat /\ c <= Len(s) /\ Len(s) \in Nat /\ o \in Nat /\ Len(p) = c - o
      BY <1>2, <1>3, <1>5
    <3> QED BY ONLY <3>1, <3>2
  <2>2. k < Len(ls) /\ k \in 0..Len(ls) - 1 /\ k + 1 \in 1..Len(ls)
    BY <1>2, <1>3, <2>1
  <2>3. s[o + 1] = ls[k + 1] /\ \A j \in 1..Width - 1 : s[o + 1 + j] = EndAt(j)
    BY <1>1, <2>2 DEF o
  <2>4. p[1] = s[o + 1]
    <3>1. 1 \in 1..c - o
      BY <1>2, <1>3, <1>5, <2>1
    <3> QED BY <1>5, <3>1
  <2>5. ASSUME NEW j \in 1..Width - 1, 1 + j <= Len(p) PROVE p[1 + j] = EndAt(j)
    <3>1. 1 + j \in 1..c - o /\ o + (1 + j) = o + 1 + j
      BY <1>2, <1>3, <1>5, <2>5
    <3> QED BY <1>5, <2>3, <3>1
  <2>6. ls[k + 1] \in Lines
    BY <1>1, <2>2
  <2>7. \A j \in 1..Width - 1 : 1 + j <= Len(p) => p[1 + j] = EndAt(j)
    BY <2>5
  <2> QED BY Zenon, <2>2, <2>3, <2>4, <2>6, <2>7
<1>7. Begins(p)
  BY <1>6 DEF Begins
<1>8. ASSUME Width <= Len(p)
      PROVE  /\ k < Len(ls) /\ p[1] = ls[k + 1] /\ o + Width <= c
             /\ SubSeq(p, Width + 1, Len(p)) = SubSeq(s, o + Width + 1, c)
  <2>1. p # <<>>
    <3>1. Len(p) # 0
      BY <1>3, <1>5, <1>8
    <3> QED BY <3>1
  <2>2. o + Width <= c
    BY <1>2, <1>3, <1>5, <1>8
  <2> DEFINE a == SubSeq(p, Width + 1, Len(p))
             b == SubSeq(s, o + Width + 1, c)
             n == c - o - Width
  <2>3. n \in Nat
    BY <1>2, <1>3, <2>2
  <2>4. a \in Seq(Lines \cup Ends) /\ Len(a) = n /\ \A i \in 1..n : a[i] = p[Width + i]
    <3>1. \A i \in Width + 1..Len(p) : p[i] \in Lines \cup Ends
      <4>1. \A i \in 1..Len(p) : p[i] \in Lines \cup Ends
        BY <1>5
      <4>2. \A i \in Width + 1..Len(p) : i \in 1..Len(p)
        BY <1>3, <1>5
      <4> QED BY Zenon, <4>1, <4>2
    <3>2. Width + 1 \in Int /\ Len(p) \in Int /\ Len(p) - (Width + 1) + 1 = n
      BY <1>2, <1>3, <1>5
    <3>3. /\ a \in Seq(Lines \cup Ends)
          /\ Len(a) = IF Width + 1 <= Len(p) THEN Len(p) - (Width + 1) + 1 ELSE 0
          /\ \A i \in 1..Len(p) - (Width + 1) + 1 : a[i] = p[(Width + 1) + i - 1]
      BY ONLY <3>1, <3>2, SubSeqProperties
    <3> HIDE DEF a
    <3>4. Len(a) = n
      BY <1>2, <1>3, <1>5, <2>3, <3>2, <3>3
    <3>5. ASSUME NEW i \in 1..n PROVE a[i] = p[Width + i]
      <4>1. i \in 1..Len(p) - (Width + 1) + 1 /\ (Width + 1) + i - 1 = Width + i
        <5>1. Width \in {3, 5} /\ Len(p) - (Width + 1) + 1 = n /\ n \in Nat
          BY <1>3, <2>3, <3>2
        <5> HIDE DEF n
        <5>2. (Width + 1) + i - 1 = Width + i
          BY <5>1
        <5> QED BY Zenon, <5>1, <5>2
      <4> QED BY <3>3, <4>1
    <3> QED BY <3>3, <3>4, <3>5
  <2>5. b \in Seq(Lines \cup Ends) /\ Len(b) = n /\ \A i \in 1..n : b[i] = s[o + Width + i]
    <3>1. \A i \in o + Width + 1..c : s[i] \in Lines \cup Ends
      <4>1. \A i \in 1..Len(s) : s[i] \in Lines \cup Ends
        BY <1>1
      <4> QED BY <1>2, <1>3, <4>1
    <3>2. o + Width + 1 \in Int /\ c \in Int /\ c - (o + Width + 1) + 1 = n
      BY <1>2, <1>3
    <3>3. /\ b \in Seq(Lines \cup Ends)
          /\ Len(b) = IF o + Width + 1 <= c THEN c - (o + Width + 1) + 1 ELSE 0
          /\ \A i \in 1..c - (o + Width + 1) + 1 : b[i] = s[(o + Width + 1) + i - 1]
      BY ONLY <3>1, <3>2, SubSeqProperties
    <3> HIDE DEF b
    <3>4. Len(b) = n
      BY <1>2, <1>3, <2>3, <3>2, <3>3
    <3>5. ASSUME NEW i \in 1..n PROVE b[i] = s[o + Width + i]
      <4>1. i \in 1..c - (o + Width + 1) + 1 /\ (o + Width + 1) + i - 1 = o + Width + i
        BY <1>3, <2>3, <3>2
      <4> QED BY <3>3, <4>1
    <3> QED BY <3>3, <3>4, <3>5
  <2> HIDE DEF a, b
  <2>6. \A i \in 1..n : a[i] = b[i]
    <3> SUFFICES ASSUME NEW i \in 1..n PROVE a[i] = b[i]
      OBVIOUS
    <3>1. Width + i \in 1..c - o /\ o + (Width + i) = o + Width + i
      BY <1>2, <1>3, <2>3
    <3>2. p[Width + i] = s[o + (Width + i)]
      BY <1>5, <3>1
    <3> HIDE DEF n
    <3> QED BY <2>4, <2>5, <3>1, <3>2
  <2> HIDE DEF n
  <2>7. a = b
    BY <2>4, <2>5, <2>6, SeqEqual
  <2> QED BY <1>6, <2>1, <2>2, <2>7 DEF a, b
<1>9. Width <= Len(p) =>
        /\ k < Len(ls) /\ p[1] = ls[k + 1] /\ Off(k + 1) <= c
        /\ SubSeq(p, Width + 1, Len(p)) = SubSeq(s, Off(k + 1) + 1, c)
  BY <1>3, <1>8
<1>10. Ahead(p, s, ls, c, k)
  <2>1. p \in Seq(Lines \cup Ends)
    BY <1>5
  <2> QED BY Zenon, <1>7, <1>9, <2>1 DEF Ahead
<1> QED BY <1>10 DEF p

(* One line more.                                                          *)
Prolongs(ms, ls, p, x, m) ==
  /\ Len(ms) = Len(ls) + 1 /\ ms[Len(ls) + 1] = x
  /\ \A i \in 1..Len(ls) : ms[i] = ls[i]
  /\ \E q : /\ Marked(ms, q) /\ q[0] = p[0] /\ q[Len(ms)] = m
           /\ \A i \in 0..Len(ls) : q[i] = p[i]

(* A line more goes on from where the last one got.                        *)
LEMMA MarkedOn ==
  ASSUME NEW ls, NEW p, Marked(ls, p), NEW x \in Lines, NEW m \in 0..Len(doc), Moves(x, p[Len(ls)], m)
  PROVE  Prolongs(ls \o <<x>>, ls, p, x, m)
<1> DEFINE ms == ls \o <<x>>
           q == [i \in 0..Len(ls) + 1 |-> IF i <= Len(ls) THEN p[i] ELSE m]
<1>1. /\ ls \in Seq(Lines) /\ p \in [0..Len(ls) -> 0..Len(doc)] /\ Len(ls) \in Nat
      /\ \A i \in 1..Len(ls) : Moves(ls[i], p[i - 1], p[i])
  <2>1. /\ ls \in Seq(Lines) /\ p \in [0..Len(ls) -> 0..Len(doc)]
        /\ \A i \in 1..Len(ls) : Moves(ls[i], p[i - 1], p[i])
    BY DEF Marked
  <2> QED BY <2>1
<1>2. <<x>> \in Seq(Lines) /\ Len(<<x>>) = 1 /\ <<x>>[1] = x
  BY OneIs
<1>3. /\ ms \in Seq(Lines) /\ Len(ms) = Len(ls) + 1
      /\ \A i \in 1..Len(ls) : ms[i] = ls[i]
      /\ ms[Len(ls) + 1] = x
  <2> DEFINE t == <<x>>
  <2>1. t \in Seq(Lines) /\ Len(t) = 1 /\ t[1] = x
    BY <1>2
  <2>2. ms = ls \o t
    OBVIOUS
  <2> HIDE DEF t, ms
  <2>3. /\ ms \in Seq(Lines) /\ Len(ms) = Len(ls) + Len(t)
        /\ \A i \in 1..Len(ls) : ms[i] = ls[i]
        /\ \A i \in 1..Len(t) : ms[Len(ls) + i] = t[i]
    <3>1. ls \in Seq(Lines) /\ t \in Seq(Lines)
      BY <1>1, <2>1
    <3> QED BY ONLY <2>2, <3>1, JoinIs
  <2>4. 1 \in 1..Len(t)
    BY <2>1
  <2> QED BY <2>1, <2>3, <2>4
<1> HIDE DEF ms
<1>4. /\ \A i \in 0..Len(ls) : q[i] = p[i] /\ q[i] \in 0..Len(doc)
      /\ q[Len(ls) + 1] = m
  <2>1. \A i \in 0..Len(ls) : i \in 0..Len(ls) + 1 /\ i <= Len(ls)
    BY <1>1
  <2>2. Len(ls) + 1 \in 0..Len(ls) + 1 /\ ~(Len(ls) + 1 <= Len(ls))
    BY <1>1
  <2>3. \A i \in 0..Len(ls) : p[i] \in 0..Len(doc)
    BY <1>1
  <2> QED BY Zenon, <2>1, <2>2, <2>3
<1>5. q \in [0..Len(ls) + 1 -> 0..Len(doc)]
  <2>1. \A i \in 0..Len(ls) + 1 : i \in 0..Len(ls) \/ i = Len(ls) + 1
    BY <1>1
  <2>2. \A i \in 0..Len(ls) + 1 : q[i] \in 0..Len(doc)
    BY <1>4, <2>1
  <2> QED BY <2>2
<1>6. ASSUME NEW i \in 1..Len(ms) PROVE Moves(ms[i], q[i - 1], q[i])
  <2>1. CASE i \in 1..Len(ls)
    <3>1. i \in 0..Len(ls) /\ i - 1 \in 0..Len(ls)
      BY <1>1, <2>1
    <3>2. ms[i] = ls[i] /\ q[i - 1] = p[i - 1] /\ q[i] = p[i]
      BY <1>3, <1>4, <2>1, <3>1
    <3> QED BY <1>1, <2>1, <3>2
  <2>2. CASE i = Len(ls) + 1
    <3>1. i - 1 = Len(ls) /\ Len(ls) \in 0..Len(ls)
      BY <1>1, <2>2
    <3>2. ms[i] = x /\ q[i - 1] = p[Len(ls)] /\ q[i] = m
      BY <1>3, <1>4, <2>2, <3>1
    <3> QED BY <3>2
  <2>3. i \in 1..Len(ls) \/ i = Len(ls) + 1
    BY <1>1, <1>3
  <2> QED BY <2>1, <2>2, <2>3
<1>7. 0 \in 0..Len(ls)
  BY <1>1
<1>8. Marked(ms, q)
  <2> HIDE DEF q
  <2> QED BY <1>3, <1>5, <1>6 DEF Marked
<1> HIDE DEF q
<1>9. Prolongs(ms, ls, p, x, m)
  BY <1>3, <1>4, <1>7, <1>8 DEF Prolongs
<1> QED BY <1>9 DEF ms

(* What the parser has of the records so far, and how much of the bytes.   *)
Reads(s, ls, p, c, k, r) ==
  /\ k \in 0..Len(ls) /\ Off(k) <= c /\ r.rest = SubSeq(s, Off(k) + 1, c)
  /\ \E q : Marked(r.events, q) /\ q[0] = p[0] /\ q[Len(r.events)] = p[k]
  /\ \A i \in 1..Len(r.events) : r.events[i] # <<"comment">> /\ \E j \in 1..k : r.events[i] = ls[j]

(* One round of the parser takes a record, or none is whole.               *)
LEMMA ReadsOn ==
  ASSUME eol \in {"lf", "crlf"}, NEW s, NEW ls, Carries(s, ls), NEW p, Marked(ls, p), NEW c \in 0..Len(s),
         NEW k, NEW b, Reads(s, ls, p, c, k, b), NEW r, r = Records(b.rest)
  PROVE  \E m : Reads(s, ls, p, c, m, [events |-> b.events \o r.events, rest |-> r.rest])
<1>1. /\ k \in 0..Len(ls) /\ Off(k) <= c /\ b.rest = SubSeq(s, Off(k) + 1, c)
      /\ \A i \in 1..Len(b.events) : b.events[i] # <<"comment">> /\ \E j \in 1..k : b.events[i] = ls[j]
  BY DEF Reads
<1>2. PICK q : Marked(b.events, q) /\ q[0] = p[0] /\ q[Len(b.events)] = p[k]
  BY DEF Reads
<1> DEFINE ev == b.events
           t == b.rest
<1>3. ev \in Seq(Lines) /\ Len(ev) \in Nat
  <2>1. ev \in Seq(Lines)
    BY <1>2 DEF Marked
  <2> QED BY <2>1
<1>4. /\ ls \in Seq(Lines) /\ Len(ls) \in Nat /\ k \in Nat /\ p \in [0..Len(ls) -> 0..Len(doc)]
      /\ \A i \in 1..Len(ls) : Moves(ls[i], p[i - 1], p[i])
  <2>1. /\ ls \in Seq(Lines) /\ p \in [0..Len(ls) -> 0..Len(doc)]
        /\ \A i \in 1..Len(ls) : Moves(ls[i], p[i - 1], p[i])
    BY DEF Marked
  <2> QED BY <1>1, <2>1
<1>5. /\ t \in Seq(Lines \cup Ends) /\ Begins(t) /\ Len(t) \in Nat
      /\ Width <= Len(t) =>
           /\ k < Len(ls) /\ t[1] = ls[k + 1] /\ Off(k + 1) <= c
           /\ SubSeq(t, Width + 1, Len(t)) = SubSeq(s, Off(k + 1) + 1, c)
  <2>1. /\ t \in Seq(Lines \cup Ends) /\ Begins(t)
        /\ Width <= Len(t) =>
             /\ k < Len(ls) /\ t[1] = ls[k + 1] /\ Off(k + 1) <= c
             /\ SubSeq(t, Width + 1, Len(t)) = SubSeq(s, Off(k + 1) + 1, c)
    <3> HIDE DEF t
    <3>1. t = SubSeq(s, Off(k) + 1, c)
      BY <1>1 DEF t
    <3>2. k \in 0..Len(ls) /\ Off(k) <= c
      BY <1>1
    <3>3. Ahead(SubSeq(s, Off(k) + 1, c), s, ls, c, k)
      BY <3>2, BeginsAt
    <3>4. Ahead(t, s, ls, c, k)
      BY <3>1, <3>3
    <3> QED BY Zenon, <3>4 DEF Ahead
  <2>2. Len(t) \in Nat
    BY <2>1
  <2> QED BY <2>1, <2>2
<1> HIDE DEF ev, t
<1>6. Width \in Nat
  BY DEF Width
<1>7. r = Records(t)
  BY DEF t
<1> DEFINE a(evs, rest) == [events |-> evs, rest |-> rest]
<1>8. \A evs, rest : a(evs, rest).events = evs /\ a(evs, rest).rest = rest
  OBVIOUS
<1> HIDE DEF a
<1>9. CASE ~(Width <= Len(t))
  <2>1. Len(t) < Width
    BY <1>5, <1>6, <1>9
  <2>2. r = [events |-> <<>>, rest |-> t]
    BY <1>5, <1>7, <2>1, RecordsWait
  <2>3. r.events = <<>> /\ r.rest = t
    BY <2>2
  <2>4. ev \o r.events = ev
    BY <1>3, <2>3, ConcatEmptySeq
  <2>5. Reads(s, ls, p, c, k, a(ev, t))
    <3> DEFINE e == a(ev, t)
    <3>1. e.events = b.events /\ e.rest = b.rest
      BY <1>8 DEF ev, t
    <3> HIDE DEF e
    <3>2. Reads(s, ls, p, c, k, e)
      BY Zenon, <1>1, <1>2, <3>1 DEF Reads
    <3> QED BY <3>2 DEF e
  <2> QED BY <2>3, <2>4, <2>5 DEF a, ev
<1>10. CASE Width <= Len(t)
  <2>1. /\ k < Len(ls) /\ t[1] = ls[k + 1] /\ Off(k + 1) <= c
        /\ SubSeq(t, Width + 1, Len(t)) = SubSeq(s, Off(k + 1) + 1, c)
    BY <1>5, <1>10
  <2>2. r = [events |-> IF t[1] = <<"comment">> THEN <<>> ELSE <<t[1]>>, rest |-> SubSeq(t, Width + 1, Len(t))]
    BY <1>5, <1>7, <1>10, RecordsTake
  <2>3. /\ k + 1 \in 0..Len(ls) /\ k + 1 \in 1..Len(ls) /\ (k + 1) - 1 = k /\ k + 1 \in 1..k + 1
        /\ \A j \in 1..k : j \in 1..k + 1
    BY <1>4, <2>1
  <2>4. ls[k + 1] \in Lines /\ Moves(ls[k + 1], p[k], p[k + 1]) /\ p[k + 1] \in 0..Len(doc) /\ p[k] \in 0..Len(doc)
    <3>1. ls[k + 1] \in Lines
      BY <1>4, <2>3
    <3>2. Moves(ls[k + 1], p[(k + 1) - 1], p[k + 1])
      BY <1>4, <2>3
    <3>3. p[k + 1] \in 0..Len(doc) /\ p[k] \in 0..Len(doc)
      BY <1>1, <1>4, <2>3
    <3> QED BY <2>3, <3>1, <3>2, <3>3
  <2> DEFINE x == ls[k + 1]
             rest == SubSeq(s, Off(k + 1) + 1, c)
  <2>5. x \in Lines /\ Moves(x, p[k], p[k + 1])
    BY <2>4
  <2>6. r.events = (IF x = <<"comment">> THEN <<>> ELSE <<x>>) /\ r.rest = rest
    <3>1. t[1] = x /\ SubSeq(t, Width + 1, Len(t)) = rest
      BY <2>1
    <3> HIDE DEF x, rest
    <3> QED BY <2>2, <3>1
  <2> HIDE DEF x, rest
  <2>7. CASE x = <<"comment">>
    <3>1. p[k] = p[k + 1]
      <4>1. \A m, n : x # <<"delta", m, n>>
        <5>1. x[1] = "comment"
          BY <2>7
        <5>2. \A m, n : <<"delta", m, n>>[1] = "delta"
          OBVIOUS
        <5> QED BY <5>1, <5>2
      <4> QED BY <2>5, <4>1 DEF Moves
    <3>2. ev \o r.events = ev
      BY <1>3, <2>6, <2>7, ConcatEmptySeq
    <3>3. \A i \in 1..Len(ev) : ev[i] # <<"comment">> /\ \E j \in 1..k + 1 : ev[i] = ls[j]
      BY <1>1, <2>3 DEF ev
    <3>4. Reads(s, ls, p, c, k + 1, a(ev, rest))
      <4>1. \E f : Marked(ev, f) /\ f[0] = p[0] /\ f[Len(ev)] = p[k + 1]
        BY <1>2, <3>1 DEF ev
      <4> DEFINE e == a(ev, rest)
      <4>2. e.events = ev /\ e.rest = SubSeq(s, Off(k + 1) + 1, c)
        BY <1>8 DEF rest
      <4> HIDE DEF e
      <4>3. Reads(s, ls, p, c, k + 1, e)
        BY Zenon, <2>1, <2>3, <3>3, <4>1, <4>2 DEF Reads
      <4> QED BY <4>3 DEF e
    <3> QED BY <2>6, <3>2, <3>4 DEF a, ev
  <2>8. CASE x # <<"comment">>
    <3> DEFINE es == ev \o <<x>>
    <3>1. /\ Len(es) = Len(ev) + 1 /\ es[Len(ev) + 1] = x
          /\ \A i \in 1..Len(ev) : es[i] = ev[i]
          /\ \E g : Marked(es, g) /\ g[0] = q[0] /\ g[Len(es)] = p[k + 1]
      <4>1. Marked(ev, q) /\ Moves(x, q[Len(ev)], p[k + 1])
        BY <1>2, <2>5 DEF ev
      <4>2. x \in Lines /\ p[k + 1] \in 0..Len(doc)
        BY <2>4, <2>5
      <4>3. Prolongs(ev \o <<x>>, ev, q, x, p[k + 1])
        BY <4>1, <4>2, MarkedOn
      <4>4. Prolongs(es, ev, q, x, p[k + 1])
        BY <4>3
      <4> HIDE DEF es
      <4> QED BY Zenon, <4>4 DEF Prolongs
    <3>2. es = ev \o r.events
      BY <2>6, <2>8
    <3> HIDE DEF es
    <3>3. ASSUME NEW i \in 1..Len(es) PROVE es[i] # <<"comment">> /\ \E j \in 1..k + 1 : es[i] = ls[j]
      <4>1. CASE i \in 1..Len(ev)
        BY <1>1, <2>3, <3>1, <4>1 DEF ev
      <4>2. CASE i = Len(ev) + 1
        BY <2>3, <2>8, <3>1, <4>2 DEF x
      <4>3. i \in 1..Len(ev) \/ i = Len(ev) + 1
        BY <1>3, <3>1
      <4> QED BY <4>1, <4>2, <4>3
    <3>4. Reads(s, ls, p, c, k + 1, a(es, rest))
      <4>1. \E g : Marked(es, g) /\ g[0] = p[0] /\ g[Len(es)] = p[k + 1]
        BY <1>2, <3>1
      <4> DEFINE e == a(es, rest)
      <4>2. e.events = es /\ e.rest = SubSeq(s, Off(k + 1) + 1, c)
        BY <1>8 DEF rest
      <4> HIDE DEF e
      <4>3. Reads(s, ls, p, c, k + 1, e)
        BY Zenon, <2>1, <2>3, <3>3, <4>1, <4>2 DEF Reads
      <4> QED BY <4>3 DEF e
    <3> QED BY <2>6, <3>2, <3>4 DEF a, ev
  <2> QED BY <2>7, <2>8
<1> QED BY <1>9, <1>10

(* As many rounds as the parser makes.                                     *)
LEMMA PushIs ==
  ASSUME eol \in {"lf", "crlf"}, NEW s, NEW ls, Carries(s, ls), NEW p, Marked(ls, p), NEW c \in 0..Len(s)
  PROVE  \E k : Reads(s, ls, p, c, k, ParserPush(SubSeq(s, 1, c)))
<1> DEFINE z == SubSeq(s, 1, c)
           L == MaxRecords + 1
           G(b) == LET r == Records(b.rest) IN [events |-> b.events \o r.events, rest |-> r.rest]
           b0 == [events |-> <<>>, rest |-> z]
           Round(n, b) == LET before == IF n = 0 THEN [events |-> <<>>, rest |-> z] ELSE b
                              r == Records(before.rest)
                          IN  [events |-> before.events \o r.events, rest |-> r.rest]
           is(f, m) == f = [n \in 0..m |-> LET before == IF n = 0 THEN [events |-> <<>>, rest |-> z] ELSE f[n - 1]
                                               r == Records(before.rest)
                                           IN  [events |-> before.events \o r.events, rest |-> r.rest]]
<1>0. L \in Nat
  BY StreamAssumption
<1> HIDE DEF z, L
<1>1. \A m \in Nat : \E f : is(f, m)
  <2> DEFINE S == {m \in Nat : \E f : is(f, m)}
  <2>1. 0 \in S
    <3> DEFINE f == [n \in 0..0 |-> Round(n, b0)]
    <3>1. \A n \in 0..0 : f[n] = Round(n, f[n - 1])
      <4>1. \A n \in 0..0 : n = 0
        OBVIOUS
      <4> QED BY <4>1
    <3>2. is(f, 0)
      <4>1. f = [n \in 0..0 |-> f[n]]
        OBVIOUS
      <4> HIDE DEF f
      <4> QED BY <3>1, <4>1
    <3> QED BY <3>2
  <2>2. ASSUME NEW m \in S PROVE m + 1 \in S
    <3>1. PICK f : is(f, m)
      BY <2>2
    <3> DEFINE g == [n \in 0..m + 1 |-> IF n = m + 1 THEN Round(n, f[m]) ELSE f[n]]
    <3>2. \A n \in 0..m + 1 : g[n] = Round(n, g[n - 1])
      <4> SUFFICES ASSUME NEW n \in 0..m + 1 PROVE g[n] = Round(n, g[n - 1])
        OBVIOUS
      <4>1. m \in Nat /\ \A i \in 0..m : f[i] = Round(i, f[i - 1])
        BY <2>2, <3>1
      <4>2. CASE n = m + 1
        <5>1. n - 1 = m /\ n # 0 /\ m \in 0..m + 1 /\ m # m + 1
          BY <4>1, <4>2
        <5>2. g[n] = Round(n, f[m]) /\ g[m] = f[m]
          BY <4>2, <5>1
        <5> HIDE DEF g, Round
        <5> QED BY <5>1, <5>2
      <4>3. CASE n # m + 1
        <5>1. n \in 0..m /\ (n # 0 => n - 1 \in 0..m + 1 /\ n - 1 # m + 1)
          BY <4>1, <4>3
        <5>2. g[n] = f[n] /\ f[n] = Round(n, f[n - 1]) /\ (n # 0 => g[n - 1] = f[n - 1])
          <6>1. f[n] = Round(n, f[n - 1])
            BY <4>1, <5>1
          <6> HIDE DEF Round
          <6> QED BY <4>3, <5>1, <6>1
        <5>3. \A a, b : n = 0 \/ a = b => Round(n, a) = Round(n, b)
          OBVIOUS
        <5> HIDE DEF g, Round
        <5> QED BY <5>2, <5>3
      <4> QED BY <4>2, <4>3
    <3>3. is(g, m + 1)
      <4>1. g = [n \in 0..m + 1 |-> g[n]]
        OBVIOUS
      <4> HIDE DEF g
      <4> QED BY <3>2, <4>1
    <3> HIDE DEF is, g
    <3>4. m + 1 \in Nat /\ \E h : is(h, m + 1)
      BY <2>2, <3>3
    <3> QED BY <3>4
  <2> HIDE DEF is
  <2>3. S \in SUBSET Nat
    OBVIOUS
  <2>4. S = Nat
    <3> HIDE DEF S
    <3> QED BY <2>1, <2>2, <2>3, CountsUp
  <2> QED BY <2>4
<1> DEFINE Parse == CHOOSE f : is(f, L)
<1>2. ParserPush(z) = Parse[L]
  BY Zenon DEF ParserPush, L
<1>3. is(Parse, L)
  BY <1>0, <1>1
<1>4. \A n \in 0..L : Parse[n] = Round(n, Parse[n - 1])
  <2> HIDE DEF Parse
  <2> QED BY <1>0, <1>3
<1>5. Parse[0] = G(b0) /\ \A n \in 0..L : n # 0 => Parse[n] = G(Parse[n - 1])
  <2> HIDE DEF Parse
  <2>1. 0 \in 0..L
    BY <1>0
  <2>2. Parse[0] = Round(0, Parse[0 - 1]) /\ \A n \in 0..L : n # 0 => Parse[n] = Round(n, Parse[n - 1])
    <3> HIDE DEF Round
    <3> QED BY <1>4, <2>1
  <2>3. \A a : Round(0, a) = G(b0)
    OBVIOUS
  <2>4. \A n, a : n # 0 => Round(n, a) = G(a)
    OBVIOUS
  <2> HIDE DEF Round, G, b0
  <2> QED BY <2>2, <2>3, <2>4
<1> HIDE DEF Parse, is, Round
<1> DEFINE Stands(n) == \E k : Reads(s, ls, p, c, k, Parse[n])
<1>6. /\ ls \in Seq(Lines) /\ Len(ls) \in Nat /\ s \in Seq(Lines \cup Ends) /\ c \in Nat
  <2>1. /\ ls \in Seq(Lines) /\ s \in Seq(Lines \cup Ends)
    BY DEF Carries
  <2> QED BY <2>1
<1>7. Reads(s, ls, p, c, 0, b0)
  <2>1. Off(0) = 0 /\ 0 + 1 = 1 /\ 0 \in 0..Len(ls) /\ Off(0) <= c
    BY <1>6, OffIs
  <2>2. b0.events = <<>> /\ b0.rest = SubSeq(s, 1, c)
    BY DEF z
  <2> HIDE DEF b0
  <2>3. SubSeq(s, Off(0) + 1, c) = SubSeq(s, 1, c)
    BY <2>1
  <2> DEFINE q == [i \in 0..0 |-> p[0]]
  <2>4. Marked(<<>>, q) /\ q[0] = p[0]
    <3>1. p[0] \in 0..Len(doc)
      BY <2>1 DEF Marked
    <3>2. Len(<<>>) = 0 /\ <<>> \in Seq(Lines) /\ q[0] = p[0]
      OBVIOUS
    <3>3. q \in [0..0 -> 0..Len(doc)]
      BY <3>1
    <3> HIDE DEF q
    <3> QED BY <3>2, <3>3 DEF Marked
  <2> HIDE DEF q
  <2>5. Len(<<>>) = 0
    OBVIOUS
  <2>6. \A i \in 1..Len(b0.events) : FALSE
    BY <2>2, <2>5
  <2>7. q[Len(b0.events)] = p[0] /\ Marked(b0.events, q)
    BY <2>2, <2>4, <2>5
  <2> QED BY <2>1, <2>2, <2>3, <2>4, <2>6, <2>7 DEF Reads
<1>8. ASSUME NEW b, NEW k, Reads(s, ls, p, c, k, b) PROVE \E m : Reads(s, ls, p, c, m, G(b))
  BY <1>8, ReadsOn
<1> HIDE DEF G, b0
<1>9. Stands(0)
  BY <1>5, <1>7, <1>8
<1>10. ASSUME NEW n \in Nat, n + 1 <= L, Stands(n) PROVE Stands(n + 1)
  <2>1. n + 1 \in 0..L /\ n + 1 # 0 /\ (n + 1) - 1 = n
    BY <1>0, <1>10
  <2>2. Parse[n + 1] = G(Parse[n])
    BY <1>5, <2>1
  <2> QED BY <1>8, <1>10, <2>2
<1>11. Stands(L)
  <2> DEFINE S == {n \in Nat : n <= L => Stands(n)}
  <2> HIDE DEF Stands
  <2>1. 0 \in S
    BY <1>9
  <2>2. ASSUME NEW n \in S PROVE n + 1 \in S
    BY <1>0, <1>10, <2>2
  <2>3. S = Nat
    <3>1. S \in SUBSET Nat
      OBVIOUS
    <3> HIDE DEF S
    <3> QED BY <2>1, <2>2, <3>1, CountsUp
  <2>4. L \in S
    BY <1>0, <2>3
  <2> QED BY <1>0, <2>4
<1> QED BY <1>2, <1>11 DEF z

(* What has been taken in, of a document of which so much has come.        *)
Has(at, h, t) ==
  /\ h = [text |-> SubSeq(doc, 1, t), scan |-> h.scan, out |-> h.out, result |-> h.result]
  /\ Follows(at, h.scan, h.out, t) /\ h.result \in {"running", "final", "error"}

TakesIn(h, e) ==
  IF h.result = "error" THEN h
  ELSE CASE e[1] = "failed" -> [h EXCEPT !.result = "error"]
         [] e[1] \in {"completed", "incomplete"} -> [h EXCEPT !.result = "final"]
         [] OTHER -> LET s == h.text \o SubSeq(doc, e[2], e[3])
                         x == Extract(s, h.scan)
                     IN  [h EXCEPT !.text = s, !.scan = x.scan, !.out = @ \o x.out]

Answered(e) == e \in {<<"completed">>, <<"incomplete">>}

(* An event takes the extractor as far as its line gets.                   *)
LEMMA TakesInIs ==
  ASSUME NEW at, Layout(at), NEW t \in 0..Len(doc), NEW n \in 0..Len(doc), NEW h, Has(at, h, t),
         h.result # "error", NEW e, Moves(e, t, n), e # <<"comment">>
  PROVE  /\ Has(at, TakesIn(h, e), n)
         /\ TakesIn(h, e).result = "final" => h.result = "final" \/ Answered(e)
<1> DEFINE d == SubSeq(doc, 1, t)
           g == TakesIn(h, e)
<1>0. doc \in Seq(Symbols) /\ Len(doc) \in Nat /\ t \in Nat /\ n \in Nat
  BY LayoutTyped
<1>1. /\ h = [text |-> d, scan |-> h.scan, out |-> h.out, result |-> h.result]
      /\ Follows(at, h.scan, h.out, t) /\ h.result \in {"running", "final", "error"}
  BY DEF Has
<1> HIDE DEF d
<1>2. \A r : [h EXCEPT !.result = r] = [text |-> d, scan |-> h.scan, out |-> h.out, result |-> r]
  <2> DEFINE sc == h.scan
             o == h.out
             w == h.result
  <2>1. h = [text |-> d, scan |-> sc, out |-> o, result |-> w]
    BY <1>1
  <2> HIDE DEF sc, o, w
  <2>2. \A r : [h EXCEPT !.result = r] = [text |-> d, scan |-> sc, out |-> o, result |-> r]
    BY <2>1
  <2> QED BY <2>2 DEF sc, o
<1>3. CASE e = <<"delta", t + 1, n>> /\ t < n
  <2>1. e[1] = "delta" /\ e[2] = t + 1 /\ e[3] = n
    BY <1>3
  <2> DEFINE s == d \o SubSeq(doc, t + 1, n)
             x == Extract(s, h.scan)
  <2>2. s = SubSeq(doc, 1, n)
    BY <1>0, <1>3 DEF d
  <2>3. g = [h EXCEPT !.text = s, !.scan = x.scan, !.out = @ \o x.out]
    <3>1. h.text = d
      BY <1>1
    <3>2. g = LET s1 == h.text \o SubSeq(doc, e[2], e[3])
                  x1 == Extract(s1, h.scan)
              IN  [h EXCEPT !.text = s1, !.scan = x1.scan, !.out = @ \o x1.out]
      BY <2>1 DEF TakesIn
    <3> QED BY Zenon, <2>1, <3>1, <3>2
  <2>4. Follows(at, x.scan, h.out \o x.out, n)
    <3>1. n \in t..Len(doc)
      BY <1>0, <1>3
    <3> HIDE DEF s
    <3> QED BY <1>1, <2>2, <3>1, ExtractIs
  <2> HIDE DEF s, x, g
  <2>5. g = [text |-> s, scan |-> x.scan, out |-> h.out \o x.out, result |-> h.result]
    <3> DEFINE sc == h.scan
               o == h.out
               w == h.result
               sx == x.scan
               ox == x.out
    <3>1. h = [text |-> d, scan |-> sc, out |-> o, result |-> w]
      BY <1>1
    <3>2. g = [h EXCEPT !.text = s, !.scan = sx, !.out = @ \o ox]
      BY <2>3
    <3> HIDE DEF sc, o, w, sx, ox
    <3>3. g = [text |-> s, scan |-> sx, out |-> o \o ox, result |-> w]
      BY <3>1, <3>2
    <3> QED BY <3>3 DEF sc, o, w, sx, ox
  <2>6. g.scan = x.scan /\ g.out = h.out \o x.out /\ g.result = h.result
    BY <2>5
  <2>7. Has(at, g, n)
    BY Zenon, <1>1, <2>2, <2>4, <2>5, <2>6 DEF Has
  <2> QED BY <2>6, <2>7 DEF g
<1>4. CASE e \in {<<w>> : w \in Notices} /\ t = n
  <2>1. PICK w \in Notices : e = <<w>>
    BY <1>4
  <2>2. e[1] = w
    BY <2>1
  <2>3. w \in {"completed", "incomplete", "failed"}
    BY <2>1 DEF Notices
  <2> DEFINE r == IF w = "failed" THEN "error" ELSE "final"
  <2>4. g = [h EXCEPT !.result = r]
    <3>1. CASE w = "failed"
      BY <2>2, <3>1 DEF TakesIn
    <3>2. CASE w # "failed"
      <4>1. e[1] \in {"completed", "incomplete"} /\ e[1] # "failed"
        BY <2>2, <2>3, <3>2
      <4>2. g = [h EXCEPT !.result = "final"]
        BY <4>1 DEF TakesIn
      <4> QED BY <3>2, <4>2
    <3> QED BY <3>1, <3>2
  <2> HIDE DEF g
  <2>5. g = [text |-> d, scan |-> h.scan, out |-> h.out, result |-> r]
    BY <1>2, <2>4
  <2>6. g.scan = h.scan /\ g.out = h.out /\ g.result = r
    BY <2>5
  <2>7. Has(at, g, n)
    BY <1>1, <1>4, <2>5, <2>6 DEF Has, d
  <2>8. g.result = "final" => Answered(e)
    BY <2>1, <2>3, <2>6 DEF Answered
  <2> QED BY <2>7, <2>8 DEF g
<1> QED BY <1>3, <1>4 DEF Moves

(* The events of one read, one after another.                              *)
LEMMA HandledIs ==
  ASSUME NEW at, Layout(at), NEW ev, NEW q, Marked(ev, q), \A i \in 1..Len(ev) : ev[i] # <<"comment">>,
         text = SubSeq(doc, 1, q[0]), Follows(at, scan, shown, q[0]), result = "running"
  PROVE  \E t \in 0..Len(doc) :
           /\ Has(at, Handled(ev), t)
           /\ Handled(ev).result # "error" => t = q[Len(ev)]
           /\ Handled(ev).result = "final" => \E i \in 1..Len(ev) : Answered(ev[i])
<1> DEFINE L == Len(ev)
           h0 == [text |-> text, scan |-> scan, out |-> shown, result |-> result]
           is(f, m) == f = [n \in 0..m |-> IF n = 0 THEN h0 ELSE TakesIn(f[n - 1], ev[n])]
<1>0. /\ ev \in Seq(Lines) /\ L \in Nat /\ q \in [0..L -> 0..Len(doc)]
      /\ \A i \in 1..L : Moves(ev[i], q[i - 1], q[i])
  <2>1. /\ ev \in Seq(Lines) /\ q \in [0..L -> 0..Len(doc)]
        /\ \A i \in 1..L : Moves(ev[i], q[i - 1], q[i])
    BY DEF Marked
  <2> QED BY <2>1
<1> HIDE DEF L, h0
<1>1. \A m \in Nat : \E f : is(f, m)
  <2> DEFINE S == {m \in Nat : \E f : is(f, m)}
  <2>1. 0 \in S
    <3>1. is([n \in 0..0 |-> h0], 0)
      OBVIOUS
    <3> QED BY <3>1
  <2>2. ASSUME NEW m \in S PROVE m + 1 \in S
    <3>1. PICK f : is(f, m)
      BY <2>2
    <3> DEFINE g == [n \in 0..m + 1 |-> IF n = m + 1 THEN TakesIn(f[m], ev[m + 1]) ELSE f[n]]
    <3>2. \A n \in 0..m + 1 : g[n] = IF n = 0 THEN h0 ELSE TakesIn(g[n - 1], ev[n])
      <4> SUFFICES ASSUME NEW n \in 0..m + 1
                   PROVE  g[n] = IF n = 0 THEN h0 ELSE TakesIn(g[n - 1], ev[n])
        OBVIOUS
      <4>1. m \in Nat /\ \A i \in 0..m : f[i] = IF i = 0 THEN h0 ELSE TakesIn(f[i - 1], ev[i])
        BY <2>2, <3>1
      <4>2. CASE n = m + 1
        <5>1. n - 1 = m /\ n # 0 /\ m \in 0..m + 1 /\ m # m + 1
          BY <4>1, <4>2
        <5> QED BY <4>2, <5>1
      <4>3. CASE n # m + 1
        <5>1. n \in 0..m /\ (n # 0 => n - 1 \in 0..m + 1 /\ n - 1 # m + 1)
          BY <4>1, <4>3
        <5> QED BY <4>1, <4>3, <5>1
      <4> QED BY <4>2, <4>3
    <3>3. is(g, m + 1)
      <4>1. g = [n \in 0..m + 1 |-> g[n]]
        OBVIOUS
      <4> HIDE DEF g
      <4> QED BY <3>2, <4>1
    <3> HIDE DEF is, g
    <3>4. m + 1 \in Nat /\ \E f1 : is(f1, m + 1)
      BY <2>2, <3>3
    <3> QED BY <3>4
  <2> HIDE DEF is
  <2>3. S \in SUBSET Nat
    OBVIOUS
  <2>4. S = Nat
    <3> HIDE DEF S
    <3> QED BY <2>1, <2>2, <2>3, CountsUp
  <2> QED BY <2>4
<1> DEFINE Upto == CHOOSE f : is(f, L)
<1>2. Handled(ev) = Upto[L]
  BY Zenon DEF Handled, TakesIn, L, h0
<1>3. is(Upto, L)
  BY <1>0, <1>1
<1>4. Upto[0] = h0 /\ \A n \in 1..L : Upto[n] = TakesIn(Upto[n - 1], ev[n])
  <2> HIDE DEF Upto
  <2>1. \A n \in 0..L : Upto[n] = IF n = 0 THEN h0 ELSE TakesIn(Upto[n - 1], ev[n])
    BY <1>3
  <2> HIDE DEF is
  <2>2. 0 \in 0..L /\ \A n \in 1..L : n \in 0..L /\ n # 0
    BY <1>0
  <2> QED BY <2>1, <2>2
<1> HIDE DEF Upto, is
<1> DEFINE Stands(n) ==
      \E t \in 0..Len(doc) :
        /\ Has(at, Upto[n], t)
        /\ Upto[n].result # "error" => t = q[n]
        /\ Upto[n].result = "final" => \E i \in 1..n : Answered(ev[i])
<1>5. Stands(0)
  <2>1. h0 = [text |-> SubSeq(doc, 1, q[0]), scan |-> h0.scan, out |-> h0.out, result |-> h0.result]
        /\ h0.scan = scan /\ h0.out = shown /\ h0.result = "running"
    BY DEF h0
  <2>2. q[0] \in 0..Len(doc)
    BY <1>0
  <2>3. Has(at, h0, q[0])
    BY <2>1 DEF Has
  <2> QED BY <1>4, <2>1, <2>2, <2>3
<1>6. ASSUME NEW n \in Nat, n + 1 <= L, Stands(n) PROVE Stands(n + 1)
  <2>1. n + 1 \in 1..L /\ (n + 1) - 1 = n /\ n \in 0..L /\ n + 1 \in 0..L /\ n + 1 \in 1..n + 1
        /\ \A i \in 1..n : i \in 1..n + 1
    BY <1>0, <1>6
  <2>2. Upto[n + 1] = TakesIn(Upto[n], ev[n + 1])
    BY <1>4, <2>1
  <2>3. PICK t \in 0..Len(doc) :
          /\ Has(at, Upto[n], t)
          /\ Upto[n].result # "error" => t = q[n]
          /\ Upto[n].result = "final" => \E i \in 1..n : Answered(ev[i])
    BY <1>6
  <2>4. CASE Upto[n].result = "error"
    <3>1. Upto[n + 1] = Upto[n]
      BY <2>2, <2>4 DEF TakesIn
    <3> QED BY <2>3, <2>4, <3>1
  <2>5. CASE Upto[n].result # "error"
    <3> DEFINE h == Upto[n]
               m == q[n + 1]
               e == ev[n + 1]
    <3>1. Moves(e, t, m) /\ e # <<"comment">> /\ m \in 0..Len(doc)
      <4>1. Moves(ev[n + 1], q[(n + 1) - 1], q[n + 1])
        BY <1>0, <2>1
      <4>2. t = q[n]
        BY <2>3, <2>5
      <4>3. e # <<"comment">>
        BY <2>1 DEF L
      <4>4. m \in 0..Len(doc)
        BY <1>0, <2>1
      <4> QED BY <2>1, <4>1, <4>2, <4>3, <4>4
    <3>2. Has(at, h, t) /\ h.result # "error"
      BY <2>3, <2>5
    <3> HIDE DEF h, m, e
    <3>3. /\ Has(at, TakesIn(h, e), m)
          /\ TakesIn(h, e).result = "final" => h.result = "final" \/ Answered(e)
      BY <3>1, <3>2, TakesInIs
    <3>4. TakesIn(h, e) = Upto[n + 1]
      BY <2>2 DEF h, e
    <3>5. Upto[n + 1].result = "final" => \E i \in 1..n + 1 : Answered(ev[i])
      BY <2>1, <2>3, <3>3, <3>4 DEF h, e
    <3> QED BY <3>1, <3>3, <3>4, <3>5 DEF m
  <2> QED BY <2>4, <2>5
<1>7. Stands(L)
  <2> DEFINE S == {n \in Nat : n <= L => Stands(n)}
  <2> HIDE DEF Stands
  <2>1. 0 \in S
    BY <1>5
  <2>2. ASSUME NEW n \in S PROVE n + 1 \in S
    BY <1>0, <1>6, <2>2
  <2>3. S = Nat
    <3>1. S \in SUBSET Nat
      OBVIOUS
    <3> HIDE DEF S
    <3> QED BY <2>1, <2>2, <3>1, CountsUp
  <2>4. L \in S
    BY <1>0, <2>3
  <2> QED BY <1>0, <2>4
<1> QED BY <1>2, <1>7 DEF L

(* What has come of the document, and been shown of the reply in it.       *)
Taken ==
  /\ eol \in {"lf", "crlf"} /\ reply \in Replies
  /\ \E blanks \in {<<>>, <<"blank">>} : doc = Document(reply, blanks)
  /\ Len(text) \in 0..Len(doc) /\ text = SubSeq(doc, 1, Len(text))
  /\ \A at : Layout(at) => Follows(at, scan, shown, Len(text))

(* What has been sent and not been taken in; a terminal event is the last. *)
Unread(s, ls, p) ==
  /\ Carries(s, ls) /\ Marked(ls, p) /\ p[0] = Len(text) /\ p[Len(ls)] = written
  /\ \A i \in 1..Len(ls) :
       ls[i] \in {<<"completed">>, <<"incomplete">>, <<"failed">>} => i = Len(ls) /\ ls[i] = <<over>>

StreamInv ==
  /\ result \in {"idle", "running", "final", "response", "error"}
  /\ result = "idle" =>
       /\ reply = <<>> /\ text = <<>> /\ shown = <<>> /\ scan = NewScan
       /\ written = 0 /\ over = "idle" /\ wire = <<>> /\ buf = <<>>
  /\ result # "idle" => Taken
  /\ result = "running" =>
       /\ wire \in Seq(Lines \cup Ends) /\ buf \in Seq(Lines \cup Ends)
       /\ \E s, ls, p : s = buf \o wire /\ Unread(s, ls, p)
       /\ over = "completed" => written = Len(doc)
  /\ result \in {"final", "response"} =>
       /\ wire = <<>> /\ over # "no"
       /\ over = "completed" => Len(text) = Len(doc)

(* No character is past the last.                                          *)
LEMMA LayoutEnds ==
  ASSUME NEW at, Layout(at)
  PROVE  \A k \in 1..Len(reply) + 1 : at[k] <= at[Len(reply) + 1]
<1> DEFINE n == Len(reply)
           S == {i \in Nat : i <= n => at[n + 1 - i] <= at[n + 1]}
<1>0. n \in Nat /\ reply \in Seq(Chars) /\ \A k \in 1..n + 1 : at[k] \in Nat
  BY LayoutTyped
<1>1. ASSUME NEW k \in 1..n PROVE at[k] <= at[k + 1]
  <2>1. at[k + 1] = at[k] + Len(Encoded[reply[k]])
    BY DEF Layout
  <2>2. Len(Encoded[reply[k]]) \in Nat
    <3>1. reply[k] \in Chars
      BY <1>0
    <3>2. /\ Len(Encoded["a"]) \in Nat /\ Len(Encoded["nl"]) \in Nat
          /\ Len(Encoded["q"]) \in Nat /\ Len(Encoded["uni"]) \in Nat
      BY EncodedIs
    <3> QED BY Zenon, <3>1, <3>2 DEF Chars
  <2>3. at[k] \in Nat
    BY <1>0
  <2> QED BY <2>1, <2>2, <2>3
<1> HIDE DEF n
<1>2. 0 \in S
  <2>1. n + 1 - 0 = n + 1 /\ n + 1 \in 1..n + 1
    BY <1>0
  <2> QED BY <1>0, <2>1
<1>3. ASSUME NEW i \in S PROVE i + 1 \in S
  <2>1. SUFFICES ASSUME i + 1 <= n PROVE at[n + 1 - (i + 1)] <= at[n + 1]
    BY <1>3
  <2>2. /\ n + 1 - (i + 1) \in 1..n /\ (n + 1 - (i + 1)) + 1 = n + 1 - i /\ n + 1 - i \in 1..n + 1
        /\ n + 1 - (i + 1) \in 1..n + 1 /\ n + 1 \in 1..n + 1 /\ i <= n
    BY <1>0, <1>3, <2>1
  <2>3. at[n + 1 - (i + 1)] <= at[n + 1 - i] /\ at[n + 1 - i] <= at[n + 1]
    BY <1>1, <1>3, <2>2
  <2>4. at[n + 1 - (i + 1)] \in Nat /\ at[n + 1 - i] \in Nat /\ at[n + 1] \in Nat
    BY <1>0, <2>2
  <2> QED BY ONLY <2>3, <2>4
<1>4. S = Nat
  <2>1. S \in SUBSET Nat
    OBVIOUS
  <2> HIDE DEF S
  <2> QED BY <1>2, <1>3, <2>1, CountsUp
<1>5. ASSUME NEW k \in 1..n + 1 PROVE at[k] <= at[n + 1]
  <2>1. n + 1 - k \in Nat /\ n + 1 - k <= n /\ n + 1 - (n + 1 - k) = k
    BY <1>0
  <2>2. n + 1 - k \in S
    BY <1>4, <2>1
  <2> QED BY <2>1, <2>2
<1> QED BY <1>5 DEF n

(* So what is shown is the reply from its start, and all of it at the end. *)
LEMMA TakenIsWhole ==
  ASSUME Taken
  PROVE  /\ Len(shown) <= Len(reply) /\ shown = SubSeq(reply, 1, Len(shown))
         /\ Len(text) = Len(doc) => shown = reply
<1>0. reply \in Seq(Chars)
  BY StreamAssumption DEF Taken
<1>1. PICK blanks \in {<<>>, <<"blank">>} : doc = Document(reply, blanks)
  BY DEF Taken
<1>2. PICK at : Layout(at)
  BY <1>0, <1>1, LayoutIs
<1>3. Follows(at, scan, shown, Len(text))
  BY <1>2 DEF Taken
<1>4. Len(reply) \in Nat /\ \A k \in 1..Len(reply) + 1 : at[k] \in Nat /\ at[k] >= 6
  BY <1>2, LayoutTyped
<1>5. PICK k \in 0..Len(reply) : shown = SubSeq(reply, 1, k)
  <2>1. CASE shown = <<>>
    <3>1. SubSeq(reply, 1, 0) = <<>> /\ 0 \in 0..Len(reply)
      BY <1>0, <1>4
    <3> QED BY <2>1, <3>1
  <2>2. CASE shown # <<>>
    BY <1>3, <2>2 DEF Follows
  <2> QED BY <2>1, <2>2
<1>6. Len(shown) = k
  BY <1>0, <1>5
<1>7. ASSUME Len(text) = Len(doc) PROVE shown = reply
  <2> DEFINE e == at[Len(reply) + 1]
             t == Len(text)
  <2>1. t = e + 1 /\ e \in Nat /\ e >= 6 /\ at[1] \in {6, 7} /\ at[1] <= e
    <3>1. Len(doc) = e + 1 /\ at[1] \in {6, 7}
      BY <1>2 DEF Layout
    <3>2. Len(reply) + 1 \in 1..Len(reply) + 1 /\ 1 \in 1..Len(reply) + 1
      BY <1>4
    <3>3. e \in Nat /\ e >= 6
      BY <1>4, <3>2
    <3>4. at[1] <= e
      BY <1>2, <3>2, LayoutEnds
    <3> QED BY <1>7, <3>1, <3>3, <3>4
  <2> HIDE DEF e, t
  <2>2. Follows(at, scan, shown, t)
    BY <1>3 DEF t
  <2>3. PICK m \in 0..Len(reply) : shown = SubSeq(reply, 1, m) /\ Place(at, m, scan, t) /\ Waits(at, m, scan, t)
    <3>1. ~(t < 3) /\ t # 3 /\ ~(4 <= t /\ t < at[1] - 1)
      BY ONLY <2>1
    <3> QED BY Zenon, <2>2, <3>1 DEF Follows
  <2>4. m + 1 \in 1..Len(reply) + 1 /\ at[m + 1] \in Nat /\ at[m + 1] <= e
    <3>1. m + 1 \in 1..Len(reply) + 1
      BY <1>4
    <3>2. at[m + 1] <= at[Len(reply) + 1]
      BY <1>2, <3>1, LayoutEnds
    <3> QED BY <1>4, <3>1, <3>2 DEF e
  <2>5. CASE scan = ScanAt("in_string", at[m + 1], FALSE)
    <3>1. scan.state = "in_string" /\ ~scan.pendingEscape /\ scan.cursor = at[m + 1]
      BY <2>5 DEF ScanAt
    <3>2. at[m + 1] = t + 1
      BY <2>3, <3>1 DEF Waits
    <3>3. FALSE
      BY ONLY <2>1, <2>4, <3>2
    <3> QED BY <3>3
  <2>6. CASE m < Len(reply) /\ scan = ScanAt("in_string", at[m + 1] + 1, TRUE)
    <3>1. scan.state = "in_string" /\ scan.pendingEscape
      BY <2>6 DEF ScanAt
    <3>2. t < at[m + 2] - 1
      BY <2>3, <3>1 DEF Waits
    <3>3. at[m + 2] \in Nat /\ at[m + 2] <= e
      <4>1. m + 2 \in 1..Len(reply) + 1
        BY <1>4, <2>6
      <4>2. at[m + 2] <= at[Len(reply) + 1]
        BY <1>2, <4>1, LayoutEnds
      <4> QED BY <1>4, <4>1, <4>2 DEF e
    <3>4. FALSE
      BY ONLY <2>1, <3>2, <3>3
    <3> QED BY <3>4
  <2>7. CASE m = Len(reply)
    BY <1>0, <2>3, <2>7
  <2> QED BY <2>3, <2>5, <2>6, <2>7 DEF Place
<1> QED BY <1>4, <1>5, <1>6, <1>7

(* What the invariant is for.                                              *)
LEMMA StreamInvIsWhole == StreamInv => ReplyIsWhole
<1> SUFFICES ASSUME StreamInv PROVE ReplyIsWhole
  OBVIOUS
<1>1. CASE result = "idle"
  <2>1. reply = <<>> /\ shown = <<>>
    BY <1>1 DEF StreamInv
  <2>2. Len(shown) <= Len(reply) /\ shown = SubSeq(reply, 1, Len(shown))
    BY <2>1
  <2> QED BY <1>1, <2>2 DEF ReplyIsWhole
<1>2. CASE result # "idle"
  <2>1. /\ Len(shown) <= Len(reply) /\ shown = SubSeq(reply, 1, Len(shown))
        /\ Len(text) = Len(doc) => shown = reply
    BY <1>2, TakenIsWhole DEF StreamInv
  <2>2. result = "response" /\ over = "completed" => Len(text) = Len(doc)
    BY DEF StreamInv
  <2> QED BY <2>1, <2>2 DEF ReplyIsWhole
<1> QED BY <1>1, <1>2

(* What the steps of a stream leave alone once it has begun.               *)
LEMMA KeptAre ==
  ASSUME UNCHANGED <<reply, doc, eol>>
  PROVE  /\ \A at : Layout(at)' <=> Layout(at)
         /\ \A s, ls : Carries(s, ls)' <=> Carries(s, ls)
         /\ \A ls, p : Marked(ls, p)' <=> Marked(ls, p)
<1>1. \A at : Layout(at)' <=> Layout(at)
  BY DEF Layout
<1>2. \A s, ls : Carries(s, ls)' <=> Carries(s, ls)
  BY DEF Carries, Off, Width, EndAt
<1>3. \A ls, p : Marked(ls, p)' <=> Marked(ls, p)
  BY DEF Marked
<1> QED BY <1>1, <1>2, <1>3

(* The extractor as a step leaves it.                                      *)
LEMMA FollowsOn ==
  ASSUME UNCHANGED <<reply, doc>>, NEW at, NEW sc, NEW out, NEW t, Follows(at, sc, out, t),
         scan' = sc, shown' = out, Len(text') = t
  PROVE  Follows(at, scan, shown, Len(text))'
BY Zenon DEF Follows, Place, Waits

(* What has been taken in stays so where nothing is read.                  *)
LEMMA TakenStays ==
  ASSUME Taken, UNCHANGED <<reply, doc, eol, text, scan, shown>>
  PROVE  Taken'
<1>1. /\ eol' \in {"lf", "crlf"} /\ reply' \in Replies
      /\ \E blanks \in {<<>>, <<"blank">>} : doc' = Document(reply', blanks)
      /\ Len(text') \in 0..Len(doc') /\ text' = SubSeq(doc', 1, Len(text'))
  BY DEF Taken
<1>2. ASSUME NEW at, Layout(at)' PROVE Follows(at, scan, shown, Len(text))'
  <2>1. Layout(at)
    BY <1>2, KeptAre
  <2>2. Follows(at, scan, shown, Len(text))
    BY <2>1 DEF Taken
  <2> DEFINE t == Len(text)
  <2>3. Len(text') = t
    OBVIOUS
  <2> HIDE DEF t
  <2>4. Follows(at, scan, shown, t)
    BY <2>2 DEF t
  <2> QED BY <2>3, <2>4, FollowsOn
<1> QED BY <1>1, <1>2 DEF Taken

(* What travels for one line.                                              *)
RecordOf(r, line) ==
  /\ r \in Seq(Lines \cup Ends) /\ Len(r) = Width /\ r[1] = line
  /\ \A j \in 1..Width - 1 : r[1 + j] = EndAt(j)

(* A line travels as one record.                                           *)
LEMMA RecordIs ==
  ASSUME eol \in {"lf", "crlf"}, NEW line \in Lines
  PROVE  \E r : /\ RecordOf(r, line)
                /\ \A w \in Seq(Lines \cup Ends) : w \o <<line>> \o LineEnd \o LineEnd = w \o r
<1> DEFINE S == Lines \cup Ends
           one == <<line>>
           e == LineEnd
           r == one \o e \o e
<1>1. one \in Seq(S) /\ Len(one) = 1 /\ one[1] = line
  OBVIOUS
<1>2. LF \in S /\ CR \in S
  BY LineIsNoEnd
<1>3. e \in Seq(S) /\ (IF eol = "lf" THEN Len(e) = 1 /\ e[1] = LF ELSE Len(e) = 2 /\ e[1] = CR /\ e[2] = LF)
  <2>1. CASE eol = "lf"
    <3>1. e = <<LF>>
      BY <2>1 DEF LineEnd
    <3> HIDE DEF e, S
    <3> QED BY <1>2, <2>1, <3>1, OneIs
  <2>2. CASE eol # "lf"
    <3>1. e = <<CR, LF>>
      BY <2>2 DEF LineEnd
    <3> HIDE DEF e, S
    <3> QED BY <1>2, <2>2, <3>1, PairIs
  <2> QED BY <2>1, <2>2
<1>4. \A w \in Seq(S) : w \o one \o e \o e = w \o r
  <2> HIDE DEF one, e, S
  <2> TAKE w \in Seq(S)
  <2>1. w \o (one \o e) = (w \o one) \o e
    BY <1>1, <1>3, ConcatAssociative
  <2>2. one \o e \in Seq(S)
    BY <1>1, <1>3
  <2>3. w \o ((one \o e) \o e) = (w \o (one \o e)) \o e
    BY <1>3, <2>2, ConcatAssociative
  <2> QED BY <2>1, <2>3
<1>5. RecordOf(r, line)
  <2> DEFINE q == one \o e
  <2> HIDE DEF one, e, S, q
  <2>1. /\ q \in Seq(S) /\ Len(q) = 1 + Len(e) /\ q[1] = line
        /\ \A i \in 1..Len(e) : q[1 + i] = e[i]
    <3>1. q = one \o e
      BY DEF q
    <3>2. /\ q \in Seq(S) /\ Len(q) = Len(one) + Len(e)
          /\ \A i \in 1..Len(one) : q[i] = one[i]
          /\ \A i \in 1..Len(e) : q[Len(one) + i] = e[i]
      <4>1. one \in Seq(S) /\ e \in Seq(S)
        BY <1>1, <1>3
      <4> QED BY ONLY <3>1, <4>1, JoinIs
    <3>3. Len(e) \in Nat /\ 1 \in 1..Len(one) /\ Len(one) = 1 /\ one[1] = line
      BY <1>1, <1>3
    <3> QED BY <3>2, <3>3
  <2> DEFINE z == q \o e
  <2>2. r = z
    BY DEF q
  <2> HIDE DEF z, r
  <2>3. /\ z \in Seq(S) /\ Len(z) = Len(q) + Len(e)
        /\ \A i \in 1..Len(q) : z[i] = q[i]
        /\ \A i \in 1..Len(e) : z[Len(q) + i] = e[i]
    <3>1. z = q \o e
      BY DEF z
    <3>2. q \in Seq(S) /\ e \in Seq(S)
      BY <1>3, <2>1
    <3> QED BY ONLY <3>1, <3>2, JoinIs
  <2>4. CASE eol = "lf"
    <3>1. Len(z) = 3 /\ z[1] = line /\ z[2] = LF /\ z[3] = LF
      <4>1. Len(e) = 1 /\ e[1] = LF /\ Len(q) = 2 /\ q[1] = line /\ q[1 + 1] = e[1]
        <5>1. Len(e) = 1 /\ e[1] = LF
          BY Zenon, <1>3, <2>4
        <5>2. Len(q) = 1 + Len(e) /\ q[1] = line /\ \A i \in 1..Len(e) : q[1 + i] = e[i]
          BY <2>1
        <5>3. 1 \in 1..Len(e)
          BY ONLY <5>1
        <5>4. q[1 + 1] = e[1]
          BY Zenon, <5>2, <5>3
        <5>5. Len(q) = 2
          BY ONLY <5>1, <5>2
        <5> QED BY ONLY <5>1, <5>2, <5>4, <5>5
      <4> HIDE DEF z
      <4>2. z[1] = q[1] /\ z[2] = q[2] /\ z[2 + 1] = e[1] /\ Len(z) = 2 + 1
        BY <2>3, <4>1
      <4>3. 1 + 1 = 2 /\ 2 + 1 = 3
        OBVIOUS
      <4> QED BY ONLY <4>1, <4>2, <4>3
    <3>2. Width = 3 /\ \A j \in 1..Width - 1 : EndAt(j) = LF /\ (j = 1 \/ j = 2)
      BY <2>4 DEF Width, EndAt
    <3>3. \A j \in 1..Width - 1 : z[1 + j] = EndAt(j)
      BY <3>1, <3>2
    <3> QED BY <2>2, <2>3, <3>1, <3>2, <3>3 DEF RecordOf, S
  <2>5. CASE eol # "lf"
    <3>1. Len(z) = 5 /\ z[1] = line /\ z[2] = CR /\ z[3] = LF /\ z[4] = CR /\ z[5] = LF
      <4>1. /\ Len(e) = 2 /\ e[1] = CR /\ e[2] = LF /\ Len(q) = 3
            /\ q[1] = line /\ q[1 + 1] = e[1] /\ q[1 + 2] = e[2]
        <5>1. Len(e) = 2 /\ e[1] = CR /\ e[2] = LF
          BY Zenon, <1>3, <2>5
        <5>2. Len(q) = 1 + Len(e) /\ q[1] = line /\ \A i \in 1..Len(e) : q[1 + i] = e[i]
          BY <2>1
        <5>3. 1 \in 1..Len(e) /\ 2 \in 1..Len(e)
          BY ONLY <5>1
        <5>4. q[1 + 1] = e[1] /\ q[1 + 2] = e[2]
          BY Zenon, <5>2, <5>3
        <5>5. Len(q) = 3
          BY ONLY <5>1, <5>2
        <5> QED BY ONLY <5>1, <5>2, <5>4, <5>5
      <4> HIDE DEF z
      <4>2. /\ z[1] = q[1] /\ z[2] = q[2] /\ z[3] = q[3] /\ z[3 + 1] = e[1] /\ z[3 + 2] = e[2]
            /\ Len(z) = 3 + 2
        BY <2>3, <4>1
      <4>3. 1 + 1 = 2 /\ 1 + 2 = 3 /\ 3 + 1 = 4 /\ 3 + 2 = 5
        OBVIOUS
      <4> QED BY ONLY <4>1, <4>2, <4>3
    <3>2. /\ Width = 5
          /\ \A j \in 1..Width - 1 :
               /\ j = 1 \/ j = 2 \/ j = 3 \/ j = 4
               /\ (j = 2 \/ j = 4) => EndAt(j) = LF
               /\ (j = 1 \/ j = 3) => EndAt(j) = CR
      BY <2>5 DEF Width, EndAt
    <3>3. \A j \in 1..Width - 1 : z[1 + j] = EndAt(j)
      BY <3>1, <3>2
    <3> QED BY <2>2, <2>3, <3>1, <3>2, <3>3 DEF RecordOf, S
  <2> QED BY <2>4, <2>5
<1> HIDE DEF r
<1>6. \A w \in Seq(Lines \cup Ends) : w \o <<line>> \o LineEnd \o LineEnd = w \o r
  BY <1>4
<1> QED BY <1>5, <1>6

(* A record more.                                                          *)
LEMMA CarriesOn ==
  ASSUME eol \in {"lf", "crlf"}, NEW s, NEW ls, Carries(s, ls), NEW line \in Lines, NEW r, RecordOf(r, line),
         NEW t, t = s \o r, NEW ms \in Seq(Lines), Len(ms) = Len(ls) + 1, ms[Len(ls) + 1] = line,
         \A i \in 1..Len(ls) : ms[i] = ls[i]
  PROVE  Carries(t, ms)
<1> DEFINE S == Lines \cup Ends
           n == Len(ls)
<1>1. /\ s \in Seq(S) /\ Len(s) = Off(n) /\ n \in Nat /\ ls \in Seq(Lines)
      /\ \A i \in 0..n - 1 : /\ s[Off(i) + 1] = ls[i + 1]
                             /\ \A j \in 1..Width - 1 : s[Off(i) + 1 + j] = EndAt(j)
  <2>1. ls \in Seq(Lines)
    BY DEF Carries
  <2>2. n \in Nat
    BY <2>1
  <2> QED BY <2>1, <2>2 DEF Carries
<1>2. /\ r \in Seq(S) /\ Len(r) = Width /\ r[1] = line
      /\ \A j \in 1..Width - 1 : r[1 + j] = EndAt(j)
  BY DEF RecordOf
<1> HIDE DEF S, n
<1>3. /\ t \in Seq(S) /\ Len(t) = Len(s) + Len(r)
      /\ \A i \in 1..Len(s) : t[i] = s[i]
      /\ \A i \in 1..Len(r) : t[Len(s) + i] = r[i]
  <2>1. s \in Seq(S) /\ r \in Seq(S)
    BY <1>1, <1>2
  <2> QED BY ONLY t = s \o r, <2>1, JoinIs
<1>4. Width \in {3, 5} /\ Off(n) \in Nat /\ Off(n + 1) = Off(n) + Width
  BY <1>1, OffIs
<1>5. Len(t) = Off(Len(ms))
  BY <1>1, <1>2, <1>3, <1>4 DEF n
<1>6. ASSUME NEW i \in 0..Len(ms) - 1
      PROVE  /\ t[Off(i) + 1] = ms[i + 1]
             /\ \A j \in 1..Width - 1 : t[Off(i) + 1 + j] = EndAt(j)
  <2>1. CASE i = n
    <3>1. 1 \in 1..Len(r) /\ \A j \in 1..Width - 1 : 1 + j \in 1..Len(r)
      BY <1>2, <1>4
    <3>2. t[Off(n) + 1] = line /\ \A j \in 1..Width - 1 : t[Off(n) + (1 + j)] = EndAt(j)
      BY <1>1, <1>2, <1>3, <3>1
    <3>3. \A j \in 1..Width - 1 : Off(n) + (1 + j) = Off(n) + 1 + j
      BY <1>4
    <3> QED BY <2>1, <3>2, <3>3 DEF n
  <2>2. CASE i # n
    <3>1. i \in 0..n - 1 /\ i < n /\ i \in Nat /\ i + 1 \in 1..n
      BY <1>1, <2>2 DEF n
    <3>2. Off(i) \in Nat /\ Off(i) + Width <= Off(n)
      BY <1>1, <3>1, OffIs
    <3>3. Off(i) + 1 \in 1..Len(s) /\ \A j \in 1..Width - 1 : Off(i) + 1 + j \in 1..Len(s)
      BY <1>1, <1>4, <3>2
    <3>4. ms[i + 1] = ls[i + 1]
      BY <3>1 DEF n
    <3> QED BY <1>1, <1>3, <3>1, <3>3, <3>4
  <2> QED BY <2>1, <2>2
<1> QED BY <1>3, <1>5, <1>6 DEF Carries, S

(* What is sent joins what is unread.                                      *)
LEMMA SentIs ==
  ASSUME eol \in {"lf", "crlf"}, UNCHANGED <<reply, doc, eol, buf, text>>, over = "no",
         wire \in Seq(Lines \cup Ends), buf \in Seq(Lines \cup Ends),
         NEW s, s = buf \o wire, NEW ls, NEW p, Unread(s, ls, p),
         NEW line \in Lines, Moves(line, written, written'), written' \in 0..Len(doc),
         line \in {<<"completed">>, <<"incomplete">>, <<"failed">>} => line = <<over'>>,
         wire' = wire \o <<line>> \o LineEnd \o LineEnd
  PROVE  /\ wire' \in Seq(Lines \cup Ends)
         /\ \E t, ms, q : t = (buf \o wire)' /\ Unread(t, ms, q)'
<1> DEFINE S == Lines \cup Ends
           ms == ls \o <<line>>
<1>1. PICK r : RecordOf(r, line) /\ \A w \in Seq(S) : w \o <<line>> \o LineEnd \o LineEnd = w \o r
  BY RecordIs
<1>2. wire' = wire \o r /\ r \in Seq(S)
  BY <1>1 DEF RecordOf
<1>3. /\ Carries(s, ls) /\ Marked(ls, p) /\ p[0] = Len(text) /\ p[Len(ls)] = written
      /\ \A i \in 1..Len(ls) : ls[i] \notin {<<"completed">>, <<"incomplete">>, <<"failed">>}
  <2>1. /\ Carries(s, ls) /\ Marked(ls, p) /\ p[0] = Len(text) /\ p[Len(ls)] = written
        /\ \A i \in 1..Len(ls) :
             ls[i] \in {<<"completed">>, <<"incomplete">>, <<"failed">>} => i = Len(ls) /\ ls[i] = <<over>>
    BY DEF Unread
  <2>2. <<"no">> \notin {<<"completed">>, <<"incomplete">>, <<"failed">>}
    OBVIOUS
  <2>3. over = "no"
    OBVIOUS
  <2> QED BY Zenon, <2>1, <2>2, <2>3
<1>4. Prolongs(ms, ls, p, line, written')
  <2> DEFINE m == written'
  <2>1. Marked(ls, p) /\ m \in 0..Len(doc) /\ Moves(line, p[Len(ls)], m) /\ line \in Lines
    BY <1>3
  <2> HIDE DEF m, ms
  <2>2. Prolongs(ls \o <<line>>, ls, p, line, m)
    BY ONLY <2>1, MarkedOn
  <2> QED BY <2>2 DEF m, ms
<1>5. /\ Len(ms) = Len(ls) + 1 /\ ms[Len(ls) + 1] = line
      /\ \A i \in 1..Len(ls) : ms[i] = ls[i]
  BY <1>4 DEF Prolongs
<1>6. PICK q : /\ Marked(ms, q) /\ q[0] = p[0] /\ q[Len(ms)] = written'
  BY <1>4 DEF Prolongs
<1> HIDE DEF S, ms
<1>7. wire' \in Seq(S) /\ buf' \o wire' = s \o r
  <2>1. wire \in Seq(S) /\ buf \in Seq(S) /\ buf' = buf
    BY DEF S
  <2>2. buf \o (wire \o r) = (buf \o wire) \o r
    BY <1>2, <2>1, ConcatAssociative
  <2>3. wire \o r \in Seq(S)
    BY <1>2, <2>1
  <2>4. buf' \o wire' = s \o r
    <3>1. s = buf \o wire
      OBVIOUS
    <3> QED BY Zenon, <1>2, <2>1, <2>2, <3>1
  <2> QED BY <1>2, <2>3, <2>4
<1>8. Len(ls) \in Nat /\ ms \in Seq(Lines)
  <2>1. ls \in Seq(Lines) /\ ms \in Seq(Lines)
    BY <1>3, <1>6 DEF Marked
  <2> QED BY <2>1
<1> DEFINE t == s \o r
<1>9. Carries(t, ms)
  <2>1. t = s \o r
    OBVIOUS
  <2> HIDE DEF t
  <2> QED BY <1>1, <1>3, <1>5, <1>8, <2>1, CarriesOn
<1> HIDE DEF t
<1>10. \A i \in 1..Len(ms) :
         ms[i] \in {<<"completed">>, <<"incomplete">>, <<"failed">>} => i = Len(ms) /\ ms[i] = <<over'>>
  <2> TAKE i \in 1..Len(ms)
  <2> HAVE ms[i] \in {<<"completed">>, <<"incomplete">>, <<"failed">>}
  <2>1. i \in 1..Len(ls) \/ i = Len(ls) + 1
    BY <1>5, <1>8
  <2>2. ~(i \in 1..Len(ls))
    BY Zenon, <1>3, <1>5
  <2> QED BY <1>5, <2>1, <2>2
<1>11. PICK z, y : z = t /\ y = ms
  OBVIOUS
<1>12. Carries(z, y)' /\ Marked(y, q)'
  <2>1. Carries(z, y) /\ Marked(y, q)
    BY <1>6, <1>9, <1>11
  <2>2. /\ Carries(z, y)' <=> Carries(z, y)
        /\ Marked(y, q)' <=> Marked(y, q)
    BY KeptAre
  <2> QED BY <2>1, <2>2
<1>13. Unread(z, y, q)'
  <2>1. /\ q[0] = Len(text') /\ q[Len(y)] = written'
        /\ \A i \in 1..Len(y) :
             y[i] \in {<<"completed">>, <<"incomplete">>, <<"failed">>} => i = Len(y) /\ y[i] = <<over'>>
    <3>1. q[0] = Len(text')
      BY <1>3, <1>6
    <3> QED BY Zenon, <1>6, <1>10, <1>11, <3>1
  <2> QED BY <1>12, <2>1 DEF Unread
<1>14. z = buf' \o wire'
  BY <1>7, <1>11 DEF t
<1> QED BY <1>7, <1>13, <1>14 DEF S

(* What is kept and what is still to come, of the bytes there are.         *)
LEMMA TakeIs ==
  ASSUME NEW S, NEW s \in Seq(S), NEW m \in 0..Len(s), NEW n \in 0..Len(s), NEW t, t = SubSeq(s, m + 1, n)
  PROVE  /\ t \in Seq(S) /\ Len(t) = IF m <= n THEN n - m ELSE 0
         /\ \A i \in 1..n - m : t[i] = s[m + i]
<1>1. Len(s) \in Nat /\ m \in Nat /\ n \in Nat
  OBVIOUS
<1>2. m + 1 \in 1..Len(s) + 1 /\ n \in 0..Len(s) + 1 - 1
  BY <1>1
<1>3. \A i \in m + 1..n : s[i] \in S
  BY <1>1
<1>4. /\ SubSeq(s, m + 1, n) \in Seq(S)
      /\ Len(SubSeq(s, m + 1, n)) = IF m + 1 <= n THEN n - (m + 1) + 1 ELSE 0
      /\ \A i \in 1..n - (m + 1) + 1 : SubSeq(s, m + 1, n)[i] = s[(m + 1) + i - 1]
  BY ONLY <1>1, <1>2, <1>3, s \in Seq(S), SubSeqProperties
<1>5. n - (m + 1) + 1 = n - m /\ \A i \in 1..n - m : (m + 1) + i - 1 = m + i
  BY <1>1
<1>6. Len(t) = IF m <= n THEN n - m ELSE 0
  <2>1. Len(t) = IF m + 1 <= n THEN n - (m + 1) + 1 ELSE 0
    BY <1>4
  <2> QED BY <1>1, <2>1
<1>7. \A i \in 1..n - m : t[i] = s[m + i]
  BY <1>4, <1>5
<1> QED BY <1>4, <1>6, <1>7

(* Some bytes more are kept of what was kept, some fewer still to come.    *)
Cut(S, s, c, o, b, w, k, u, z) ==
  /\ s \in Seq(S) /\ c \in 0..Len(s) /\ b \o w = SubSeq(s, 1, c)
  /\ k \in Seq(S) /\ u \in Seq(S) /\ k \o u = z
  /\ c = Len(s) => u = <<>>

(* What a read does to the bytes.                                          *)
LEMMA CutIs ==
  ASSUME NEW S, NEW b \in Seq(S), NEW w \in Seq(S), NEW s, s = b \o w, NEW n \in 0..Len(w),
         NEW c, c = Len(b) + n, NEW o \in 0..c, NEW w1, w1 = SubSeq(w, 1, n),
         NEW k, k = SubSeq(s, o + 1, c), NEW w2, w2 = SubSeq(w, n + 1, Len(w)),
         NEW z, z = SubSeq(s, o + 1, Len(s))
  PROVE  Cut(S, s, c, o, b, w1, k, w2, z)
<1>1. /\ s \in Seq(S) /\ Len(s) = Len(b) + Len(w) /\ Len(b) \in Nat /\ Len(w) \in Nat
      /\ \A i \in 1..Len(b) : s[i] = b[i]
      /\ \A i \in 1..Len(w) : s[Len(b) + i] = w[i]
  BY ONLY b \in Seq(S), w \in Seq(S), s = b \o w, JoinIs
<1>2. n \in Nat /\ n <= Len(w) /\ c \in Nat /\ c \in 0..Len(s) /\ o \in Nat /\ o <= c /\ o \in 0..Len(s)
      /\ Len(s) \in 0..Len(s) /\ 0 \in 0..Len(w) /\ 0 \in 0..Len(s) /\ Len(w) \in 0..Len(w)
  BY <1>1
<1> DEFINE s1 == SubSeq(s, 1, c)
<1>3. w1 \in Seq(S) /\ Len(w1) = n /\ \A i \in 1..n : w1[i] = w[i]
  <2>1. w1 = SubSeq(w, 0 + 1, n)
    OBVIOUS
  <2>2. /\ w1 \in Seq(S) /\ Len(w1) = IF 0 <= n THEN n - 0 ELSE 0
        /\ \A i \in 1..n - 0 : w1[i] = w[0 + i]
    BY <1>2, <2>1, TakeIs
  <2> QED BY <1>2, <2>2
<1>4. w2 \in Seq(S) /\ Len(w2) = Len(w) - n /\ \A i \in 1..Len(w) - n : w2[i] = w[n + i]
  <2>1. w2 = SubSeq(w, n + 1, Len(w))
    OBVIOUS
  <2>2. /\ w2 \in Seq(S) /\ Len(w2) = IF n <= Len(w) THEN Len(w) - n ELSE 0
        /\ \A i \in 1..Len(w) - n : w2[i] = w[n + i]
    BY <1>2, <2>1, TakeIs
  <2> QED BY <1>2, <2>2
<1>5. s1 \in Seq(S) /\ Len(s1) = c /\ \A i \in 1..c : s1[i] = s[i]
  <2>1. s1 = SubSeq(s, 0 + 1, c)
    OBVIOUS
  <2> HIDE DEF s1
  <2>2. /\ s1 \in Seq(S) /\ Len(s1) = IF 0 <= c THEN c - 0 ELSE 0
        /\ \A i \in 1..c - 0 : s1[i] = s[0 + i]
    <3>1. s \in Seq(S) /\ 0 \in 0..Len(s) /\ c \in 0..Len(s)
      BY <1>1, <1>2
    <3> QED BY ONLY <2>1, <3>1, TakeIs
  <2>3. c \in Nat
    BY <1>2
  <2> QED BY ONLY <2>2, <2>3
<1>6. k \in Seq(S) /\ Len(k) = c - o /\ \A i \in 1..c - o : k[i] = s[o + i]
  <2>1. k = SubSeq(s, o + 1, c)
    OBVIOUS
  <2>2. /\ k \in Seq(S) /\ Len(k) = IF o <= c THEN c - o ELSE 0
        /\ \A i \in 1..c - o : k[i] = s[o + i]
    <3>1. s \in Seq(S) /\ o \in 0..Len(s) /\ c \in 0..Len(s)
      BY <1>1, <1>2
    <3> QED BY ONLY <2>1, <3>1, TakeIs
  <2> QED BY <1>2, <2>2
<1>7. z \in Seq(S) /\ Len(z) = Len(s) - o /\ \A i \in 1..Len(s) - o : z[i] = s[o + i]
  <2>1. z = SubSeq(s, o + 1, Len(s))
    OBVIOUS
  <2>2. /\ z \in Seq(S) /\ Len(z) = IF o <= Len(s) THEN Len(s) - o ELSE 0
        /\ \A i \in 1..Len(s) - o : z[i] = s[o + i]
    <3>1. s \in Seq(S) /\ o \in 0..Len(s) /\ Len(s) \in 0..Len(s)
      BY <1>1, <1>2
    <3> QED BY ONLY <2>1, <3>1, TakeIs
  <2>3. o <= Len(s)
    BY <1>1, <1>2
  <2> QED BY ONLY <2>2, <2>3
<1> HIDE DEF s1
<1>8. b \o w1 = s1
  <2> DEFINE a == b \o w1
  <2>1. a = b \o w1
    OBVIOUS
  <2> HIDE DEF a
  <2>2. /\ a \in Seq(S) /\ Len(a) = Len(b) + Len(w1)
        /\ \A i \in 1..Len(b) : a[i] = b[i]
        /\ \A i \in 1..Len(w1) : a[Len(b) + i] = w1[i]
    <3>1. b \in Seq(S) /\ w1 \in Seq(S)
      BY <1>3
    <3> QED BY ONLY <2>1, <3>1, JoinIs
  <2>3. ASSUME NEW i \in 1..Len(a) PROVE a[i] = s1[i]
    <3>1. i \in 1..c /\ s1[i] = s[i]
      BY <1>1, <1>2, <1>3, <1>5, <2>2
    <3>2. CASE i <= Len(b)
      <4>1. i \in 1..Len(b)
        BY <1>1, <3>1, <3>2
      <4> QED BY <1>1, <2>2, <3>1, <4>1
    <3>3. CASE ~(i <= Len(b))
      <4> DEFINE j == i - Len(b)
      <4>1. j \in 1..n /\ j \in 1..Len(w1) /\ j \in 1..Len(w) /\ i = Len(b) + j
        BY <1>1, <1>2, <1>3, <3>1, <3>3
      <4> HIDE DEF j
      <4> QED BY Zenon, <1>1, <1>3, <2>2, <3>1, <4>1
    <3> QED BY <3>2, <3>3
  <2>4. Len(a) = Len(s1)
    BY <1>3, <1>5, <2>2
  <2> QED BY <1>5, <2>1, <2>2, <2>3, <2>4, SeqEqual
<1>9. k \o w2 = z
  <2> DEFINE a == k \o w2
  <2>1. a = k \o w2
    OBVIOUS
  <2> HIDE DEF a
  <2>2. /\ a \in Seq(S) /\ Len(a) = Len(k) + Len(w2)
        /\ \A i \in 1..Len(k) : a[i] = k[i]
        /\ \A i \in 1..Len(w2) : a[Len(k) + i] = w2[i]
    <3>1. k \in Seq(S) /\ w2 \in Seq(S)
      BY <1>4, <1>6
    <3> QED BY ONLY <2>1, <3>1, JoinIs
  <2>3. Len(a) = Len(z) /\ Len(a) = Len(s) - o
    <3>1. /\ Len(a) = Len(k) + Len(w2) /\ Len(w2) = Len(w) - n /\ Len(k) = c - o /\ Len(z) = Len(s) - o
          /\ Len(s) = Len(b) + Len(w) /\ c = Len(b) + n /\ Len(b) \in Nat /\ Len(w) \in Nat /\ n \in Nat /\ o \in Nat
      BY <1>1, <1>2, <1>4, <1>6, <1>7, <2>2
    <3> QED BY ONLY <3>1
  <2>4. ASSUME NEW i \in 1..Len(a) PROVE a[i] = z[i]
    <3>1. i \in 1..Len(s) - o /\ z[i] = s[o + i] /\ i \in Nat
      BY <1>1, <1>2, <1>7, <2>3
    <3>2. CASE i <= c - o
      <4>1. i \in 1..c - o /\ i \in 1..Len(k)
        BY <1>2, <1>6, <3>1, <3>2
      <4> QED BY Zenon, <1>6, <2>2, <3>1, <4>1
    <3>3. CASE ~(i <= c - o)
      <4> DEFINE j == i - (c - o)
      <4>1. j \in 1..Len(w) - n /\ j \in 1..Len(w2) /\ i = Len(k) + j /\ n + j \in 1..Len(w)
            /\ Len(b) + (n + j) = o + i
        <5>1. /\ Len(w2) = Len(w) - n /\ Len(k) = c - o /\ o <= c
              /\ Len(s) = Len(b) + Len(w) /\ c = Len(b) + n /\ Len(b) \in Nat /\ Len(w) \in Nat
              /\ n \in Nat /\ n <= Len(w) /\ o \in Nat
          BY <1>1, <1>2, <1>4, <1>6
        <5>2. i \in 1..Len(s) - o /\ ~(i <= c - o)
          BY <3>1, <3>3
        <5> QED BY ONLY <5>1, <5>2 DEF j
      <4> HIDE DEF j
      <4>2. a[i] = w[n + j] /\ s[o + i] = w[n + j]
        BY Zenon, <1>1, <1>4, <2>2, <4>1
      <4> QED BY <3>1, <4>2
    <3> QED BY <3>2, <3>3
  <2> QED BY <1>7, <2>1, <2>2, <2>3, <2>4, SeqEqual
<1>10. c = Len(s) => w2 = <<>>
  <2>1. c = Len(s) => Len(w2) = 0
    BY <1>1, <1>2, <1>4
  <2> QED BY <1>4, <2>1
<1> QED BY <1>1, <1>2, <1>4, <1>6, <1>8, <1>9, <1>10 DEF s1, Cut

(* What is unread once some records are taken.                             *)
Leaves(t, ms, ls, p, k) ==
  /\ Carries(t, ms) /\ Len(ms) = Len(ls) - k /\ \A i \in 1..Len(ms) : ms[i] = ls[k + i]
  /\ \E q : Marked(ms, q) /\ q[0] = p[k] /\ q[Len(ms)] = p[Len(ls)]

(* Without the records that were taken the rest are in place.              *)
LEMMA LeftIs ==
  ASSUME eol \in {"lf", "crlf"}, NEW s, NEW ls, Carries(s, ls), NEW p, Marked(ls, p), NEW k \in 0..Len(ls),
         NEW t, t = SubSeq(s, Off(k) + 1, Len(s)), NEW ms, ms = SubSeq(ls, k + 1, Len(ls))
  PROVE  Leaves(t, ms, ls, p, k)
<1> DEFINE S == Lines \cup Ends
           n == Len(ls)
           q == [i \in 0..n - k |-> p[k + i]]
<1>1. /\ s \in Seq(S) /\ Len(s) = Off(n) /\ n \in Nat /\ ls \in Seq(Lines)
      /\ \A i \in 0..n - 1 : /\ s[Off(i) + 1] = ls[i + 1]
                             /\ \A j \in 1..Width - 1 : s[Off(i) + 1 + j] = EndAt(j)
  <2>1. ls \in Seq(Lines)
    BY DEF Carries
  <2>2. n \in Nat
    BY <2>1
  <2> QED BY <2>1, <2>2 DEF Carries
<1>2. p \in [0..n -> 0..Len(doc)] /\ \A i \in 1..n : Moves(ls[i], p[i - 1], p[i])
  BY DEF Marked
<1> HIDE DEF S
<1>3. k \in Nat /\ k <= n /\ k \in 0..n /\ n \in 0..n
  BY <1>1
<1>4. ms \in Seq(Lines) /\ Len(ms) = n - k /\ \A i \in 1..n - k : ms[i] = ls[k + i]
  <2>1. ms = SubSeq(ls, k + 1, n) /\ ls \in Seq(Lines) /\ n = Len(ls)
    BY <1>1
  <2> HIDE DEF n
  <2>2. k \in 0..Len(ls) /\ n \in 0..Len(ls)
    BY <1>3, <2>1
  <2>3. /\ ms \in Seq(Lines) /\ Len(ms) = IF k <= n THEN n - k ELSE 0
        /\ \A i \in 1..n - k : ms[i] = ls[k + i]
    BY ONLY <2>1, <2>2, TakeIs
  <2> QED BY <1>3, <2>3
<1>5. Width \in {3, 5} /\ \A i \in Nat : Off(i) \in Nat
  BY <1>3, OffIs
<1>6. Off(k) \in 0..Len(s) /\ Off(n) = Off(k) + Off(n - k) /\ Off(n - k) \in Nat
  <2>1. n - k \in Nat /\ k + (n - k) = n
    BY <1>1, <1>3
  <2>2. Off(k + (n - k)) = Off(k) + Off(n - k)
    BY <1>3, <2>1, OffIs
  <2>3. Off(k) \in Nat /\ Off(n - k) \in Nat /\ Off(n) \in Nat
    BY <1>1, <1>3, <1>5, <2>1
  <2> QED BY <1>1, <2>1, <2>2, <2>3
<1>7. t \in Seq(S) /\ Len(t) = Off(n - k) /\ \A i \in 1..Off(n - k) : t[i] = s[Off(k) + i]
  <2> DEFINE o == Off(k)
             l == Len(s)
  <2>1. o \in 0..l /\ l = o + Off(n - k) /\ o \in Nat /\ Off(n - k) \in Nat /\ l \in 0..l
    BY <1>1, <1>6
  <2>2. t = SubSeq(s, o + 1, l) /\ s \in Seq(S)
    BY <1>1
  <2> HIDE DEF o
  <2>3. /\ t \in Seq(S) /\ Len(t) = IF o <= l THEN l - o ELSE 0
        /\ \A i \in 1..l - o : t[i] = s[o + i]
    BY ONLY <2>1, <2>2, TakeIs DEF l
  <2> HIDE DEF l
  <2>4. o <= l /\ l - o = Off(n - k)
    BY <2>1
  <2> QED BY <2>3, <2>4 DEF o
<1>8. ASSUME NEW i \in 0..n - k - 1
      PROVE  /\ t[Off(i) + 1] = ms[i + 1]
             /\ \A j \in 1..Width - 1 : t[Off(i) + 1 + j] = EndAt(j)
  <2>1. i \in Nat /\ i < n - k /\ k + i \in 0..n - 1 /\ i + 1 \in 1..n - k /\ k + (i + 1) = (k + i) + 1 /\ n - k \in Nat
    BY <1>1, <1>3
  <2>2. Off(k + i) = Off(k) + Off(i) /\ Off(i) + Width <= Off(n - k) /\ Off(i) \in Nat /\ Off(k) \in Nat
    <3>1. Off(k + i) = Off(k) + Off(i)
      BY <1>3, <2>1, OffIs
    <3>2. Off(i) + Width <= Off(n - k)
      BY <2>1, OffIs
    <3> QED BY <1>3, <1>5, <2>1, <3>1, <3>2
  <2>3. /\ Off(i) + 1 \in 1..Off(n - k) /\ Off(k) + (Off(i) + 1) = Off(k + i) + 1
        /\ \A j \in 1..Width - 1 : /\ Off(i) + 1 + j \in 1..Off(n - k)
                                   /\ Off(k) + (Off(i) + 1 + j) = Off(k + i) + 1 + j
    <3> DEFINE a == Off(i)
               b == Off(k)
               z == Off(n - k)
               v == Off(k + i)
               w == Width
    <3>1. /\ a \in Nat /\ b \in Nat /\ z \in Nat /\ w \in {3, 5}
          /\ a + w <= z /\ v = b + a
      BY <1>5, <1>6, <2>2
    <3> HIDE DEF a, b, z, v, w
    <3>2. /\ a + 1 \in 1..z /\ b + (a + 1) = v + 1
          /\ \A j \in 1..w - 1 : a + 1 + j \in 1..z /\ b + (a + 1 + j) = v + 1 + j
      BY ONLY <3>1
    <3> QED BY <3>2 DEF a, b, z, v, w
  <2>4. t[Off(i) + 1] = ms[i + 1]
    <3>1. t[Off(i) + 1] = s[Off(k + i) + 1] /\ ms[i + 1] = ls[k + (i + 1)]
      BY Zenon, <1>4, <1>7, <2>1, <2>3
    <3> QED BY <1>1, <2>1, <3>1
  <2>5. ASSUME NEW j \in 1..Width - 1 PROVE t[Off(i) + 1 + j] = EndAt(j)
    <3>1. t[Off(i) + 1 + j] = s[Off(k + i) + 1 + j]
      BY Zenon, <1>7, <2>3
    <3> QED BY <1>1, <2>1, <3>1
  <2> QED BY <2>4, <2>5
<1>9. Carries(t, ms)
  BY <1>4, <1>7, <1>8 DEF Carries, S
<1>10. \A i \in 0..n - k : q[i] = p[k + i] /\ k + i \in 0..n
  BY <1>1, <1>3
<1>11. /\ Marked(ms, q) /\ q[0] = p[k] /\ q[n - k] = p[n]
  <2>1. q \in [0..n - k -> 0..Len(doc)]
    BY <1>2, <1>10
  <2> HIDE DEF q
  <2>2. ASSUME NEW i \in 1..n - k PROVE Moves(ms[i], q[i - 1], q[i])
    <3>1. i \in 0..n - k /\ i - 1 \in 0..n - k /\ k + i \in 1..n /\ k + (i - 1) = (k + i) - 1
      BY <1>1, <1>3
    <3>2. ms[i] = ls[k + i] /\ q[i - 1] = p[(k + i) - 1] /\ q[i] = p[k + i]
      BY Zenon, <1>4, <1>10, <3>1
    <3> QED BY <1>2, <3>1, <3>2
  <2>3. 0 \in 0..n - k /\ n - k \in 0..n - k /\ k + 0 = k /\ k + (n - k) = n
    BY <1>1, <1>3
  <2>4. q[0] = p[k] /\ q[n - k] = p[n]
    BY Zenon, <1>10, <2>3
  <2> QED BY <1>4, <2>1, <2>2, <2>4 DEF Marked
<1>12. \A i \in 1..Len(ms) : ms[i] = ls[k + i]
  BY <1>4
<1> HIDE DEF q
<1>13. Len(ms) = Len(ls) - k /\ q[Len(ms)] = p[Len(ls)]
  BY <1>4, <1>11
<1> QED BY Zenon, <1>9, <1>11, <1>12, <1>13 DEF Leaves

(* The same, whichever layout is asked of.                                 *)
LEMMA TakenOn ==
  ASSUME Taken, UNCHANGED <<reply, doc, eol>>, doc \in Seq(Symbols), NEW t \in 0..Len(doc), NEW h,
         \A at : Layout(at) => \E u \in 0..Len(doc) : Has(at, h, u), h.text = SubSeq(doc, 1, t),
         text' = h.text, scan' = h.scan, shown' = h.out
  PROVE  Taken' /\ Len(text') = t
<1>1. ASSUME NEW u \in 0..Len(doc), SubSeq(doc, 1, u) = SubSeq(doc, 1, t) PROVE u = t
  <2>1. Len(SubSeq(doc, 1, u)) = u /\ Len(SubSeq(doc, 1, t)) = t
    <3>1. 1 \in Nat \ {0}
      OBVIOUS
    <3> QED BY <3>1, SymbolIs
  <2> QED BY <1>1, <2>1
<1>2. Len(text') = t /\ text' = SubSeq(doc', 1, t)
  <2>1. Len(SubSeq(doc, 1, t)) = t
    <3>1. 1 \in Nat \ {0}
      OBVIOUS
    <3> QED BY <3>1, SymbolIs
  <2> QED BY <2>1
<1>3. /\ eol' \in {"lf", "crlf"} /\ reply' \in Replies
      /\ \E blanks \in {<<>>, <<"blank">>} : doc' = Document(reply', blanks)
  BY DEF Taken
<1>4. ASSUME NEW at, Layout(at)' PROVE Follows(at, scan, shown, Len(text))'
  <2>1. Layout(at)
    BY <1>4, KeptAre
  <2>2. PICK u \in 0..Len(doc) : Has(at, h, u)
    BY <2>1
  <2>3. /\ h = [text |-> SubSeq(doc, 1, u), scan |-> h.scan, out |-> h.out, result |-> h.result]
        /\ Follows(at, h.scan, h.out, u)
    BY <2>2 DEF Has
  <2>4. h.text = SubSeq(doc, 1, u)
    BY <2>3
  <2>5. u = t
    BY <1>1, <2>4
  <2> DEFINE sc == h.scan
             ou == h.out
  <2>6. Follows(at, sc, ou, t) /\ scan' = sc /\ shown' = ou /\ Len(text') = t
    BY <1>2, <2>3, <2>5
  <2> HIDE DEF sc, ou
  <2> QED BY <2>6, FollowsOn
<1>5. Len(text') \in 0..Len(doc')
  BY <1>2
<1> QED BY <1>2, <1>3, <1>4, <1>5 DEF Taken

(* What has begun has a layout.                                            *)
LEMMA LayoutExists ==
  ASSUME Taken
  PROVE  (\E at : Layout(at)) /\ doc \in Seq(Symbols)
<1>1. PICK blanks \in {<<>>, <<"blank">>} : doc = Document(reply, blanks)
  BY DEF Taken
<1>2. reply \in Seq(Chars)
  BY StreamAssumption DEF Taken
<1>3. PICK at : Layout(at)
  BY <1>1, <1>2, LayoutIs
<1> QED BY <1>3, LayoutTyped

(* The last word of an answer is the last line there is.                   *)
LEMMA AnswerIsLast ==
  ASSUME NEW s, NEW ls, NEW p, Unread(s, ls, p), NEW k \in 0..Len(ls), NEW ev,
         \A i \in 1..Len(ev) : \E j \in 1..k : ev[i] = ls[j],
         NEW i \in 1..Len(ev), Answered(ev[i])
  PROVE  k = Len(ls) /\ <<over>> \in {<<"completed">>, <<"incomplete">>}
<1>1. ls \in Seq(Lines)
  BY DEF Unread, Marked
<1>2. Len(ls) \in Nat
  BY <1>1
<1>3. PICK j \in 1..k : ev[i] = ls[j]
  OBVIOUS
<1>4. j \in 1..Len(ls) /\ j <= k /\ k <= Len(ls)
  BY <1>2
<1>5. ls[j] \in {<<"completed">>, <<"incomplete">>} /\ j = Len(ls) /\ ls[j] = <<over>>
  BY <1>3, <1>4 DEF Unread, Answered
<1> QED BY <1>2, <1>4, <1>5

(* A read: the parser takes some records, the extractor their parts.       *)
LEMMA ReadBytesKeeps ==
  ASSUME StreamInv, ReadBytes
  PROVE  StreamInv'
<1> DEFINE S == Lines \cup Ends
<1>1. PICK n \in 1..Len(wire) :
        LET P == ParserPush(buf \o SubSeq(wire, 1, n))
            H == Handled(P.events)
        IN  /\ result \in {"running", "final"}
            /\ buf' = P.rest /\ wire' = SubSeq(wire, n + 1, Len(wire))
            /\ text' = H.text /\ scan' = H.scan /\ shown' = H.out /\ result' = H.result
            /\ UNCHANGED <<reply, doc, eol, written, over>>
  BY DEF ReadBytes
<1> DEFINE P == ParserPush(buf \o SubSeq(wire, 1, n))
           ev == P.events
           H == Handled(ev)
<1>2. /\ buf' = P.rest /\ wire' = SubSeq(wire, n + 1, Len(wire))
      /\ text' = H.text /\ scan' = H.scan /\ shown' = H.out /\ result' = H.result
      /\ UNCHANGED <<reply, doc, eol, written, over>>
  BY <1>1
<1>3. result = "running"
  <2>1. result = "final" => wire = <<>>
    BY DEF StreamInv
  <2>2. wire = <<>> => Len(wire) = 0
    OBVIOUS
  <2> QED BY <1>1, <2>1, <2>2
<1>4. /\ Taken /\ wire \in Seq(S) /\ buf \in Seq(S)
      /\ \E s, ls, p : s = buf \o wire /\ Unread(s, ls, p)
      /\ over = "completed" => written = Len(doc)
  BY <1>3 DEF StreamInv
<1>5. PICK s, ls, p : s = buf \o wire /\ Unread(s, ls, p)
  BY <1>4
<1> HIDE DEF S
<1>6. /\ Carries(s, ls) /\ Marked(ls, p) /\ p[0] = Len(text) /\ p[Len(ls)] = written
  BY <1>5 DEF Unread
<1>7. eol \in {"lf", "crlf"} /\ text = SubSeq(doc, 1, Len(text)) /\ \A at : Layout(at) => Follows(at, scan, shown, Len(text))
  BY <1>4 DEF Taken
<1> DEFINE c == Len(buf) + n
           z == SubSeq(s, 1, c)
<1>8. n \in 0..Len(wire) /\ Len(buf) \in Nat /\ c \in Nat /\ Len(wire) \in Nat
  BY <1>4
<1>9. s \in Seq(S) /\ c \in 0..Len(s) /\ buf \o SubSeq(wire, 1, n) = z
  <2> DEFINE w1 == SubSeq(wire, 1, n)
             w2 == SubSeq(wire, n + 1, Len(wire))
             b1 == SubSeq(s, 0 + 1, c)
             v == SubSeq(s, 0 + 1, Len(s))
  <2>1. c = Len(buf) + n /\ 0 \in 0..c
    BY <1>8
  <2>2. buf \in Seq(S) /\ wire \in Seq(S) /\ s = buf \o wire /\ n \in 0..Len(wire)
    BY <1>4, <1>5, <1>8
  <2>3. /\ w1 = SubSeq(wire, 1, n) /\ w2 = SubSeq(wire, n + 1, Len(wire))
        /\ b1 = SubSeq(s, 0 + 1, c) /\ v = SubSeq(s, 0 + 1, Len(s))
    OBVIOUS
  <2> HIDE DEF c, w1, w2, b1, v
  <2>4. Cut(S, s, c, 0, buf, w1, b1, w2, v)
    BY ONLY <2>1, <2>2, <2>3, CutIs
  <2> QED BY <2>3, <2>4 DEF Cut, z
<1>10. PICK k : Reads(s, ls, p, c, k, P)
  <2>1. P = ParserPush(z)
    BY Zenon, <1>9
  <2> HIDE DEF P, c
  <2>2. \E k : Reads(s, ls, p, c, k, ParserPush(SubSeq(s, 1, c)))
    BY <1>6, <1>7, <1>9, PushIs
  <2> QED BY <2>1, <2>2
<1> HIDE DEF P, H, z
<1>11. /\ k \in 0..Len(ls) /\ Off(k) <= c /\ P.rest = SubSeq(s, Off(k) + 1, c)
       /\ \E q : Marked(ev, q) /\ q[0] = p[0] /\ q[Len(ev)] = p[k]
       /\ \A i \in 1..Len(ev) : ev[i] # <<"comment">> /\ \E j \in 1..k : ev[i] = ls[j]
  BY <1>10 DEF Reads
<1> HIDE DEF ev
<1>12. PICK q : Marked(ev, q) /\ q[0] = p[0] /\ q[Len(ev)] = p[k]
  BY <1>11
<1>13. ASSUME NEW at, Layout(at)
       PROVE  \E t \in 0..Len(doc) :
                /\ Has(at, H, t)
                /\ H.result # "error" => t = q[Len(ev)]
                /\ H.result = "final" => \E i \in 1..Len(ev) : Answered(ev[i])
  <2>1. text = SubSeq(doc, 1, q[0]) /\ Follows(at, scan, shown, q[0])
    BY <1>6, <1>7, <1>12, <1>13
  <2>2. \A i \in 1..Len(ev) : ev[i] # <<"comment">>
    BY <1>11
  <2> QED BY <1>3, <1>12, <1>13, <2>1, <2>2, HandledIs DEF H
<1>14. PICK at : Layout(at)
  BY <1>4, LayoutExists
<1>15. PICK t \in 0..Len(doc) :
         /\ Has(at, H, t)
         /\ H.result # "error" => t = q[Len(ev)]
         /\ H.result = "final" => \E i \in 1..Len(ev) : Answered(ev[i])
  BY <1>13, <1>14
<1>16. H.text = SubSeq(doc, 1, t) /\ H.result \in {"running", "final", "error"}
  <2>1. /\ H = [text |-> SubSeq(doc, 1, t), scan |-> H.scan, out |-> H.out, result |-> H.result]
        /\ H.result \in {"running", "final", "error"}
    BY <1>15 DEF Has
  <2> QED BY <2>1
<1>17. Taken' /\ Len(text') = t
  <2>1. doc \in Seq(Symbols)
    BY <1>4, LayoutExists
  <2>2. \A a : Layout(a) => \E u \in 0..Len(doc) : Has(a, H, u)
    BY Zenon, <1>13
  <2>3. text' = H.text /\ scan' = H.scan /\ shown' = H.out /\ UNCHANGED <<reply, doc, eol>>
    BY <1>2
  <2> QED BY <1>4, <1>16, <2>1, <2>2, <2>3, TakenOn
<1> DEFINE rest == SubSeq(s, Off(k) + 1, Len(s))
           ms == SubSeq(ls, k + 1, Len(ls))
<1>18. Leaves(rest, ms, ls, p, k)
  <2>1. rest = SubSeq(s, Off(k) + 1, Len(s)) /\ ms = SubSeq(ls, k + 1, Len(ls))
    OBVIOUS
  <2> HIDE DEF rest, ms
  <2> QED BY <1>6, <1>7, <1>11, <2>1, LeftIs
<1>19. Off(k) \in 0..c
  <2>1. k \in Nat
    BY <1>11
  <2>2. Off(k) \in Nat
    BY <1>7, <2>1, OffIs
  <2> QED BY <1>8, <1>11, <2>2
<1>20. /\ buf' \in Seq(S) /\ wire' \in Seq(S) /\ buf' \o wire' = rest
       /\ c = Len(s) => wire' = <<>>
  <2> DEFINE o == Off(k)
  <2>1. o \in 0..c /\ c = Len(buf) + n
    BY <1>19
  <2>2. buf \in Seq(S) /\ wire \in Seq(S) /\ s = buf \o wire /\ n \in 0..Len(wire)
    BY <1>4, <1>5, <1>8
  <2>3. buf' = SubSeq(s, o + 1, c) /\ wire' = SubSeq(wire, n + 1, Len(wire)) /\ rest = SubSeq(s, o + 1, Len(s))
    BY <1>2, <1>11
  <2> HIDE DEF o, c, rest
  <2> DEFINE w1 == SubSeq(wire, 1, n)
             b2 == buf'
             w2 == wire'
  <2>4. w1 = SubSeq(wire, 1, n) /\ b2 = SubSeq(s, o + 1, c) /\ w2 = SubSeq(wire, n + 1, Len(wire))
    BY <2>3
  <2> HIDE DEF w1, b2, w2
  <2>5. Cut(S, s, c, o, buf, w1, b2, w2, rest)
    BY ONLY <2>1, <2>2, <2>3, <2>4, CutIs
  <2> QED BY <2>5 DEF b2, w2, Cut
<1> HIDE DEF c, rest, ms
<1>21. H.result = "final" =>
         /\ wire' = <<>> /\ <<over>> \in {<<"completed">>, <<"incomplete">>}
         /\ t = written
  <2>1. SUFFICES ASSUME H.result = "final"
                 PROVE  wire' = <<>> /\ <<over>> \in {<<"completed">>, <<"incomplete">>} /\ t = written
    OBVIOUS
  <2>2. PICK i \in 1..Len(ev) : Answered(ev[i])
    BY <1>15, <2>1
  <2>3. k = Len(ls) /\ <<over>> \in {<<"completed">>, <<"incomplete">>}
    <3>1. \A j \in 1..Len(ev) : \E m \in 1..k : ev[j] = ls[m]
      BY <1>11
    <3>2. k \in 0..Len(ls)
      BY <1>11
    <3>3. Unread(s, ls, p)
      BY <1>5
    <3> QED BY ONLY <2>2, <3>1, <3>2, <3>3, AnswerIsLast
  <2>4. t = written
    BY <1>6, <1>12, <1>15, <2>1, <2>3
  <2>5. c = Len(s)
    <3>1. Len(s) = Off(Len(ls))
      BY <1>6 DEF Carries
    <3>2. Off(k) = Len(s) /\ Len(s) \in Nat
      BY <1>9, <2>3, <3>1
    <3> QED BY <1>9, <1>11, <3>2
  <2> QED BY <1>20, <2>3, <2>4, <2>5
<1>22. H.result = "running" => \E z1, l1, p1 : z1 = buf' \o wire' /\ Unread(z1, l1, p1)'
  <2>1. SUFFICES ASSUME H.result = "running"
                 PROVE  \E z1, l1, p1 : z1 = buf' \o wire' /\ Unread(z1, l1, p1)'
    OBVIOUS
  <2>2. PICK z1, l1 : z1 = rest /\ l1 = ms
    OBVIOUS
  <2>3. /\ Carries(z1, l1) /\ Len(l1) = Len(ls) - k /\ \A i \in 1..Len(l1) : l1[i] = ls[k + i]
        /\ \E p1 : Marked(l1, p1) /\ p1[0] = p[k] /\ p1[Len(l1)] = p[Len(ls)]
    BY <1>18, <2>2 DEF Leaves
  <2>4. PICK p1 : Marked(l1, p1) /\ p1[0] = p[k] /\ p1[Len(l1)] = p[Len(ls)]
    BY <2>3
  <2>5. Carries(z1, l1)' /\ Marked(l1, p1)'
    <3>1. UNCHANGED <<reply, doc, eol>>
      BY <1>2
    <3>2. /\ Carries(z1, l1)' <=> Carries(z1, l1)
          /\ Marked(l1, p1)' <=> Marked(l1, p1)
      BY <3>1, KeptAre
    <3> QED BY <2>3, <2>4, <3>2
  <2>6. p1[0] = Len(text') /\ p1[Len(l1)] = written'
    <3>1. t = p[k]
      BY <1>12, <1>15, <2>1
    <3>2. written' = written
      BY <1>2
    <3> QED BY <1>6, <1>17, <2>4, <3>1, <3>2
  <2>7. ASSUME NEW i \in 1..Len(l1), l1[i] \in {<<"completed">>, <<"incomplete">>, <<"failed">>}
        PROVE  i = Len(l1) /\ l1[i] = <<over'>>
    <3>1. Len(ls) \in Nat /\ k \in Nat /\ k <= Len(ls)
      <4>1. ls \in Seq(Lines)
        BY <1>6 DEF Marked
      <4>2. Len(ls) \in Nat
        BY <4>1
      <4> QED BY <1>11, <4>2
    <3>2. k + i \in 1..Len(ls) /\ i \in Nat
      BY <2>3, <3>1
    <3>3. l1[i] = ls[k + i]
      BY <2>3
    <3>4. k + i = Len(ls) /\ ls[k + i] = <<over>>
      BY <1>5, <2>7, <3>2, <3>3 DEF Unread
    <3>5. i = Len(l1)
      BY <2>3, <3>1, <3>2, <3>4
    <3>6. over' = over
      BY <1>2
    <3> QED BY <3>3, <3>4, <3>5, <3>6
  <2>8. Unread(z1, l1, p1)'
    BY <2>5, <2>6, <2>7 DEF Unread
  <2> QED BY <1>20, <2>2, <2>8
<1>23. UNCHANGED <<reply, doc, eol, written, over>> /\ result' = H.result
  BY <1>2
<1>24. result' = "final" => wire' = <<>> /\ over' # "no" /\ (over' = "completed" => Len(text') = Len(doc'))
  <2>1. <<over>> \in {<<"completed">>, <<"incomplete">>} => over # "no"
    OBVIOUS
  <2> QED BY <1>4, <1>17, <1>21, <1>23, <2>1
<1>25. result' = "running" =>
         /\ wire' \in Seq(Lines \cup Ends) /\ buf' \in Seq(Lines \cup Ends)
         /\ \E z1, l1, p1 : z1 = buf' \o wire' /\ Unread(z1, l1, p1)'
         /\ over' = "completed" => written' = Len(doc')
  <2>1. buf' \in Seq(Lines \cup Ends) /\ wire' \in Seq(Lines \cup Ends)
    BY <1>20 DEF S
  <2>2. over' = "completed" => written' = Len(doc')
    BY <1>4, <1>23
  <2> QED BY <1>22, <1>23, <2>1, <2>2
<1>26. result' \in {"running", "final", "error"}
  BY <1>16, <1>23
<1> QED BY <1>17, <1>24, <1>25, <1>26 DEF StreamInv

(* A document is written in symbols.                                       *)
LEMMA DocumentTyped ==
  ASSUME NEW r \in Seq(Chars), NEW blanks, blanks \in {<<>>, <<"blank">>}, NEW d, d = Document(r, blanks)
  PROVE  d \in Seq(Symbols)
<1> DEFINE h == <<"open">> \o KEY \o <<":">> \o blanks \o <<"quote">>
           seqs == [i \in DOMAIN r |-> Encoded[r[i]]]
           m == FlattenSeq(seqs)
           n == Len(r)
<1>1. h \in Seq(Symbols)
  BY HeadOfIs
<1>2. d = (h \o (m \o <<"quote">>)) \o <<"claims">>
  BY DEF Document, JsonString
<1> HIDE DEF h
<1>3. n \in Nat /\ DOMAIN r = 1..n /\ \A i \in 1..n : r[i] \in Chars
  OBVIOUS
<1>4. seqs \in Seq(Seq(Symbols)) /\ Len(seqs) = n
  <2>1. seqs = [i \in 1..n |-> Encoded[r[i]]]
    BY <1>3
  <2>2. \A i \in 1..n : seqs[i] = Encoded[r[i]]
    BY <1>3
  <2>3. seqs \in [1..n -> Seq(Symbols)]
    BY <1>3, <2>1, <2>2, EncodedTyped
  <2> HIDE DEF seqs, n
  <2> QED BY <1>3, <2>2, <2>3
<1> HIDE DEF seqs, n
<1>5. PICK H : IsTail(H, Symbols, seqs) /\ m = H[1]
  BY <1>4, FlattenIs
<1>6. H \in [1..n + 1 -> Seq(Symbols)]
  BY <1>4, <1>5 DEF IsTail
<1>7. m \in Seq(Symbols)
  <2>1. 1 \in 1..n + 1
    BY <1>3
  <2> QED BY <1>5, <1>6, <2>1
<1> HIDE DEF m
<1>8. "quote" \in Symbols /\ "claims" \in Symbols
  BY DEF Symbols
<1> QED BY ONLY <1>1, <1>2, <1>7, <1>8, BetweenIs

(* The answer begins.                                                      *)
LEMMA RespondsKeeps ==
  ASSUME StreamInv, Responds
  PROVE  StreamInv'
<1>1. /\ result = "idle" /\ result' = "running" /\ over' = "no"
      /\ reply' \in Replies /\ eol' \in {"lf", "crlf"}
      /\ UNCHANGED <<written, wire, buf, text, scan, shown>>
  BY DEF Responds
<1>2. PICK blanks \in {<<>>, <<"blank">>} : doc' = Document(reply', blanks)
  BY DEF Responds
<1>3. text' = <<>> /\ shown' = <<>> /\ scan' = NewScan /\ written' = 0 /\ wire' = <<>> /\ buf' = <<>>
  BY <1>1 DEF StreamInv
<1>4. doc' \in Seq(Symbols) /\ Len(doc') \in Nat
  <2>1. reply' \in Seq(Chars)
    BY <1>1, StreamAssumption
  <2> DEFINE d == doc'
             r == reply'
  <2>2. r \in Seq(Chars) /\ blanks \in {<<>>, <<"blank">>} /\ d = Document(r, blanks)
    BY <1>2, <2>1
  <2> HIDE DEF d, r
  <2>3. d \in Seq(Symbols)
    BY ONLY <2>2, DocumentTyped
  <2>4. Len(d) \in Nat
    BY <2>3
  <2> QED BY <2>3, <2>4 DEF d
<1>5. Taken'
  <2>1. Len(text') = 0 /\ Len(text') \in 0..Len(doc')
    BY <1>3, <1>4
  <2>2. text' = SubSeq(doc', 1, Len(text'))
    BY <1>3, <1>4, <2>1
  <2>3. ASSUME NEW at, Layout(at)' PROVE Follows(at, scan, shown, Len(text))'
    <3>1. Len(text') < 3 /\ shown' = <<>> /\ scan' = ScanAt("seeking_key", 1, FALSE)
      BY <1>3, <2>1 DEF NewScan
    <3> QED BY <3>1 DEF Follows
  <2> QED BY <1>1, <1>2, <2>1, <2>2, <2>3 DEF Taken
<1>6. \E s, ls, p : s = buf' \o wire' /\ Unread(s, ls, p)'
  <2> DEFINE p == [i \in 0..0 |-> 0]
             e == <<>>
  <2>1. e \in Seq(Lines) /\ e \in Seq(Lines \cup Ends) /\ Len(e) = 0 /\ e = buf' \o wire'
    BY <1>3
  <2>2. p \in [0..0 -> 0..Len(doc')] /\ p[0] = 0
    BY <1>4
  <2> HIDE DEF p, e
  <2>3. Carries(e, e)'
    <3>1. Len(e) = Off(Len(e))'
      BY <2>1 DEF Off
    <3>2. 0..Len(e) - 1 = {}
      BY <2>1
    <3> QED BY <2>1, <3>1, <3>2 DEF Carries
  <2>4. Marked(e, p)'
    <3>1. 1..Len(e) = {}
      BY <2>1
    <3> QED BY <2>1, <2>2, <3>1 DEF Marked
  <2>5. Unread(e, e, p)'
    <3>1. 1..Len(e) = {} /\ Len(text') = 0
      BY <1>3, <2>1
    <3> QED BY <1>3, <2>1, <2>2, <2>3, <2>4, <3>1 DEF Unread
  <2> QED BY <2>1, <2>5
<1>7. buf' \in Seq(Lines \cup Ends) /\ wire' \in Seq(Lines \cup Ends)
  BY <1>3
<1> QED BY <1>1, <1>5, <1>6, <1>7 DEF StreamInv

(* A line more on its way.                                                 *)
LEMMA SendKeeps ==
  ASSUME StreamInv, Unchanged, NEW line, SendRecord(line),
         result = "running" => line \in Lines /\ Moves(line, written, written') /\ written' \in 0..Len(doc),
         line \in {<<"completed">>, <<"incomplete">>, <<"failed">>} => line = <<over'>>,
         over' = "completed" => written' = Len(doc)
  PROVE  StreamInv'
<1>1. /\ over = "no" /\ wire' = wire \o <<line>> \o LineEnd \o LineEnd
      /\ UNCHANGED <<reply, doc, eol, buf, text, scan, shown, result>>
  BY DEF SendRecord, Unchanged
<1>2. result \in {"running", "error"}
  <2>1. over # "idle"
    BY <1>1
  <2> QED BY <1>1, <2>1 DEF StreamInv
<1>3. Taken'
  <2>1. Taken
    BY <1>2 DEF StreamInv
  <2> QED BY <1>1, <2>1, TakenStays
<1>4. ASSUME result = "running"
      PROVE  /\ wire' \in Seq(Lines \cup Ends) /\ buf' \in Seq(Lines \cup Ends)
             /\ \E s, ls, p : s = buf' \o wire' /\ Unread(s, ls, p)'
  <2>1. wire \in Seq(Lines \cup Ends) /\ buf \in Seq(Lines \cup Ends)
    BY <1>4 DEF StreamInv
  <2>2. PICK s, ls, p : s = buf \o wire /\ Unread(s, ls, p)
    BY <1>4 DEF StreamInv
  <2>3. eol \in {"lf", "crlf"}
    BY <1>2 DEF StreamInv, Taken
  <2>4. /\ wire' \in Seq(Lines \cup Ends)
        /\ \E t, ms, q : t = (buf \o wire)' /\ Unread(t, ms, q)'
    <3>1. line \in Lines /\ Moves(line, written, written') /\ written' \in 0..Len(doc)
      BY <1>4
    <3>2. UNCHANGED <<reply, doc, eol, buf, text>>
      BY <1>1
    <3>3. over = "no" /\ wire' = wire \o <<line>> \o LineEnd \o LineEnd
      BY <1>1
    <3> QED BY <2>1, <2>2, <2>3, <3>1, <3>2, <3>3, SentIs
  <2> QED BY <1>1, <2>1, <2>4
<1>5. over' = "completed" => written' = Len(doc')
  BY <1>1
<1>6. result' = result
  BY <1>1
<1> QED BY <1>2, <1>3, <1>4, <1>5, <1>6 DEF StreamInv

(* The model writes, waits or ends.                                        *)
LEMMA WritesKeep ==
  ASSUME StreamInv, ModelWrites \/ Heartbeat \/ ModelEnds
  PROVE  StreamInv'
<1>1. over = "no" /\ result \in {"running", "error"}
  <2>1. over = "no"
    BY DEF ModelWrites, Heartbeat, ModelEnds, SendRecord
  <2> QED BY <2>1 DEF StreamInv
<1>2. doc \in Seq(Symbols)
  BY <1>1, LayoutExists DEF StreamInv
<1>3. Len(doc) \in Nat
  BY <1>2
<1>4. result = "running" => written \in 0..Len(doc)
  <2>1. SUFFICES ASSUME result = "running" PROVE written \in 0..Len(doc)
    OBVIOUS
  <2>2. PICK s, ls, p : Unread(s, ls, p)
    BY <2>1 DEF StreamInv
  <2>3. ls \in Seq(Lines) /\ p \in [0..Len(ls) -> 0..Len(doc)] /\ p[Len(ls)] = written
    BY <2>2 DEF Unread, Marked
  <2>4. Len(ls) \in 0..Len(ls)
    BY <2>3
  <2> QED BY <2>3, <2>4
<1>5. CASE ModelWrites
  <2>1. PICK n \in 1..MaxDelta :
          /\ written + n <= Len(doc) /\ written' = written + n
          /\ SendRecord(<<"delta", written + 1, written + n>>)
          /\ UNCHANGED over /\ Unchanged
    BY <1>5 DEF ModelWrites
  <2> DEFINE line == <<"delta", written + 1, written + n>>
  <2>2. SendRecord(line) /\ Unchanged /\ over' = "no"
    BY <1>1, <2>1
  <2>3. ASSUME result = "running"
        PROVE  line \in Lines /\ Moves(line, written, written') /\ written' \in 0..Len(doc)
    <3>1. written \in Nat /\ n \in Nat /\ n > 0 /\ written + 1 \in Nat /\ written + n \in Nat
      BY <1>3, <1>4, <2>3, StreamAssumption
    <3>2. line \in Lines
      BY <3>1 DEF Lines
    <3>3. Moves(line, written, written')
      BY <2>1, <3>1 DEF Moves
    <3>4. written' \in 0..Len(doc)
      BY <1>3, <2>1, <3>1
    <3> QED BY <3>2, <3>3, <3>4
  <2>4. line \notin {<<"completed">>, <<"incomplete">>, <<"failed">>}
    OBVIOUS
  <2>5. over' # "completed"
    BY <2>2
  <2> HIDE DEF line
  <2> QED BY <2>2, <2>3, <2>4, <2>5, SendKeeps
<1>6. CASE Heartbeat
  <2> DEFINE line == <<"comment">>
  <2>1. SendRecord(line) /\ Unchanged /\ over' = "no" /\ written' = written
    BY <1>1, <1>6 DEF Heartbeat
  <2>2. line \in Lines /\ Moves(line, written, written')
    BY <2>1 DEF Lines, Moves, Notices
  <2>3. line \notin {<<"completed">>, <<"incomplete">>, <<"failed">>}
    OBVIOUS
  <2>4. result = "running" => written' \in 0..Len(doc)
    BY <1>4, <2>1
  <2>5. over' # "completed"
    BY <2>1
  <2> HIDE DEF line
  <2> QED BY <2>1, <2>2, <2>3, <2>4, <2>5, SendKeeps
<1>7. CASE ModelEnds
  <2>1. PICK e \in {"completed", "incomplete", "failed"} :
          /\ e = "completed" => written = Len(doc)
          /\ SendRecord(<<e>>) /\ over' = e
          /\ UNCHANGED written /\ Unchanged
    BY <1>7 DEF ModelEnds
  <2> DEFINE line == <<e>>
  <2>2. SendRecord(line) /\ Unchanged /\ written' = written /\ line = <<over'>>
    BY <2>1
  <2>3. line \in Lines /\ Moves(line, written, written')
    BY <2>2 DEF Lines, Moves, Notices
  <2>4. over' = "completed" => written' = Len(doc)
    BY <2>1
  <2>5. result = "running" => written' \in 0..Len(doc)
    BY <1>4, <2>2
  <2> HIDE DEF line
  <2> QED BY <2>2, <2>3, <2>4, <2>5, SendKeeps
<1> QED BY <1>5, <1>6, <1>7

(* The connection breaks.                                                  *)
LEMMA ConnectionEndsKeeps ==
  ASSUME StreamInv, ConnectionEnds
  PROVE  StreamInv'
<1>1. /\ over = "no" /\ over' = "cut"
      /\ UNCHANGED <<written, wire, reply, doc, eol, buf, text, scan, shown, result>>
  BY DEF ConnectionEnds, Unchanged
<1>2. result \in {"running", "error"}
  BY <1>1 DEF StreamInv
<1>3. Taken'
  BY <1>1, <1>2, TakenStays DEF StreamInv
<1>4. ASSUME result = "running"
      PROVE  /\ wire' \in Seq(Lines \cup Ends) /\ buf' \in Seq(Lines \cup Ends)
             /\ \E s, ls, p : s = buf' \o wire' /\ Unread(s, ls, p)'
  <2>1. wire \in Seq(Lines \cup Ends) /\ buf \in Seq(Lines \cup Ends)
    BY <1>4 DEF StreamInv
  <2>2. PICK s, ls, p : s = buf \o wire /\ Unread(s, ls, p)
    BY <1>4 DEF StreamInv
  <2>3. /\ Carries(s, ls) /\ Marked(ls, p) /\ p[0] = Len(text) /\ p[Len(ls)] = written
        /\ \A i \in 1..Len(ls) :
             ls[i] \in {<<"completed">>, <<"incomplete">>, <<"failed">>} => i = Len(ls) /\ ls[i] = <<over>>
    BY <2>2 DEF Unread
  <2>4. \A i \in 1..Len(ls) : ls[i] \notin {<<"completed">>, <<"incomplete">>, <<"failed">>}
    <3>1. <<"no">> \notin {<<"completed">>, <<"incomplete">>, <<"failed">>}
      OBVIOUS
    <3> QED BY Zenon, <1>1, <2>3, <3>1
  <2>5. Carries(s, ls)' /\ Marked(ls, p)'
    <3>1. /\ Carries(s, ls)' <=> Carries(s, ls)
          /\ Marked(ls, p)' <=> Marked(ls, p)
      BY <1>1, KeptAre
    <3> QED BY <2>3, <3>1
  <2>6. p[0] = Len(text') /\ p[Len(ls)] = written'
    BY <1>1, <2>3
  <2>7. Unread(s, ls, p)'
    BY <2>4, <2>5, <2>6 DEF Unread
  <2>8. s = buf' \o wire'
    BY <1>1, <2>2
  <2> QED BY <1>1, <2>1, <2>7, <2>8
<1>5. over' # "completed" /\ result' = result
  BY <1>1
<1> QED BY <1>2, <1>3, <1>4, <1>5 DEF StreamInv

(* The body is over.                                                       *)
LEMMA DoneKeeps ==
  ASSUME StreamInv, Done
  PROVE  StreamInv'
<1>1. /\ result \in {"running", "final"} /\ wire = <<>> /\ over # "no"
      /\ result' = IF result = "final" THEN "response" ELSE "error"
      /\ UNCHANGED <<reply, doc, eol, written, over, wire, buf, text, scan, shown>>
  BY DEF Done
<1>2. Taken'
  BY <1>1, TakenStays DEF StreamInv
<1>3. result = "final" => (over = "completed" => Len(text) = Len(doc))
  BY DEF StreamInv
<1> QED BY <1>1, <1>2, <1>3 DEF StreamInv

(* Nothing happens.                                                        *)
LEMMA StreamStutters ==
  ASSUME StreamInv, UNCHANGED streamVars
  PROVE  StreamInv'
<1>1. UNCHANGED <<reply, doc, eol, written, over, wire, buf, text, scan, shown, result>>
  BY DEF streamVars
<1>2. result # "idle" => Taken'
  BY <1>1, TakenStays DEF StreamInv
<1>3. ASSUME result = "running"
      PROVE  \E s, ls, p : s = buf' \o wire' /\ Unread(s, ls, p)'
  <2>1. PICK s, ls, p : s = buf \o wire /\ Unread(s, ls, p)
    BY <1>3 DEF StreamInv
  <2>2. /\ Carries(s, ls)' <=> Carries(s, ls)
        /\ Marked(ls, p)' <=> Marked(ls, p)
    BY <1>1, KeptAre
  <2>3. Unread(s, ls, p)'
    BY <1>1, <2>1, <2>2 DEF Unread
  <2>4. s = buf' \o wire'
    BY <1>1, <2>1
  <2> QED BY <2>3, <2>4
<1> QED BY <1>1, <1>2, <1>3 DEF StreamInv

(* Whatever the reply, the size of the deltas and of the reads, and where  *)
(* the stream ends: what the shopper reads is the reply from its start,    *)
(* and all of it once the stream is a completed response.                  *)
THEOREM RepliesAreWhole == StreamSpec => []ReplyIsWhole
<1>1. StreamInit => StreamInv
  BY DEF StreamInit, StreamInv
<1>2. StreamInv /\ [StreamNext]_streamVars => StreamInv'
  <2> SUFFICES ASSUME StreamInv, [StreamNext]_streamVars PROVE StreamInv'
    OBVIOUS
  <2>1. CASE Responds
    BY <2>1, RespondsKeeps
  <2>2. CASE ModelWrites \/ Heartbeat \/ ModelEnds
    BY <2>2, WritesKeep
  <2>3. CASE ConnectionEnds
    BY <2>3, ConnectionEndsKeeps
  <2>4. CASE ReadBytes
    BY <2>4, ReadBytesKeeps
  <2>5. CASE Done
    BY <2>5, DoneKeeps
  <2>6. CASE UNCHANGED streamVars
    BY <2>6, StreamStutters
  <2> QED BY <2>1, <2>2, <2>3, <2>4, <2>5, <2>6 DEF StreamNext
<1>3. StreamInv => ReplyIsWhole
  BY StreamInvIsWhole
<1> QED BY <1>1, <1>2, <1>3, PTL DEF StreamSpec
=============================================================================
