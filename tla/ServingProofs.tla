---------------------------- MODULE ServingProofs -----------------------------
(***************************************************************************)
(* Theorems about what serves one shopper's turns: Turn, for a model that  *)
(* writes anything of any length, read in batches of any size, with any    *)
(* number of tool iterations; the synthesised clips, the transcriber and   *)
(* the session that turns share; and the search a turn asks of.            *)
(*                                                                         *)
(* What a turn shows when it is done is what runTurn returned, so the      *)
(* invariant follows the result from where it is made: whatever was        *)
(* returned passed the validation or is the reply that gives up            *)
(* (Validated), and says of a handoff what the tools did (Accounted).      *)
(*                                                                         *)
(* The bytes on the account of the clips are a sum over the clips, and a   *)
(* sum over a set is proved as the size of the set of all their chunks     *)
(* (Chunks): what the order of their use lets evict() drop is an initial   *)
(* part of it (Ordered), and what is left is within the ceiling.           *)
(*                                                                         *)
(* What a search denies it has looked for under each wording it tried, so  *)
(* the invariant says what it has found out by each of its steps           *)
(* (Searched): the wordings before this one found nothing on sale, and     *)
(* what is near in meaning is among the hits of an index of its own.       *)
(***************************************************************************)
EXTENDS Turn, SpeechCache, Transcriber, Conversation, Search, FiniteSetTheorems, SequenceTheorems,
        WellFoundedInduction, TLAPS

-----------------------------------------------------------------------------
(* The text of a turn.                                                     *)

Written == Seq(AnyToken)

LEMMA SettledTyped ==
  ASSUME NEW text \in Written
  PROVE  settledPrefix(text) \in Written /\ Len(settledPrefix(text)) <= Len(text)
<1>1. CASE text = <<>>
  BY <1>1 DEF settledPrefix
<1>2. CASE text # <<>>
  <2>1. Len(text) \in Nat /\ Len(text) - 1 \in Nat
    BY <1>2 DEF Written
  <2>2. SubSeq(text, 1, Len(text) - 1) \in Written /\ Len(SubSeq(text, 1, Len(text) - 1)) = Len(text) - 1
    <3>1. \A i \in 1..(Len(text) - 1) : text[i] \in AnyToken
      BY <2>1 DEF Written
    <3> DEFINE n == Len(text) - 1
    <3>2. n \in Int /\ n \in Nat /\ 1 \in Int
      BY <2>1
    <3> HIDE DEF n
    <3>3. /\ SubSeq(text, 1, n) \in Seq(AnyToken)
          /\ Len(SubSeq(text, 1, n)) = IF 1 <= n THEN n - 1 + 1 ELSE 0
      BY <3>1, <3>2, SubSeqProperties DEF n
    <3>4. Len(SubSeq(text, 1, n)) = n
      BY <3>2, <3>3
    <3> QED BY <3>3, <3>4 DEF n, Written
  <2> QED BY <2>1, <2>2 DEF settledPrefix, Front
<1> QED BY <1>1, <1>2

LEMMA PaintTyped ==
  ASSUME TypeOK, NEW text \in Written, Paint(text)
  PROVE  /\ screen' \subseteq AnyToken \cup Sorry \cup ErrorMessage
         /\ buffer' \subseteq {1, 2} /\ queue' \subseteq {1, 2}
<1>1. ToSet(text) \subseteq AnyToken
  BY DEF ToSet, Written
<1>2. push(text).spoken \subseteq {1, 2} /\ push(text).rest \subseteq {1, 2}
  BY DEF TypeOK, push
<1> QED BY <1>1, <1>2 DEF TypeOK, Paint

Results ==
  [reply : SUBSET (AnyToken \cup Sorry), ok : BOOLEAN, escalated : BOOLEAN, handedOff : BOOLEAN]

TurnTyped ==
  /\ TypeOK /\ acc \in Written /\ handoff \in BOOLEAN /\ left \in BOOLEAN /\ aborted \in BOOLEAN
  /\ billed \in BOOLEAN
  /\ stage \in {"answered", "settling", "saving"} => result \in Results

LEMMA TurnInitTyped == Init => TurnTyped
<1> SUFFICES ASSUME Init PROVE TurnTyped
  OBVIOUS
<1>1. /\ reading \in 0..MaxBatch /\ emitted \in 0..Len(acc) /\ acc \in Written
      /\ Len(acc) + reading <= MaxTokens /\ iteration \in 1..MaxTools
  BY TurnAssumption DEF Init, Written
<1>2. \A b \in {tripped, cut, left, aborted, handoff, billed} : b \in BOOLEAN
  BY DEF Init
<1> QED BY <1>1, <1>2 DEF Init, TurnTyped, TypeOK

LEMMA StreamEndsTyped ==
  ASSUME TurnTyped, NEW next \in {"tools", "answered", "retrying"}, StreamEnds(next)
  PROVE  /\ stage' = next /\ aborted' = aborted /\ acc' \in Written /\ emitted' \in 0..Len(acc')
         /\ reading' = 0 /\ Len(acc') + reading' <= MaxTokens /\ tripped' = FALSE /\ cut' = FALSE
         /\ screen' \subseteq AnyToken \cup Sorry \cup ErrorMessage
         /\ buffer' \subseteq {1, 2} /\ queue' \subseteq {1, 2}
<1>1. SubSeq(acc, emitted + 1, Len(acc)) \in Written
  BY DEF TurnTyped, TypeOK, Written
<1>2. Len(<<>>) = 0 /\ <<>> \in Written /\ 0 \in 0..0
  BY DEF Written
<1>3. /\ stage' = next /\ aborted' = aborted /\ reading' = 0 /\ acc' = <<>> /\ emitted' = 0
      /\ tripped' = FALSE /\ cut' = FALSE
  BY DEF StreamEnds, StreamOver
<1>4. /\ screen' \subseteq AnyToken \cup Sorry \cup ErrorMessage
      /\ buffer' \subseteq {1, 2} /\ queue' \subseteq {1, 2}
  BY <1>1, PaintTyped DEF TurnTyped, TypeOK, StreamEnds, panel
<1>5. Len(acc') + reading' <= MaxTokens /\ emitted' \in 0..Len(acc')
  BY <1>2, <1>3, TurnAssumption
<1> QED BY <1>2, <1>3, <1>4, <1>5

LEMMA TurnStepTyped == TurnTyped /\ [Next]_vars => TurnTyped'
<1> SUFFICES ASSUME TurnTyped, [Next]_vars PROVE TurnTyped'
  OBVIOUS
<1> USE DEF shopper, panel, stream
<1>1. ASSUME NEW n \in 1..MaxBatch, Read(n) PROVE TurnTyped'
  BY <1>1, TurnAssumption DEF Read, Live, TurnTyped, TypeOK, Written
<1>2. ASSUME NEW tok \in Token, Delta(tok) PROVE TurnTyped'
  <2> DEFINE text == Append(acc, tok)
             safe == settledPrefix(text)
             fires == ~tripped /\ Trips(text)
  <2>1. text \in Written /\ Len(text) = Len(acc) + 1
    BY TurnAssumption DEF TurnTyped, Written
  <2>2. safe \in Written /\ Len(safe) <= Len(text)
    BY <2>1, SettledTyped
  <2>3. /\ reading > 0 /\ reading' = reading - 1 /\ acc' = text /\ tripped' = (tripped \/ fires)
        /\ UNCHANGED <<shopper, stage, attempt, iteration, cut, aborted, handoff, result, billed>>
        /\ IF ~fires /\ Len(safe) > emitted
           THEN emitted' = Len(safe) /\ Paint(SubSeq(safe, emitted + 1, Len(safe)))
           ELSE UNCHANGED <<emitted, panel>>
    BY <1>2 DEF Delta
  <2> HIDE DEF fires, safe, text
  <2>4. emitted' \in 0..Len(text)
    BY <2>1, <2>2, <2>3 DEF TurnTyped, TypeOK, Written
  <2>5. /\ screen' \subseteq AnyToken \cup Sorry \cup ErrorMessage
        /\ buffer' \subseteq {1, 2} /\ queue' \subseteq {1, 2}
    <3>1. SubSeq(safe, emitted + 1, Len(safe)) \in Written
      BY <2>2 DEF TurnTyped, TypeOK, Written
    <3> QED BY <2>3, <3>1, PaintTyped DEF TurnTyped, TypeOK
  <2>6. tripped' \in BOOLEAN
    BY <2>3
  <2>7. reading' \in 0..MaxBatch /\ Len(acc') + reading' <= MaxTokens
    BY <2>1, <2>3, TurnAssumption DEF TurnTyped, TypeOK, Written
  <2> QED BY <2>1, <2>3, <2>4, <2>5, <2>6, <2>7 DEF TurnTyped, TypeOK
<1>0. ASSUME NEW next \in {"tools", "answered", "retrying"}, StreamEnds(next),
             UNCHANGED <<shopper, attempt, iteration, handoff, billed>>,
             next = "answered" => result' \in Results
      PROVE  TurnTyped'
  <2>0. reading' = 0
    BY <1>0, StreamEndsTyped
  <2>1. reading' \in 0..MaxBatch
    BY <2>0, TurnAssumption
  <2>2. \A b \in {tripped', cut', left', aborted', handoff', billed'} : b \in BOOLEAN
    BY <1>0, StreamEndsTyped DEF TurnTyped
  <2> QED BY <1>0, <2>1, <2>2, StreamEndsTyped DEF TurnTyped, TypeOK
<1>3. CASE AskForTools
  BY <1>0, <1>3 DEF AskForTools
<1>4. ASSUME NEW escalates \in BOOLEAN, RunTools(escalates) PROVE TurnTyped'
  <2>1. CASE iteration < MaxTools
    <3>1. NewCall /\ iteration' = iteration + 1
          /\ UNCHANGED <<result, shopper, attempt, aborted, panel, billed>>
          /\ handoff' = (handoff \/ escalates)
      BY <1>4, <2>1 DEF RunTools
    <3>2. iteration' \in 1..MaxTools
      BY <2>1, <3>1, TurnAssumption DEF TurnTyped, TypeOK
    <3>3. acc' \in Written /\ emitted' \in 0..Len(acc') /\ reading' \in 0..MaxBatch
          /\ Len(acc') + reading' <= MaxTokens
      BY <3>1, TurnAssumption DEF NewCall, StreamOver, Written
    <3> QED BY <3>1, <3>2, <3>3 DEF NewCall, StreamOver, TurnTyped, TypeOK
  <2>2. CASE ~(iteration < MaxTools)
    <3>1. /\ stage' = "answered" /\ Returns(Sorry, TRUE, TRUE) /\ UNCHANGED <<stream, iteration>>
          /\ UNCHANGED <<shopper, attempt, aborted, panel, billed>>
          /\ handoff' = (handoff \/ escalates)
      BY <1>4, <2>2 DEF RunTools
    <3>2. handoff' \in BOOLEAN
      BY <3>1
    <3>3. result' \in Results
      BY <3>1, <3>2 DEF Returns, Results
    <3> QED BY <3>1, <3>2, <3>3 DEF TurnTyped, TypeOK
  <2> QED BY <2>1, <2>2
<1>5. ASSUME NEW reply \in SUBSET (AnyToken \cup Sorry), NEW ok \in BOOLEAN, NEW esc \in BOOLEAN,
             StreamEnds("answered"), Returns(reply, ok, esc),
             UNCHANGED <<shopper, attempt, iteration, handoff, billed>>
      PROVE  TurnTyped'
  <2>1. result' \in Results
    BY <1>5 DEF Returns, Results, TurnTyped
  <2> QED BY <1>0, <1>5, <2>1
<1>6. CASE Unusable
  BY <1>5, <1>6 DEF Unusable, Sorry
<1>7. CASE Accept
  <2>1. Restored(ToSet(acc)) \subseteq AnyToken
    BY DEF Restored, ToSet, TurnTyped, Written, AnyToken
  <2> QED BY <1>5, <1>7, <2>1 DEF Accept
<1>8. CASE Reject
  <2>1. CASE attempt = 1
    BY <1>0, <1>8, <2>1 DEF Reject
  <2>2. CASE attempt # 1
    BY <1>5, <1>8, <2>2 DEF Reject, Sorry
  <2> QED BY <2>1, <2>2
<1>9. CASE TripwireFires
  <2>1. acc' \in Written /\ emitted' \in 0..Len(acc') /\ reading' \in 0..MaxBatch
        /\ Len(acc') + reading' <= MaxTokens /\ tripped' = FALSE /\ cut' = FALSE
    BY <1>9, TurnAssumption DEF TripwireFires, StreamOver, Written
  <2>2. stage' = "answered" => result' \in Results
    <3>1. handoff' \in BOOLEAN
      BY <1>9 DEF TripwireFires, TurnTyped
    <3>2. stage' = "answered" => Returns(Sorry, FALSE, TRUE)
      BY <1>9 DEF TripwireFires
    <3>3. [reply |-> Sorry, ok |-> FALSE, escalated |-> TRUE, handedOff |-> handoff'] \in Results
      BY <3>1 DEF Results
    <3> QED BY <3>2, <3>3 DEF Returns
  <2> QED BY <1>9, <2>1, <2>2 DEF TripwireFires, TurnTyped, TypeOK
<1>10. CASE Retry
  <2>1. acc' \in Written /\ emitted' \in 0..Len(acc') /\ reading' \in 0..MaxBatch
        /\ Len(acc') + reading' <= MaxTokens /\ iteration' \in 1..MaxTools
    BY <1>10, TurnAssumption DEF Retry, NewCall, StreamOver, Written
  <2> QED BY <1>10, <2>1 DEF Retry, NewCall, StreamOver, TurnTyped, TypeOK
<1>11. CASE ModelFails
  <2>1. acc' \in Written /\ emitted' \in 0..Len(acc') /\ reading' \in 0..MaxBatch
        /\ Len(acc') + reading' <= MaxTokens
    BY <1>11, TurnAssumption DEF ModelFails, StreamOver, Written
  <2> QED BY <1>11, <2>1 DEF ModelFails, StreamOver, TurnTyped, TypeOK
<1>12. CASE Done
  BY <1>12 DEF Done, TurnTyped, TypeOK, Results
<1>13. CASE Settle
  <2>1. billed' \in BOOLEAN
    BY <1>13 DEF Settle, isBillable
  <2> QED BY <1>13, <2>1 DEF Settle, TurnTyped, TypeOK
<1>14. CASE Save
  BY <1>14 DEF Save, TurnTyped, TypeOK
<1>15. CASE BookkeepingFails
  BY <1>15 DEF BookkeepingFails, TurnTyped, TypeOK
<1>16. CASE ShopperLeaves
  BY <1>16 DEF ShopperLeaves, TurnTyped, TypeOK
<1>17. CASE UNCHANGED vars
  BY <1>17 DEF vars, TurnTyped, TypeOK
<1> QED BY <1>1, <1>2, <1>3, <1>4, <1>6, <1>7, <1>8, <1>9, <1>10, <1>11, <1>12, <1>13, <1>14, <1>15,
           <1>16, <1>17 DEF Next, Progress

(* The turn keeps its types; no more of the reply is handed on than was    *)
(* written, and a result is there from when the turn is answered.          *)
THEOREM TurnTypeCorrect == Spec => []TypeOK
<1>1. Init /\ [][Next]_vars => []TurnTyped
  BY TurnInitTyped, TurnStepTyped, PTL
<1> QED BY <1>1, PTL DEF Spec, TurnTyped

-----------------------------------------------------------------------------
(* What is shown and billed.                                               *)

(* What is returned was validated, and is what the screen shows then; no   *)
(* text is read outside of a model call.                                   *)
Validated ==
  /\ reading # 0 => stage = "model"
  /\ stage = "answered" => Grounded(result.reply)
  /\ Closing => Grounded(screen)

(* What is returned knows of a handoff of any attempt; nothing is billed   *)
(* before the turn is settled.                                             *)
Accounted ==
  /\ stage \in {"answered", "settling"} => result.handedOff = handoff
  /\ stage \in {"model", "tools", "retrying", "answered", "settling"} => ~billed
  /\ HandoffIsFree

LEMMA SorryIsGrounded == Grounded(Sorry)
BY DEF Grounded, Sorry

LEMMA StepValidated == Validated /\ [Next]_vars => Validated'
<1> SUFFICES ASSUME Validated, [Next]_vars PROVE Validated'
  OBVIOUS
<1> USE DEF shopper, panel, stream, Validated, Closing
(* A turn that goes on, or ends, closes nothing.                           *)
<1>1. ASSUME stage' \notin {"answered", "settling", "saving"}, reading' # 0 => stage' = "model"
      PROVE  Validated'
  BY <1>1
<1>2. ASSUME NEW reply, Grounded(reply), NEW ok, NEW esc, stage' = "answered", reading' = 0,
             Returns(reply, ok, esc)
      PROVE  Validated'
  BY <1>2 DEF Returns
<1>3. ASSUME NEW n \in 1..MaxBatch, Read(n) PROVE Validated'
  BY <1>1, <1>3 DEF Read, Live
<1>4. ASSUME NEW tok \in Token, Delta(tok) PROVE Validated'
  <2>1. reading # 0 /\ stage' = stage
    BY <1>4 DEF Delta
  <2> QED BY <1>1, <2>1
<1>5. CASE AskForTools
  BY <1>1, <1>5 DEF AskForTools, StreamEnds, StreamOver
<1>6. ASSUME NEW escalates \in BOOLEAN, RunTools(escalates) PROVE Validated'
  <2>1. CASE iteration < MaxTools
    BY <1>1, <1>6, <2>1 DEF RunTools, NewCall, StreamOver
  <2>2. CASE ~(iteration < MaxTools)
    BY <1>2, <1>6, <2>2, SorryIsGrounded DEF RunTools
  <2> QED BY <2>1, <2>2
<1>7. CASE Unusable
  BY <1>2, <1>7, SorryIsGrounded DEF Unusable, StreamEnds, StreamOver
<1>8. CASE Accept
  BY <1>2, <1>8 DEF Accept, StreamEnds, StreamOver
<1>9. CASE Reject
  BY <1>1, <1>2, <1>9, SorryIsGrounded DEF Reject, StreamEnds, StreamOver
<1>10. CASE TripwireFires
  BY <1>1, <1>2, <1>10, SorryIsGrounded DEF TripwireFires, StreamOver
<1>11. CASE Retry \/ ModelFails
  BY <1>1, <1>11 DEF Retry, ModelFails, NewCall, StreamOver
<1>12. CASE Done
  BY <1>12 DEF Done
<1>13. CASE Settle \/ Save
  BY <1>13 DEF Settle, Save
<1>14. CASE BookkeepingFails
  BY <1>1, <1>14 DEF BookkeepingFails
<1>15. CASE ShopperLeaves \/ UNCHANGED vars
  BY <1>15 DEF ShopperLeaves, vars
<1> QED BY <1>3, <1>4, <1>5, <1>6, <1>7, <1>8, <1>9, <1>10, <1>11, <1>12, <1>13, <1>14, <1>15
        DEF Next, Progress

LEMMA StepAccounted == TurnTyped /\ Validated /\ Accounted /\ [Next]_vars => Accounted'
<1> SUFFICES ASSUME TurnTyped, Validated, Accounted, [Next]_vars PROVE Accounted'
  OBVIOUS
<1> USE DEF shopper, panel, stream
<1>1. arm \in {"exposed", "holdout"} /\ handoff \in BOOLEAN /\ billed \in BOOLEAN
  BY DEF TurnTyped, TypeOK
(* Before a result is there nothing is billed, so nothing has to be free.  *)
<1>2. ASSUME ~billed', stage' \in {"model", "tools", "retrying", "ended"}
      PROVE  Accounted'
  BY <1>2 DEF Accounted, HandoffIsFree
<1>3. ASSUME NEW reply, NEW ok, NEW esc, ~billed', stage' = "answered", Returns(reply, ok, esc)
      PROVE  Accounted'
  BY <1>3 DEF Accounted, HandoffIsFree, Returns
<1>4. ASSUME stage' = stage, UNCHANGED <<result, handoff, billed, arm>> PROVE Accounted'
  BY <1>4 DEF Accounted, HandoffIsFree
<1>5. ASSUME NEW n \in 1..MaxBatch, Read(n) PROVE Accounted'
  BY <1>4, <1>5 DEF Read
<1>6. ASSUME NEW tok \in Token, Delta(tok) PROVE Accounted'
  BY <1>4, <1>6 DEF Delta
<1>7. ASSUME stage \in {"model", "tools", "retrying"}, billed' = billed PROVE ~billed'
  BY <1>7 DEF Accounted
<1>8. CASE AskForTools
  <2>1. stage = "model" /\ stage' = "tools" /\ billed' = billed
    BY <1>8 DEF AskForTools, StreamEnds, Live
  <2> QED BY <1>2, <1>7, <2>1
<1>9. ASSUME NEW escalates \in BOOLEAN, RunTools(escalates) PROVE Accounted'
  <2>1. stage = "tools" /\ billed' = billed
    BY <1>9 DEF RunTools
  <2>2. stage' = "model" \/ (stage' = "answered" /\ Returns(Sorry, TRUE, TRUE))
    BY <1>9 DEF RunTools, NewCall
  <2> QED BY <1>2, <1>3, <1>7, <2>1, <2>2
<1>10. CASE Unusable \/ Accept
  <2>1. stage = "model" /\ stage' = "answered" /\ billed' = billed
    BY <1>10 DEF Unusable, Accept, StreamEnds, Live
  <2> QED BY <1>3, <1>7, <1>10, <2>1 DEF Unusable, Accept
<1>11. CASE Reject \/ TripwireFires
  <2>1. stage = "model" /\ billed' = billed
    BY <1>11 DEF Reject, TripwireFires, StreamEnds, Live
  <2>2. stage' = "retrying" \/ (stage' = "answered" /\ Returns(Sorry, FALSE, TRUE))
    BY <1>11 DEF Reject, TripwireFires, StreamEnds
  <2> QED BY <1>2, <1>3, <1>7, <2>1, <2>2
<1>12. CASE Retry \/ ModelFails
  <2>1. stage \in {"model", "retrying"} /\ stage' \in {"model", "ended"} /\ billed' = billed
    BY <1>12 DEF Retry, ModelFails, NewCall, Live
  <2> QED BY <1>2, <1>7, <2>1
<1>13. CASE Done
  BY <1>13 DEF Done, Accounted, HandoffIsFree
<1>14. CASE Settle
  <2>1. /\ stage' = "saving" /\ UNCHANGED <<arm, handoff>> /\ result.handedOff = handoff
        /\ billed' = (arm # "holdout" /\ result.ok /\ ~result.handedOff)
    BY <1>14 DEF Settle, isBillable, Accounted
  <2>2. billed' => ~handoff' /\ arm' = "exposed"
    BY <1>1, <2>1
  <2> QED BY <2>1, <2>2 DEF Accounted, HandoffIsFree
<1>15. CASE Save \/ BookkeepingFails
  BY <1>15 DEF Save, BookkeepingFails, Accounted, HandoffIsFree
<1>16. CASE ShopperLeaves \/ UNCHANGED vars
  BY <1>4, <1>16 DEF ShopperLeaves, vars
<1> QED BY <1>5, <1>6, <1>8, <1>9, <1>10, <1>11, <1>12, <1>13, <1>14, <1>15, <1>16
        DEF Next, Progress

(* The bubble of a turn that is done holds no figure and no stock claim    *)
(* the tool results do not bear out, whatever was painted before: done     *)
(* puts the reply there that runTurn validated.                            *)
THEOREM DoneTurnsAreGrounded == Spec => []DoneIsGrounded
<1>1. Init => Validated
  BY DEF Init, Validated, Closing
<1>2. Validated => DoneIsGrounded
  BY DEF Validated, DoneIsGrounded
<1> QED BY <1>1, <1>2, StepValidated, PTL DEF Spec

(* A turn that was handed to a human in either attempt, and one of the     *)
(* control group, is not billed.                                           *)
THEOREM HandoffsAreFree == Spec => []HandoffIsFree
<1>1. Init => TurnTyped /\ Validated /\ Accounted
  BY TurnInitTyped DEF Init, Validated, Closing, Accounted, HandoffIsFree
<1>2. TurnTyped /\ Validated /\ Accounted /\ [Next]_vars => (TurnTyped /\ Validated /\ Accounted)'
  BY TurnStepTyped, StepValidated, StepAccounted
<1>3. Accounted => HandoffIsFree
  BY DEF Accounted
<1> QED BY <1>1, <1>2, <1>3, PTL DEF Spec

-----------------------------------------------------------------------------
(* Speech that is shared.                                                  *)

PlayerType == [state : {"new", "playing", "ended", "closed", "cut", "refused"},
               text : Texts \cup {Absent}, heard : Seq(Nat), whole : Nat]

(* What q has heard is the beginning of its sentence.                      *)
Hears(q) ==
  /\ q.heard = UpTo(Len(q.heard))
  /\ q.state \in {"playing", "ended"} => Len(q.heard) = q.whole

(* Whoever plays a sentence listens to its entry, which is being filled,   *)
(* and has heard all there is of it.                                       *)
Follows(p, q) ==
  q.state = "playing" =>
    /\ q.text \in Texts /\ clips[q.text] # Absent /\ ~clips[q.text].done
    /\ p \in clips[q.text].listeners /\ q.whole = clips[q.text].chunks

(* And nobody else listens to it.                                          *)
Heeded(t) ==
  clips[t] # Absent =>
    \A p \in clips[t].listeners : players[p].state = "playing" /\ players[p].text = t

Audible ==
  /\ clips \in [Texts -> Clip \cup {Absent}] /\ players \in [Players -> PlayerType]
  /\ \A p \in Players : Hears(players[p]) /\ Follows(p, players[p])
  /\ \A t \in Texts : Heeded(t)

LEMMA BeginningGrows ==
  \A n \in Nat : /\ UpTo(n) \in Seq(Nat) /\ Len(UpTo(n)) = n
                 /\ Append(UpTo(n), n + 1) = UpTo(n + 1)
<1> SUFFICES ASSUME NEW n \in Nat
             PROVE  /\ UpTo(n) \in Seq(Nat) /\ Len(UpTo(n)) = n
                    /\ Append(UpTo(n), n + 1) = UpTo(n + 1)
  OBVIOUS
<1>1. UpTo(n) \in Seq(Nat) /\ Len(UpTo(n)) = n
  BY DEF UpTo
<1>2. UpTo(n + 1) \in Seq(Nat) /\ Len(UpTo(n + 1)) = n + 1
  BY DEF UpTo
<1>3. \A k \in 1..n + 1 : Append(UpTo(n), n + 1)[k] = UpTo(n + 1)[k]
  BY <1>1 DEF UpTo
<1>4. Append(UpTo(n), n + 1) \in Seq(Nat) /\ Len(Append(UpTo(n), n + 1)) = n + 1
  BY <1>1
<1> QED BY <1>1, <1>2, <1>3, <1>4, SeqEqual

(* Nobody listens to what is evicted.                                      *)
LEMMA EvictedIsIdle ==
  ASSUME NEW cs, NEW total, NEW t \in Evicted(cs, total)
  PROVE  t \in Texts /\ cs[t] # Absent /\ cs[t].done /\ cs[t].listeners = {}
  BY DEF Evicted

LEMMA AudibleStart == SpeechInit => Audible
<1> SUFFICES ASSUME SpeechInit PROVE Audible
  OBVIOUS
<1>1. <<>> = UpTo(0) /\ Len(<<>>) = 0
  BY DEF UpTo
<1>2. Quiet \in PlayerType /\ Hears(Quiet) /\ Quiet.state = "new"
  BY <1>1 DEF Quiet, PlayerType, Hears
<1> QED BY <1>2 DEF SpeechInit, Audible, Follows, Heeded

(* listen() replays what has arrived and follows the rest.                 *)
LEMMA ListenIsHeard ==
  ASSUME Audible, NEW p \in Players, NEW t \in Texts, players[p].state = "new", Listen(p, t)
  PROVE  Audible'
<1> DEFINE clip == Begun(t)
           new == IF clip.done THEN clip ELSE [clip EXCEPT !.listeners = clip.listeners \cup {p}]
           q == [state |-> IF clip.done THEN "ended" ELSE "playing", text |-> t,
                 heard |-> UpTo(clip.chunks), whole |-> clip.chunks]
<1>a. /\ clips \in [Texts -> Clip \cup {Absent}] /\ players \in [Players -> PlayerType]
      /\ \A r \in Players : Hears(players[r]) /\ Follows(r, players[r])
      /\ \A u \in Texts : Heeded(u)
      /\ Absent \notin Clip
  BY SpeechCacheAssumption DEF Audible
<1>1. clip \in Clip /\ (clips[t] # Absent => clip = clips[t])
      /\ \A r \in clip.listeners : players[r].state = "playing" /\ players[r].text = t
  <2>1. CASE clips[t] = Absent
    BY <1>a, <2>1 DEF Begun, NewClip, Clip
  <2>2. CASE clips[t] # Absent
    BY <1>a, <2>2 DEF Begun, Heeded
  <2> QED BY <2>1, <2>2
<1>2. clips' = [clips EXCEPT ![t] = new] /\ players' = [players EXCEPT ![p] = q]
  BY DEF Listen
<1> HIDE DEF clip
<1>3. /\ new \in Clip /\ new.chunks = clip.chunks /\ new.done = clip.done
      /\ clip.listeners \subseteq new.listeners
      /\ ~clip.done => new.listeners = clip.listeners \cup {p}
      /\ clip.done => new = clip
  BY <1>1 DEF Clip
<1>4. q \in PlayerType /\ Hears(q)
  <2>1. UpTo(clip.chunks) \in Seq(Nat) /\ Len(UpTo(clip.chunks)) = clip.chunks /\ clip.chunks \in Nat
    BY <1>1, BeginningGrows DEF Clip
  <2> QED BY <2>1 DEF PlayerType, Hears
<1>5. q.state = (IF clip.done THEN "ended" ELSE "playing") /\ q.text = t /\ q.whole = clip.chunks
  OBVIOUS
<1> HIDE DEF new, q
<1>6. clips' \in [Texts -> Clip \cup {Absent}] /\ players' \in [Players -> PlayerType]
  BY <1>a, <1>2, <1>3, <1>4
<1>7. /\ \A u \in Texts : clips'[u] = IF u = t THEN new ELSE clips[u]
      /\ \A r \in Players : players'[r] = IF r = p THEN q ELSE players[r]
  BY <1>a, <1>2
<1>8. new # Absent
  BY <1>a, <1>3
<1>9. \A r \in Players : Hears(players'[r])
  BY <1>a, <1>4, <1>7
<1>10. ASSUME NEW r \in Players PROVE Follows(r, players[r])'
  <2>1. CASE r = p
    BY <1>3, <1>5, <1>7, <1>8, <2>1 DEF Follows
  <2>2. CASE r # p
    <3>1. players'[r] = players[r]
      BY <1>7, <2>2
    <3>2. CASE players[r].text = t
      BY <1>1, <1>3, <1>7, <1>8, <1>a, <3>1, <3>2 DEF Follows
    <3>3. CASE players[r].text # t
      BY <1>7, <1>a, <3>1, <3>3 DEF Follows
    <3> QED BY <3>2, <3>3
  <2> QED BY <2>1, <2>2
<1>11. ASSUME NEW u \in Texts PROVE Heeded(u)'
  <2>1. CASE u = t
    <3>1. ASSUME NEW r \in new.listeners PROVE players'[r].state = "playing" /\ players'[r].text = t
      <4>0. r \in Players
        BY <1>3, <3>1 DEF Clip
      <4>1. CASE r = p
        BY <1>1, <1>3, <1>5, <1>7, <3>1, <4>0, <4>1
      <4>2. CASE r # p
        BY <1>1, <1>3, <1>7, <3>1, <4>0, <4>2
      <4> QED BY <4>1, <4>2
    <3> QED BY <1>7, <2>1, <3>1 DEF Heeded
  <2>2. CASE u # t
    <3>1. clips'[u] = clips[u]
      BY <1>7, <2>2
    <3>2. ASSUME clips[u] # Absent, NEW r \in clips[u].listeners
          PROVE  players'[r].state = "playing" /\ players'[r].text = u
      <4>1. players[r].state = "playing" /\ players[r].text = u /\ r \in Players
        BY <1>a, <3>2 DEF Heeded, Clip
      <4> QED BY <1>7, <4>1
    <3> QED BY <3>1, <3>2 DEF Heeded
  <2> QED BY <2>1, <2>2
<1> QED BY <1>6, <1>9, <1>10, <1>11 DEF Audible

LEMMA AudibleStep == Audible /\ [SpeechNext]_speechVars => Audible'
<1> SUFFICES ASSUME Audible, [SpeechNext]_speechVars PROVE Audible'
  OBVIOUS
<1>a. /\ clips \in [Texts -> Clip \cup {Absent}] /\ players \in [Players -> PlayerType]
      /\ \A r \in Players : Hears(players[r]) /\ Follows(r, players[r])
      /\ \A u \in Texts : Heeded(u)
      /\ Absent \notin Clip
  BY SpeechCacheAssumption DEF Audible
<1>b. ASSUME UNCHANGED <<clips, players>> PROVE Audible'
  BY <1>a, <1>b DEF Audible, Follows, Heeded
(* A pump ends, one way or the other: its listeners are told so, and no    *)
(* other entry with listeners goes.                                        *)
<1>c. ASSUME NEW t \in Texts, NEW state \in {"ended", "cut"}, Told(t, state), clips[t] # Absent,
             clips' \in [Texts -> Clip \cup {Absent}],
             clips'[t] # Absent => clips'[t].listeners = {},
             \A u \in Texts \ {t} : \/ clips'[u] = clips[u]
                                    \/ clips[u].listeners = {} /\ clips'[u] = Absent
      PROVE  Audible'
  <2>1. \A r \in Players : players'[r] = IF r \in clips[t].listeners
                                         THEN [players[r] EXCEPT !.state = state] ELSE players[r]
    BY <1>c DEF Told
  <2>2. \A r \in Players : [players[r] EXCEPT !.state = state] \in PlayerType
    BY <1>a DEF PlayerType
  <2>3. players' \in [Players -> PlayerType]
    BY <1>a, <1>c, <2>2 DEF Told
  <2>4. ASSUME NEW r \in Players PROVE Hears(players'[r]) /\ Follows(r, players[r])'
    <3>1. CASE r \in clips[t].listeners
      <4>1. /\ players'[r].state = state /\ players'[r].heard = players[r].heard
            /\ players'[r].whole = players[r].whole
        BY <1>a, <2>1, <3>1 DEF PlayerType
      <4>2. players[r].state = "playing" /\ Hears(players[r])
        BY <1>a, <1>c, <3>1 DEF Heeded
      <4> QED BY <4>1, <4>2 DEF Hears, Follows
    <3>2. CASE r \notin clips[t].listeners
      <4>1. players'[r] = players[r] /\ Hears(players[r]) /\ Follows(r, players[r])
        BY <1>a, <2>1, <3>2
      <4>2. CASE players[r].state = "playing"
        <5>1. players[r].text \in Texts \ {t} /\ clips[players[r].text].listeners # {}
          BY <3>2, <4>1, <4>2 DEF Follows
        <5>2. clips'[players[r].text] = clips[players[r].text]
          BY <1>c, <5>1
        <5> QED BY <4>1, <5>2 DEF Follows
      <4> QED BY <4>1, <4>2 DEF Follows
    <3> QED BY <3>1, <3>2
  <2>5. ASSUME NEW u \in Texts PROVE Heeded(u)'
    <3>1. CASE u = t
      BY <1>c, <3>1 DEF Heeded
    <3>2. CASE u # t /\ clips'[u] = clips[u]
      <4>1. ASSUME clips[u] # Absent, NEW r \in clips[u].listeners
            PROVE  players'[r].state = "playing" /\ players'[r].text = u
        <5>1. players[r].state = "playing" /\ players[r].text = u /\ r \in Players
          BY <1>a, <4>1 DEF Heeded, Clip
        <5>2. r \notin clips[t].listeners
          BY <1>a, <1>c, <3>2, <5>1 DEF Heeded
        <5> QED BY <2>1, <5>1, <5>2
      <4> QED BY <3>2, <4>1 DEF Heeded
    <3>3. CASE u # t /\ clips'[u] = Absent
      BY <3>3 DEF Heeded
    <3> QED BY <1>c, <3>1, <3>2, <3>3
  <2> QED BY <1>c, <2>3, <2>4, <2>5 DEF Audible
<1>1. ASSUME NEW i \in Audios, NEW t \in Texts, Announce(i, t) PROVE Audible'
  <2>1. clips' = [clips EXCEPT ![t] = Begun(t)] /\ players' = players
    BY <1>1 DEF Announce
  <2>2. CASE clips[t] # Absent
    BY <1>a, <1>b, <2>1, <2>2 DEF Begun
  <2>3. CASE clips[t] = Absent
    <3>1. /\ clips' = [clips EXCEPT ![t] = NewClip] /\ NewClip \in Clip /\ NewClip.listeners = {}
      BY <2>1, <2>3 DEF Begun, NewClip, Clip
    <3>2. clips' \in [Texts -> Clip \cup {Absent}]
      BY <1>a, <3>1
    <3>3. \A r \in Players : players[r].state = "playing" =>
            players[r].text \in Texts /\ clips'[players[r].text] = clips[players[r].text]
      BY <1>a, <2>3, <3>1 DEF Follows
    <3>4. \A u \in Texts : clips'[u] = IF u = t THEN NewClip ELSE clips[u]
      BY <1>a, <3>1
    <3>5. \A r \in Players : Follows(r, players[r])'
      BY <1>a, <2>1, <3>3 DEF Follows
    <3>6. \A u \in Texts : Heeded(u)'
      BY <1>a, <2>1, <3>1, <3>4 DEF Heeded
    <3> QED BY <1>a, <2>1, <3>2, <3>5, <3>6 DEF Audible
  <2> QED BY <2>2, <2>3
<1>2. ASSUME NEW i \in Audios, IdExpires(i) PROVE Audible'
  BY <1>2, <1>b DEF IdExpires
<1>3. ASSUME NEW p \in Players, NEW t \in Texts, SpeakText(p, t) PROVE Audible'
  BY <1>3, ListenIsHeard DEF SpeakText
<1>4. ASSUME NEW p \in Players, NEW i \in Audios, SpeakId(p, i) PROVE Audible'
  BY <1>4, ListenIsHeard DEF SpeakId
<1>5. ASSUME NEW p \in Players, NEW i \in Audios, UnknownAudio(p, i) PROVE Audible'
  <2>1. /\ players[p].state = "new" /\ players' = [players EXCEPT ![p].state = "refused"]
        /\ clips' = clips
    BY <1>5 DEF UnknownAudio
  <2>2. [players[p] EXCEPT !.state = "refused"] \in PlayerType
    BY <1>a DEF PlayerType
  <2>3. players' \in [Players -> PlayerType]
    BY <1>a, <2>1, <2>2
  <2>4. \A r \in Players : Hears(players'[r]) /\ Follows(r, players[r])'
    BY <1>a, <2>1 DEF Hears, Follows, PlayerType
  <2>5. \A u \in Texts : Heeded(u)'
    BY <1>a, <2>1 DEF Heeded, PlayerType, Clip
  <2> QED BY <1>a, <2>1, <2>3, <2>4, <2>5 DEF Audible
<1>6. ASSUME NEW p \in Players, ShopperStops(p) PROVE Audible'
  <2> DEFINE t == players[p].text
             new == [clips[t] EXCEPT !.listeners = clips[t].listeners \ {p}]
  <2>1. /\ players[p].state = "playing" /\ players' = [players EXCEPT ![p].state = "closed"]
        /\ t \in Texts /\ clips[t] # Absent
    BY <1>6, <1>a DEF ShopperStops, Follows
  <2>2. clips' = [clips EXCEPT ![t] = new]
    BY <1>6, <1>a DEF ShopperStops
  <2>3. /\ new \in Clip /\ new.chunks = clips[t].chunks /\ new.done = clips[t].done
        /\ new.listeners = clips[t].listeners \ {p}
    BY <1>a, <2>1 DEF Clip
  <2> HIDE DEF new
  <2>4. [players[p] EXCEPT !.state = "closed"] \in PlayerType
    BY <1>a DEF PlayerType
  <2>5. players' \in [Players -> PlayerType] /\ clips' \in [Texts -> Clip \cup {Absent}]
    BY <1>a, <2>1, <2>2, <2>3, <2>4
  <2>6. /\ \A u \in Texts : clips'[u] = IF u = t THEN new ELSE clips[u]
        /\ \A r \in Players : r # p => players'[r] = players[r]
        /\ players'[p].state = "closed" /\ players'[p].heard = players[p].heard
        /\ players'[p].whole = players[p].whole
    BY <1>a, <2>1, <2>2 DEF PlayerType
  <2> HIDE DEF t
  <2>7. ASSUME NEW r \in Players PROVE Hears(players'[r]) /\ Follows(r, players[r])'
    <3>1. CASE r = p
      BY <1>a, <2>1, <2>6, <3>1 DEF Hears, Follows
    <3>2. CASE r # p
      <4>1. players'[r] = players[r] /\ Hears(players[r]) /\ Follows(r, players[r])
        BY <1>a, <2>6, <3>2
      <4>2. CASE players[r].text = t
        BY <1>a, <2>1, <2>3, <2>6, <3>2, <4>1, <4>2 DEF Follows
      <4>3. CASE players[r].text # t
        BY <2>6, <4>1, <4>3 DEF Follows
      <4> QED BY <4>1, <4>2, <4>3
    <3> QED BY <3>1, <3>2
  <2>8. ASSUME NEW u \in Texts PROVE Heeded(u)'
    <3> SUFFICES ASSUME clips'[u] # Absent, NEW r \in clips'[u].listeners
                 PROVE  players'[r].state = "playing" /\ players'[r].text = u
      BY DEF Heeded
    <3>1. r \in clips[u].listeners /\ clips[u] # Absent /\ (u = t => r # p)
      BY <2>1, <2>3, <2>6
    <3>2. r \in Players /\ players[r].state = "playing" /\ players[r].text = u
      BY <1>a, <3>1 DEF Heeded, Clip
    <3>3. r # p
      BY <3>1, <3>2 DEF t
    <3> QED BY <2>6, <3>2, <3>3
  <2> QED BY <2>5, <2>7, <2>8 DEF Audible
<1>7. ASSUME NEW t \in Texts, PumpReads(t) PROVE Audible'
  <2> DEFINE new == [clips[t] EXCEPT !.chunks = clips[t].chunks + 1]
             more(q) == [q EXCEPT !.heard = Append(q.heard, clips[t].chunks + 1),
                                  !.whole = q.whole + 1]
  <2>1. /\ clips[t] # Absent /\ ~clips[t].done /\ clips' = [clips EXCEPT ![t] = new]
        /\ players' = [r \in Players |-> IF r \notin clips[t].listeners THEN players[r]
                                         ELSE more(players[r])]
    BY <1>7, <1>a DEF PumpReads, Pumping
  <2>2. /\ clips[t] \in Clip /\ clips[t].chunks \in Nat
        /\ new \in Clip /\ new.chunks = clips[t].chunks + 1 /\ new.done = clips[t].done
        /\ new.listeners = clips[t].listeners
    <3>1. clips[t] \in Clip
      BY <1>a, <2>1
    <3>2. clips[t].chunks \in Nat /\ clips[t].chunks + 1 \in Nat
      BY <3>1 DEF Clip
    <3> DEFINE n == clips[t].chunks + 1
               was == clips[t]
    <3>3. new = [was EXCEPT !.chunks = n] /\ was \in Clip /\ n \in Nat
      BY <3>1, <3>2
    <3> HIDE DEF n, was, new
    <3>4. new \in Clip /\ new.chunks = n /\ new.done = was.done /\ new.listeners = was.listeners
      BY <3>3 DEF Clip
    <3> QED BY <3>1, <3>2, <3>4 DEF n, was
  <2> HIDE DEF new
  <2>3. ASSUME NEW r \in Players, r \in clips[t].listeners
        PROVE  /\ more(players[r]) \in PlayerType /\ Hears(more(players[r]))
               /\ more(players[r]).state = "playing" /\ more(players[r]).text = t
               /\ more(players[r]).whole = clips[t].chunks + 1
    <3>1. /\ players[r].state = "playing" /\ players[r].text = t /\ players[r] \in PlayerType
          /\ players[r].heard = UpTo(clips[t].chunks) /\ players[r].whole = clips[t].chunks
      <4>1. players[r].state = "playing" /\ players[r].text = t /\ players[r] \in PlayerType
        BY <1>a, <2>1, <2>3 DEF Heeded
      <4>2. players[r].whole = clips[t].chunks
        BY <1>a, <4>1 DEF Follows
      <4>3. Len(players[r].heard) = players[r].whole /\ players[r].heard = UpTo(Len(players[r].heard))
        BY <1>a, <4>1 DEF Hears
      <4> QED BY <4>1, <4>2, <4>3
    <3>2. /\ Append(players[r].heard, clips[t].chunks + 1) = UpTo(clips[t].chunks + 1)
          /\ UpTo(clips[t].chunks + 1) \in Seq(Nat)
          /\ Len(UpTo(clips[t].chunks + 1)) = clips[t].chunks + 1
      <4> DEFINE m == clips[t].chunks
      <4>1. m \in Nat /\ m + 1 \in Nat /\ players[r].heard = UpTo(m)
        BY <2>2, <3>1
      <4> HIDE DEF m
      <4>2. Append(players[r].heard, m + 1) = UpTo(m + 1)
        BY <4>1, BeginningGrows
      <4>3. UpTo(m + 1) \in Seq(Nat) /\ Len(UpTo(m + 1)) = m + 1
        BY <4>1, BeginningGrows
      <4> QED BY <4>2, <4>3 DEF m
    <3>3. /\ more(players[r]).heard = UpTo(clips[t].chunks + 1)
          /\ more(players[r]).whole = clips[t].chunks + 1
          /\ more(players[r]).state = "playing" /\ more(players[r]).text = t
      BY <3>1, <3>2 DEF PlayerType
    <3>4. more(players[r]) \in PlayerType
      <4>1. /\ players[r].whole + 1 \in Nat
            /\ Append(players[r].heard, clips[t].chunks + 1) \in Seq(Nat)
        <5>1. players[r].whole + 1 \in Nat
          BY <2>2, <3>1
        <5> QED BY <3>2, <5>1
      <4> DEFINE h == Append(players[r].heard, clips[t].chunks + 1)
                 w == players[r].whole + 1
                 q == players[r]
      <4>2. more(q) = [q EXCEPT !.heard = h, !.whole = w] /\ q \in PlayerType
        BY <3>1
      <4>3. h \in Seq(Nat) /\ w \in Nat
        BY <4>1
      <4> HIDE DEF h, w, q, more
      <4>4. more(q) \in PlayerType
        BY <4>2, <4>3 DEF PlayerType
      <4> QED BY <4>4 DEF q
    <3> HIDE DEF more
    <3> QED BY <3>2, <3>3, <3>4 DEF Hears
  <2> HIDE DEF more
  <2>4. clips' \in [Texts -> Clip \cup {Absent}] /\ players' \in [Players -> PlayerType]
    BY <1>a, <2>1, <2>2, <2>3
  <2>5. /\ \A u \in Texts : clips'[u] = IF u = t THEN new ELSE clips[u]
        /\ \A r \in Players : players'[r] = IF r \notin clips[t].listeners THEN players[r]
                                            ELSE more(players[r])
        /\ new # Absent
    BY <1>a, <2>1, <2>2
  <2>6. ASSUME NEW r \in Players PROVE Hears(players'[r]) /\ Follows(r, players[r])'
    <3>1. CASE r \in clips[t].listeners
      BY <2>1, <2>2, <2>3, <2>5, <3>1 DEF Follows
    <3>2. CASE r \notin clips[t].listeners
      BY <1>a, <2>5, <3>2 DEF Follows
    <3> QED BY <3>1, <3>2
  <2>7. ASSUME NEW u \in Texts PROVE Heeded(u)'
    <3> SUFFICES ASSUME clips'[u] # Absent, NEW r \in clips'[u].listeners
                 PROVE  players'[r].state = "playing" /\ players'[r].text = u
      BY DEF Heeded
    <3>1. r \in clips[u].listeners /\ clips[u] # Absent
      BY <2>1, <2>2, <2>5
    <3>2. r \in Players /\ players[r].state = "playing" /\ players[r].text = u
      BY <1>a, <3>1 DEF Heeded, Clip
    <3>3. r \in clips[t].listeners => u = t
      BY <1>a, <2>1, <3>2 DEF Heeded
    <3> QED BY <2>3, <2>5, <3>2, <3>3
  <2> QED BY <2>4, <2>6, <2>7 DEF Audible
<1>8. ASSUME NEW t \in Texts, PumpEnds(t) PROVE Audible'
  <2> DEFINE cs == [clips EXCEPT ![t].done = TRUE, ![t].listeners = {}]
             gone == Evicted(cs, totalBytes)
  <2>1. /\ clips[t] # Absent /\ Told(t, "ended")
        /\ clips' = [u \in Texts |-> IF u \in gone THEN Absent ELSE cs[u]]
    BY <1>8 DEF PumpEnds, Pumping
  <2>2. \A u \in gone : u \in Texts /\ cs[u].listeners = {}
    BY EvictedIsIdle
  <2>3. clips[t] \in Clip
    BY <1>a, <2>1
  <2>4. cs = [clips EXCEPT ![t] = [clips[t] EXCEPT !.done = TRUE, !.listeners = {}]]
    BY <1>a
  <2>5. /\ [clips[t] EXCEPT !.done = TRUE, !.listeners = {}] \in Clip
        /\ [clips[t] EXCEPT !.done = TRUE, !.listeners = {}].listeners = {}
    BY <2>3 DEF Clip
  <2> HIDE DEF cs, gone
  <2>6. /\ \A u \in Texts : cs[u] \in Clip \cup {Absent} /\ (u # t => cs[u] = clips[u])
        /\ cs[t].listeners = {}
    BY <1>a, <2>4, <2>5
  <2>7. clips' \in [Texts -> Clip \cup {Absent}]
    BY <2>1, <2>6
  <2>8. clips'[t] # Absent => clips'[t].listeners = {}
    BY <2>1, <2>6
  <2>9. \A u \in Texts \ {t} : clips'[u] = clips[u] \/ (clips[u].listeners = {} /\ clips'[u] = Absent)
    BY <2>1, <2>2, <2>6
  <2> QED BY <1>c, <2>1, <2>7, <2>8, <2>9
<1>9. ASSUME NEW t \in Texts, PumpFails(t) PROVE Audible'
  <2>1. Told(t, "cut") /\ clips' = [clips EXCEPT ![t] = Absent] /\ clips[t] # Absent
    BY <1>9 DEF PumpFails, Fail, Pumping
  <2>2. clips' \in [Texts -> Clip \cup {Absent}] /\ clips'[t] = Absent
        /\ \A u \in Texts \ {t} : clips'[u] = clips[u]
    BY <1>a, <2>1
  <2> QED BY <1>c, <2>1, <2>2
<1>10. CASE UNCHANGED speechVars
  BY <1>10, <1>b DEF speechVars
<1> QED BY <1>1, <1>2, <1>3, <1>4, <1>5, <1>6, <1>7, <1>8, <1>9, <1>10 DEF SpeechNext

(* Whoever listens hears a sentence from its first chunk on, whole, for any *)
(* number of sentences, of requests and of chunks, whatever fails, is       *)
(* evicted or is left by the shopper.                                       *)
THEOREM ClipsAreWhole == SpeechSpec => []AudioIsWhole
<1>1. Audible => AudioIsWhole
  BY DEF Audible, AudioIsWhole, Hears, Follows
<1> QED BY <1>1, AudibleStart, AudibleStep, PTL DEF SpeechSpec

(* The chunks that the clips of T hold: what the account of bytes counts.  *)
Chunks(cs, T) == {c \in T \X (1..MaxChunks) : c[2] <= cs[c[1]].chunks}

Countable(cs, T) == IsFiniteSet(T) /\ \A t \in T : cs[t].chunks \in 0..MaxChunks

LEMMA ChunksAreFinite ==
  ASSUME NEW cs, NEW T, Countable(cs, T)
  PROVE  IsFiniteSet(Chunks(cs, T)) /\ Cardinality(Chunks(cs, T)) \in Nat
<1>1. IsFiniteSet(T \X (1..MaxChunks))
  <2>1. MaxChunks \in Int /\ 1 \in Int
    BY SpeechCacheAssumption
  <2>2. IsFiniteSet(1..MaxChunks)
    BY <2>1, FS_Interval
  <2> QED BY <2>2, FS_Product DEF Countable
<1>2. Chunks(cs, T) \in SUBSET (T \X (1..MaxChunks))
  BY DEF Chunks
<1> QED BY <1>1, <1>2, FS_Subset, FS_CardinalityType

(* The chunks of some clips and of the others are those of all.            *)
LEMMA ChunksAdd ==
  ASSUME NEW cs, NEW T, Countable(cs, T), NEW U \in SUBSET T
  PROVE  /\ Countable(cs, U) /\ Countable(cs, T \ U)
         /\ Cardinality(Chunks(cs, T)) = Cardinality(Chunks(cs, U)) + Cardinality(Chunks(cs, T \ U))
<1>1. Countable(cs, U) /\ Countable(cs, T \ U)
  BY FS_Subset DEF Countable
<1>2. /\ IsFiniteSet(Chunks(cs, U)) /\ Cardinality(Chunks(cs, U)) \in Nat
      /\ IsFiniteSet(Chunks(cs, T \ U)) /\ Cardinality(Chunks(cs, T \ U)) \in Nat
  BY <1>1, ChunksAreFinite
<1>3. /\ Chunks(cs, T) = Chunks(cs, U) \cup Chunks(cs, T \ U)
      /\ Chunks(cs, U) \cap Chunks(cs, T \ U) = {}
  BY DEF Chunks
<1>4. \A A, B : IsFiniteSet(A) /\ IsFiniteSet(B) /\ A \cap B = {} =>
        Cardinality(A \cup B) = Cardinality(A) + Cardinality(B)
  <2> SUFFICES ASSUME NEW A, NEW B, IsFiniteSet(A), IsFiniteSet(B), A \cap B = {}
               PROVE  Cardinality(A \cup B) = Cardinality(A) + Cardinality(B)
    OBVIOUS
  <2>1. Cardinality({}) = 0 /\ Cardinality(A) \in Nat /\ Cardinality(B) \in Nat
    BY FS_EmptySet, FS_CardinalityType
  <2>2. Cardinality(A \cup B) = Cardinality(A) + Cardinality(B) - Cardinality(A \cap B)
    BY FS_Union
  <2>3. Cardinality(A \cap B) = 0
    BY <2>1, Zenon
  <2> DEFINE a == Cardinality(A)
             b == Cardinality(B)
             c == Cardinality(A \cup B)
             d == Cardinality(A \cap B)
  <2>4. a \in Nat /\ b \in Nat /\ c = a + b - d /\ d = 0
    BY <2>1, <2>2, <2>3
  <2> HIDE DEF a, b, c, d
  <2>5. c = a + b
    BY <2>4
  <2> QED BY <2>5 DEF a, b, c
<1> QED BY <1>1, <1>2, <1>3, <1>4

LEMMA ChunksOfOne ==
  ASSUME NEW cs, NEW t, cs[t].chunks \in 0..MaxChunks
  PROVE  Cardinality(Chunks(cs, {t})) = cs[t].chunks
<1> DEFINE n == cs[t].chunks
           f == [k \in 1..n |-> <<t, k>>]
<1>1. n \in 0..MaxChunks /\ MaxChunks \in Nat
  BY SpeechCacheAssumption
<1>2. Chunks(cs, {t}) = {<<t, k>> : k \in 1..n}
  BY <1>1 DEF Chunks
<1>3. f \in Bijection(1..n, Chunks(cs, {t}))
  <2>1. f \in Surjection(1..n, Chunks(cs, {t}))
    BY <1>2 DEF Surjection
  <2>2. f \in Injection(1..n, Chunks(cs, {t}))
    BY <1>2 DEF Injection, IsInjective
  <2> QED BY <2>1, <2>2 DEF Bijection
<1>4. IsFiniteSet(1..n) /\ Cardinality(1..n) = n
  <2>1. n \in Int /\ 1 \in Int /\ n \in Nat
    BY <1>1
  <2> HIDE DEF n
  <2> QED BY <2>1, FS_Interval
<1> QED BY <1>3, <1>4, FS_Bijection DEF ExistsBijection

LEMMA LeastSet ==
  ASSUME NEW S, IsFiniteSet(S), NEW Bad \in SUBSET (SUBSET S), Bad # {}
  PROVE  \E T \in Bad : \A U \in Bad : Cardinality(T) <= Cardinality(U)
<1> DEFINE Sizes == {Cardinality(T) : T \in Bad}
           Below == OpToRel(<, Nat)
<1>1. Sizes \in SUBSET Nat /\ Sizes # {}
  BY FS_Subset, FS_CardinalityType
<1>2. IsWellFoundedOn(Below, Nat)
  BY NatLessThanWellFounded
<1>3. PICK n \in Sizes : \A m \in Sizes : ~(<<m, n>> \in Below)
  <2> HIDE DEF Sizes, Below
  <2> QED BY <1>1, <1>2, WFMin
<1>4. ASSUME NEW m \in Sizes PROVE n <= m
  <2>1. m \in Nat /\ n \in Nat /\ ~(<<m, n>> \in Below)
    BY <1>1, <1>3
  <2>2. ~(m < n)
    BY <2>1 DEF OpToRel
  <2> HIDE DEF Sizes, Below
  <2>3. \A i, j \in Nat : ~(i < j) => j <= i
    OBVIOUS
  <2> QED BY <2>1, <2>2, <2>3
<1> QED BY <1>3, <1>4

(* The sum over the clips is the number of their chunks.                   *)
LEMMA BytesAreChunks ==
  ASSUME NEW cs, NEW T, Countable(cs, T)
  PROVE  Bytes(cs, T) = Cardinality(Chunks(cs, T))
<1> DEFINE First(U) == CHOOSE x \in U : TRUE
           is(f) == f = [U \in SUBSET T |-> IF U = {} THEN 0
                                            ELSE cs[First(U)].chunks + f[U \ {First(U)}]]
           sum == CHOOSE f : is(f)
           count == [U \in SUBSET T |-> Cardinality(Chunks(cs, U))]
<1>1. Bytes(cs, T) = sum[T]
  BY DEF Bytes, MapThenSumSet, MapThenFoldSet
<1>2. \A U \in SUBSET T : U # {} => First(U) \in U
  OBVIOUS
<1> HIDE DEF First
<1>3. ASSUME NEW U \in SUBSET T
      PROVE  count[U] = IF U = {} THEN 0 ELSE cs[First(U)].chunks + count[U \ {First(U)}]
  <2>1. CASE U = {}
    <3>1. Chunks(cs, {}) = {}
      BY DEF Chunks
    <3> QED BY <2>1, <3>1, FS_EmptySet
  <2>2. CASE U # {}
    <3>1. Countable(cs, U) /\ First(U) \in U /\ {First(U)} \in SUBSET U /\ U \ {First(U)} \in SUBSET T
      BY <1>2, <2>2, ChunksAdd
    <3>2. Cardinality(Chunks(cs, {First(U)})) = cs[First(U)].chunks
      BY <3>1, ChunksOfOne DEF Countable
    <3> QED BY <2>2, <3>1, <3>2, ChunksAdd
  <2> QED BY <2>1, <2>2
<1>4. is(count)
  <2> DEFINE g == [U \in SUBSET T |-> IF U = {} THEN 0
                                      ELSE cs[First(U)].chunks + count[U \ {First(U)}]]
  <2>1. \A U \in SUBSET T : count[U] = g[U]
    BY <1>3
  <2> QED BY <2>1
<1> HIDE DEF count
<1>5. is(sum)
  BY <1>4
<1> HIDE DEF sum
<1> DEFINE Bad == {U \in SUBSET T : sum[U] # count[U]}
<1>6. Bad = {}
  <2> SUFFICES ASSUME Bad # {} PROVE FALSE
    OBVIOUS
  <2>1. IsFiniteSet(T) /\ Bad \in SUBSET (SUBSET T)
    BY DEF Countable
  <2>2. PICK U \in Bad : \A V \in Bad : Cardinality(U) <= Cardinality(V)
    <3> HIDE DEF Bad
    <3> QED BY <2>1, LeastSet
  <2>3. U \in SUBSET T /\ sum[U] # count[U]
    BY <2>2
  <2>4. U # {}
    BY <1>3, <1>5, <2>3
  <2> DEFINE V == U \ {First(U)}
  <2>5. First(U) \in U /\ V \in SUBSET T
    BY <1>2, <2>3, <2>4
  <2>6. Cardinality(V) < Cardinality(U)
    <3>1. IsFiniteSet(U) /\ Cardinality(U) \in Nat
      BY <2>1, <2>3, FS_Subset, FS_CardinalityType
    <3>2. Cardinality(V) = Cardinality(U) - 1
      BY <2>5, <3>1, FS_RemoveElement
    <3> QED BY <3>1, <3>2
  <2>7. V \notin Bad
    <3>1. IsFiniteSet(U) /\ Cardinality(U) \in Nat /\ IsFiniteSet(V) /\ Cardinality(V) \in Nat
      BY <2>1, <2>3, <2>5, FS_Subset, FS_CardinalityType
    <3> QED BY <2>2, <2>6, <3>1
  <2>8. sum[V] = count[V]
    BY <2>5, <2>7
  <2> HIDE DEF V, Bad
  <2>9. sum[U] = cs[First(U)].chunks + sum[V]
    BY <1>5, <2>3, <2>4 DEF V
  <2> QED BY <1>3, <2>3, <2>4, <2>8, <2>9 DEF V
<1> QED BY <1>1, <1>6 DEF count

LEMMA SameChunks ==
  ASSUME NEW cs, NEW T, Countable(cs, T), NEW ds, NEW U, U \subseteq T,
         \A t \in U : ds[t].chunks = cs[t].chunks,
         \A t \in T \ U : cs[t].chunks = 0
  PROVE  Countable(ds, U) /\ Bytes(ds, U) = Bytes(cs, T)
<1>1. Countable(ds, U)
  BY FS_Subset DEF Countable
<1>2. Chunks(ds, U) = Chunks(cs, T)
  <2>1. \A t \in T, k \in 1..MaxChunks : k <= cs[t].chunks => t \in U
    OBVIOUS
  <2> QED BY <2>1 DEF Chunks
<1> QED BY <1>1, <1>2, BytesAreChunks

LEMMA BytesAdd ==
  ASSUME NEW cs, NEW T, Countable(cs, T), NEW U \in SUBSET T
  PROVE  /\ Countable(cs, U) /\ Countable(cs, T \ U)
         /\ Bytes(cs, T) \in Nat /\ Bytes(cs, U) \in Nat /\ Bytes(cs, T \ U) \in Nat
         /\ Bytes(cs, T) = Bytes(cs, U) + Bytes(cs, T \ U)
BY ChunksAdd, ChunksAreFinite, BytesAreChunks

LEMMA BytesOfParts ==
  \A cs, T, U : Countable(cs, T) /\ U \in SUBSET T =>
    /\ Bytes(cs, T) \in Nat /\ Bytes(cs, U) \in Nat /\ Bytes(cs, T \ U) \in Nat
    /\ Bytes(cs, T) = Bytes(cs, U) + Bytes(cs, T \ U)
BY BytesAdd

LEMMA BytesOfOne ==
  ASSUME NEW cs, NEW t, cs[t].chunks \in 0..MaxChunks
  PROVE  Bytes(cs, {t}) = cs[t].chunks
<1>1. Countable(cs, {t})
  <2>1. IsFiniteSet({} \cup {t})
    BY FS_EmptySet, FS_AddElement
  <2> QED BY <2>1 DEF Countable
<1> QED BY <1>1, ChunksOfOne, BytesAreChunks

(* The account without one entry, and what the entry is on it.             *)
LEMMA BytesWithout ==
  ASSUME NEW cs, NEW T, Countable(cs, T), NEW t \in T
  PROVE  /\ Countable(cs, T \ {t}) /\ cs[t].chunks \in Nat /\ Bytes(cs, T \ {t}) \in Nat
         /\ Bytes(cs, T) = cs[t].chunks + Bytes(cs, T \ {t})
<1>1. cs[t].chunks \in 0..MaxChunks /\ MaxChunks \in Nat
  BY SpeechCacheAssumption DEF Countable
<1>2. Bytes(cs, {t}) = cs[t].chunks
  BY <1>1, BytesOfOne
<1>3. Countable(cs, T \ {t})
  BY FS_RemoveElement DEF Countable
<1>4. Countable(cs, T) /\ {t} \in SUBSET T
  OBVIOUS
<1>5. Bytes(cs, T \ {t}) \in Nat /\ Bytes(cs, T) = Bytes(cs, {t}) + Bytes(cs, T \ {t})
  <2> DEFINE U == {t}
  <2>1. Countable(cs, T) /\ U \in SUBSET T
    BY <1>4
  <2> HIDE DEF U
  <2>2. Bytes(cs, T \ U) \in Nat /\ Bytes(cs, T) = Bytes(cs, U) + Bytes(cs, T \ U)
    BY <2>1, BytesAdd
  <2> QED BY <2>2 DEF U
<1>6. cs[t].chunks \in Nat
  BY <1>1
<1> QED BY <1>2, <1>3, <1>5, <1>6

(* lastUsed orders the entries.                                            *)
Ordered ==
  /\ older \subseteq Clips \X Clips
  /\ \A t \in Clips : <<t, t>> \notin older
  /\ \A t, u, v \in Clips : <<t, u>> \in older /\ <<u, v>> \in older => <<t, v>> \in older

LEMMA OrderedWithout ==
  ASSUME Ordered, NEW gone, older' = Without(gone), Clips' = Clips \ gone
  PROVE  Ordered'
<1>1. \A t, u : <<t, u>> \in older' <=> <<t, u>> \in older /\ t \notin gone /\ u \notin gone
  <2>1. \A t, u : <<t, u>>[1] = t /\ <<t, u>>[2] = u
    OBVIOUS
  <2> QED BY <2>1 DEF Without
<1>2. \A p \in older' : p \in Clips \X Clips /\ p = <<p[1], p[2]>>
  BY DEF Without, Ordered
<1>3. older' \subseteq Clips' \X Clips'
  BY <1>1, <1>2
<1>4. \A t \in Clips' : t \in Clips
  OBVIOUS
<1> QED BY <1>1, <1>3, <1>4 DEF Ordered

LEMMA OrderedUsed ==
  ASSUME Ordered, NEW t, older' = Used(t), Clips' = Clips \cup {t}
  PROVE  Ordered'
<1>1. \A u, v : <<u, v>> \in older' <=> \/ <<u, v>> \in older /\ u # t /\ v # t
                                        \/ u \in Clips \ {t} /\ v = t
  <2>1. \A u, v : <<u, v>>[1] = u /\ <<u, v>>[2] = v
    OBVIOUS
  <2> QED BY <2>1 DEF Used, Without
<1>2. \A p \in older' : p = <<p[1], p[2]>>
  BY DEF Used, Without, Ordered
<1>3. older' \subseteq Clips' \X Clips'
  <2> SUFFICES ASSUME NEW p \in older' PROVE p \in Clips' \X Clips'
    OBVIOUS
  <2>1. p = <<p[1], p[2]>>
    BY <1>2
  <2>2. p[1] \in Clips' /\ p[2] \in Clips'
    BY <1>1, <2>1 DEF Ordered
  <2> QED BY <2>1, <2>2
<1>4. \A u \in Clips' : u # t => u \in Clips
  OBVIOUS
<1>5. \A u \in Clips' : <<u, u>> \notin older'
  BY <1>1, <1>4 DEF Ordered
<1>6. \A u, v, w \in Clips' : <<u, v>> \in older' /\ <<v, w>> \in older' => <<u, w>> \in older'
  BY <1>1, <1>4 DEF Ordered
<1> QED BY <1>3, <1>5, <1>6 DEF Ordered

Spoken == {t \in Clips : clips[t].done}

(* The account, and what it needs of the entries and their order.          *)
Measured ==
  /\ Audible
  /\ Countable(clips, Clips) /\ Ordered
  /\ BytesAreAccounted

LEMMA MeasuredFacts ==
  ASSUME Measured
  PROVE  /\ clips \in [Texts -> Clip \cup {Absent}] /\ Countable(clips, Clips) /\ Ordered
         /\ totalBytes = Bytes(clips, Clips) /\ Bytes(clips, Spoken) <= MaxBytes
         /\ \A t \in Clips : clips[t] \in Clip /\ t \in Texts
         /\ \A t \in Clips : clips[t].chunks \in 0..MaxChunks /\ clips[t].done \in BOOLEAN
         /\ Absent \notin Clip /\ MaxBytes \in Nat /\ MaxChunks \in Nat
<1>1. clips \in [Texts -> Clip \cup {Absent}] /\ Countable(clips, Clips) /\ Ordered
      /\ totalBytes = Bytes(clips, Clips) /\ Bytes(clips, Spoken) <= MaxBytes
  BY DEF Measured, Audible, BytesAreAccounted, Spoken
<1>2. \A t \in Clips : clips[t] \in Clip /\ t \in Texts
  BY <1>1 DEF Clips
<1>3. \A t \in Clips : clips[t].chunks \in 0..MaxChunks /\ clips[t].done \in BOOLEAN
  BY <1>1, <1>2 DEF Countable, Clip
<1> QED BY <1>1, <1>2, <1>3, SpeechCacheAssumption

LEMMA NothingIsMeasured == SpeechInit => Measured
<1> SUFFICES ASSUME SpeechInit PROVE Measured
  OBVIOUS
<1>1. Clips = {} /\ totalBytes = 0 /\ older = {}
  BY DEF SpeechInit, Clips
<1>2. Countable(clips, {})
  BY FS_EmptySet DEF Countable
<1>3. Bytes(clips, {}) = 0
  <2>1. Chunks(clips, {}) = {}
    BY DEF Chunks
  <2> QED BY <1>2, <2>1, BytesAreChunks, FS_EmptySet
<1>4. Bytes(clips, {t \in Clips : clips[t].done}) <= MaxBytes
  <2>1. {t \in Clips : clips[t].done} = {}
    BY <1>1
  <2> QED BY <1>3, <2>1, SpeechCacheAssumption
<1> QED BY <1>1, <1>2, <1>3, <1>4, AudibleStart DEF Measured, BytesAreAccounted, Ordered

(* An entry that is used, or begun, or that somebody leaves.               *)
LEMMA NothingIsHeardAnew ==
  ASSUME Measured, Clips \subseteq Clips', totalBytes' = totalBytes,
         NEW t, Clips' \subseteq Clips \cup {t},
         \A u \in Clips : clips'[u].chunks = clips[u].chunks /\ clips'[u].done = clips[u].done,
         t \notin Clips => clips'[t].chunks = 0 /\ clips'[t].done = FALSE
  PROVE  Countable(clips, Clips)' /\ BytesAreAccounted'
<1>1. /\ Countable(clips, Clips) /\ totalBytes = Bytes(clips, Clips)
      /\ Bytes(clips, Spoken) <= MaxBytes /\ MaxChunks \in Nat
  BY MeasuredFacts
<1>2. Countable(clips', Clips')
  <2>1. IsFiniteSet(Clips \cup {t}) /\ Clips' \in SUBSET (Clips \cup {t})
    BY <1>1, FS_AddElement DEF Countable
  <2>2. IsFiniteSet(Clips')
    BY <2>1, FS_Subset
  <2>3. \A u \in Clips' : u \notin Clips => u = t
    OBVIOUS
  <2>4. 0 \in 0..MaxChunks
    BY <1>1
  <2> QED BY <1>1, <2>2, <2>3, <2>4 DEF Countable
<1>3. Bytes(clips, Clips) = Bytes(clips', Clips')
  <2>1. \A u \in Clips' \ Clips : clips'[u].chunks = 0
    OBVIOUS
  <2>2. \A u \in Clips : clips[u].chunks = clips'[u].chunks
    OBVIOUS
  <2> QED BY <1>2, <2>1, <2>2, SameChunks
<1>4. {u \in Clips' : clips'[u].done} = Spoken
  BY DEF Spoken
<1>5. Bytes(clips', Spoken) = Bytes(clips, Spoken)
  <2>1. Spoken \in SUBSET Clips
    BY DEF Spoken
  <2>2. Countable(clips, Spoken)
    BY <1>1, <2>1, BytesAdd
  <2>3. \A u \in Spoken : clips'[u].chunks = clips[u].chunks
    BY <2>1
  <2> QED BY <2>2, <2>3, SameChunks
<1> QED BY <1>1, <1>2, <1>3, <1>4, <1>5 DEF BytesAreAccounted

LEMMA ListenIsMeasured ==
  ASSUME Measured, Audible', NEW p \in Players, NEW t \in Texts, Listen(p, t),
         totalBytes' = totalBytes
  PROVE  Measured'
<1> DEFINE clip == Begun(t)
           new == IF clip.done THEN clip ELSE [clip EXCEPT !.listeners = clip.listeners \cup {p}]
<1>1. clips' = [clips EXCEPT ![t] = new] /\ older' = Used(t)
  BY DEF Listen
<1>2. /\ clip \in Clip /\ (t \in Clips => clip = clips[t])
      /\ (t \notin Clips => clip.chunks = 0 /\ clip.done = FALSE)
  <2>1. NewClip \in Clip /\ NewClip.chunks = 0 /\ NewClip.done = FALSE
    BY DEF NewClip, Clip
  <2> QED BY <2>1, MeasuredFacts DEF Begun, Clips
<1>3. new.chunks = clip.chunks /\ new.done = clip.done /\ new # Absent
  <2>1. new \in Clip /\ new.chunks = clip.chunks /\ new.done = clip.done
    <3> HIDE DEF clip
    <3> QED BY <1>2 DEF Clip
  <2> QED BY <2>1, MeasuredFacts
<1> HIDE DEF clip, new
<1>4. \A u \in Texts : clips'[u] = IF u = t THEN new ELSE clips[u]
  BY <1>1, MeasuredFacts
<1>5. Clips' = Clips \cup {t}
  BY <1>3, <1>4 DEF Clips
<1>6. \A u \in Clips : clips'[u].chunks = clips[u].chunks /\ clips'[u].done = clips[u].done
  <2>1. \A u \in Clips : u \in Texts
    BY DEF Clips
  <2> QED BY <1>2, <1>3, <1>4, <2>1
<1>7. t \notin Clips => clips'[t].chunks = 0 /\ clips'[t].done = FALSE
  BY <1>2, <1>3, <1>4
<1>8. Ordered'
  BY <1>1, <1>5, MeasuredFacts, OrderedUsed
<1>9. Countable(clips, Clips)' /\ BytesAreAccounted'
  BY <1>5, <1>6, <1>7, NothingIsHeardAnew
<1> QED BY <1>8, <1>9 DEF Measured

(* What evict() leaves is within the ceiling, or nothing that is done.     *)
LEMMA EvictedIsEnough ==
  ASSUME NEW cs, Countable(cs, Clips), Ordered, NEW total, total = Bytes(cs, Clips),
         \A t \in Texts : cs[t] # Absent <=> t \in Clips,
         \A t \in Clips : cs[t].done => cs[t].listeners = {}
  PROVE  /\ Evicted(cs, total) \in SUBSET Clips
         /\ Bytes(cs, Clips \ Evicted(cs, total)) = total - Bytes(cs, Evicted(cs, total))
         /\ Bytes(cs, {t \in Clips \ Evicted(cs, total) : cs[t].done}) <= MaxBytes
<1> DEFINE gone == Evicted(cs, total)
           rest == {t \in Clips \ gone : cs[t].done}
           idle == {t \in Texts : cs[t] # Absent /\ cs[t].done /\ cs[t].listeners = {}}
           Older(t) == {u \in idle : <<u, t>> \in older}
<1>a. \A T, U : Countable(cs, T) /\ U \in SUBSET T =>
        /\ Bytes(cs, T) \in Nat /\ Bytes(cs, U) \in Nat /\ Bytes(cs, T \ U) \in Nat
        /\ Bytes(cs, T) = Bytes(cs, U) + Bytes(cs, T \ U)
  BY BytesOfParts
<1>1. gone = {t \in idle : total - Bytes(cs, Older(t)) > MaxBytes}
  BY DEF Evicted
<1>2. idle = {t \in Clips : cs[t].done}
  BY DEF Clips
<1> HIDE DEF gone, idle
<1>3. gone \in SUBSET Clips /\ rest = idle \ gone /\ \A t : Older(t) \in SUBSET Clips
  BY <1>1, <1>2
<1>4. /\ Bytes(cs, Clips) = Bytes(cs, gone) + Bytes(cs, Clips \ gone)
      /\ Bytes(cs, gone) \in Nat /\ Bytes(cs, Clips \ gone) \in Nat /\ total \in Nat
  <2>1. gone \in SUBSET Clips
    BY <1>3
  <2> HIDE DEF rest, Older
  <2> QED BY <1>a, <2>1
<1>5. Bytes(cs, rest) <= MaxBytes
  <2>1. CASE rest = {}
    <3>1. Bytes(cs, {}) = 0
      <4>1. Countable(cs, {}) /\ Chunks(cs, {}) = {}
        BY FS_EmptySet DEF Countable, Chunks
      <4> QED BY <4>1, BytesAreChunks, FS_EmptySet
    <3> QED BY <2>1, <3>1, SpeechCacheAssumption
  <2>2. CASE rest # {}
    <3> DEFINE Olders == {Older(t) : t \in rest}
    <3>1. Olders \in SUBSET (SUBSET Clips) /\ Olders # {}
      <4>1. \A B \in Olders : B \in SUBSET Clips
        <5> HIDE DEF Older, rest
        <5> QED BY <1>3
      <4>2. PICK t \in rest : TRUE
        BY <2>2
      <4>3. Older(t) \in Olders
        BY <4>2
      <4> QED BY <4>1, <4>3
    <3>2. PICK B \in Olders : \A C \in Olders : Cardinality(B) <= Cardinality(C)
      <4>1. IsFiniteSet(Clips)
        BY DEF Countable
      <4> HIDE DEF Olders
      <4> QED BY <3>1, <4>1, LeastSet
    <3>3. PICK t \in rest : B = Older(t)
      OBVIOUS
    <3>4. Older(t) \subseteq gone
      <4> SUFFICES ASSUME NEW u \in Older(t), u \notin gone PROVE FALSE
        OBVIOUS
      <4>1. u \in rest /\ u \in Clips /\ t \in Clips /\ <<u, t>> \in older
        BY <1>3
      <4>2. Older(u) \subseteq Older(t) \ {u}
        <5> SUFFICES ASSUME NEW v \in Older(u) PROVE v \in Older(t) \ {u}
          OBVIOUS
        <5>1. v \in Clips /\ v \in idle /\ <<v, u>> \in older
          BY <1>2
        <5> QED BY <4>1, <5>1 DEF Ordered
      <4>3. IsFiniteSet(Older(t)) /\ Cardinality(Older(t)) \in Nat
        BY <1>3, FS_Subset, FS_CardinalityType DEF Countable
      <4> DEFINE A == Older(t)
                 C == Older(u)
      <4>4. u \in A /\ C \in SUBSET (A \ {u}) /\ IsFiniteSet(A) /\ Cardinality(A) \in Nat
        BY <4>2, <4>3
      <4>5. Cardinality(A) <= Cardinality(C)
        BY <3>2, <3>3, <4>1
      <4> HIDE DEF A, C
      <4>6. IsFiniteSet(A \ {u}) /\ Cardinality(A \ {u}) = Cardinality(A) - 1
        BY <4>4, FS_RemoveElement
      <4>7. Cardinality(C) <= Cardinality(A \ {u}) /\ IsFiniteSet(C)
        BY <4>4, <4>6, FS_Subset
      <4>8. Cardinality(C) \in Nat
        BY <4>7, FS_CardinalityType
      <4> QED BY <4>4, <4>5, <4>6, <4>7, <4>8
    <3>5. /\ Bytes(cs, gone) = Bytes(cs, Older(t)) + Bytes(cs, gone \ Older(t))
          /\ Bytes(cs, Older(t)) \in Nat /\ Bytes(cs, gone \ Older(t)) \in Nat
      <4>1. Countable(cs, gone) /\ Older(t) \in SUBSET gone
        BY <1>3, <3>4, BytesAdd
      <4> DEFINE T == gone
                 U == Older(t)
      <4>2. Countable(cs, T) /\ U \in SUBSET T
        BY <4>1
      <4> HIDE DEF T, U
      <4>3. /\ Bytes(cs, T) \in Nat /\ Bytes(cs, U) \in Nat /\ Bytes(cs, T \ U) \in Nat
            /\ Bytes(cs, T) = Bytes(cs, U) + Bytes(cs, T \ U)
        BY <1>a, <4>2
      <4> QED BY <4>3 DEF T, U
    <3>6. total - Bytes(cs, Older(t)) <= MaxBytes
      <4>1. t \in idle /\ t \notin gone
        BY <1>3
      <4>2. ~(total - Bytes(cs, Older(t)) > MaxBytes)
        BY <1>1, <4>1
      <4> HIDE DEF Older
      <4> QED BY <1>4, <3>5, <4>2, SpeechCacheAssumption
    <3>7. /\ Bytes(cs, Clips \ gone) = Bytes(cs, rest) + Bytes(cs, (Clips \ gone) \ rest)
          /\ Bytes(cs, rest) \in Nat /\ Bytes(cs, (Clips \ gone) \ rest) \in Nat
      <4>1. Countable(cs, Clips \ gone) /\ rest \in SUBSET (Clips \ gone)
        BY <1>3, BytesAdd
      <4> DEFINE T == Clips \ gone
                 U == rest
      <4>2. Countable(cs, T) /\ U \in SUBSET T
        BY <4>1
      <4> HIDE DEF T, U
      <4>3. /\ Bytes(cs, T) \in Nat /\ Bytes(cs, U) \in Nat /\ Bytes(cs, T \ U) \in Nat
            /\ Bytes(cs, T) = Bytes(cs, U) + Bytes(cs, T \ U)
        BY <1>a, <4>2
      <4> QED BY <4>3 DEF T, U
    <3> HIDE DEF Older, rest
    <3> QED BY <1>4, <3>5, <3>6, <3>7, SpeechCacheAssumption
  <2> QED BY <2>1, <2>2
<1>6. Bytes(cs, Clips \ gone) = total - Bytes(cs, gone)
  BY <1>4
<1> QED BY <1>3, <1>5, <1>6 DEF gone

LEMMA MeasuredStep == Measured /\ [SpeechNext]_speechVars => Measured'
<1> SUFFICES ASSUME Measured, [SpeechNext]_speechVars PROVE Measured'
  OBVIOUS
<1>a. Audible'
  BY AudibleStep DEF Measured
<1>b. /\ clips \in [Texts -> Clip \cup {Absent}] /\ Countable(clips, Clips) /\ Ordered
      /\ totalBytes = Bytes(clips, Clips) /\ Bytes(clips, Spoken) <= MaxBytes
      /\ \A t \in Clips : clips[t] \in Clip /\ t \in Texts
      /\ \A t \in Clips : clips[t].chunks \in 0..MaxChunks /\ clips[t].done \in BOOLEAN
      /\ Absent \notin Clip /\ MaxBytes \in Nat /\ MaxChunks \in Nat
  BY MeasuredFacts
<1>c. Spoken \in SUBSET Clips /\ Countable(clips, Spoken)
  <2>1. Spoken \in SUBSET Clips
    BY DEF Spoken
  <2>2. IsFiniteSet(Spoken)
    BY <1>b, <2>1, FS_Subset DEF Countable
  <2> QED BY <1>b, <2>1, <2>2 DEF Countable
<1>d. ASSUME clips' = clips, older' = older, totalBytes' = totalBytes PROVE Measured'
  BY <1>a, <1>b, <1>d DEF Measured, Clips, Ordered, BytesAreAccounted, Spoken
<1>1. ASSUME NEW i \in Audios, NEW t \in Texts, Announce(i, t) PROVE Measured'
  <2>1. clips' = [clips EXCEPT ![t] = Begun(t)] /\ totalBytes' = totalBytes
        /\ older' = IF clips[t] = Absent THEN Used(t) ELSE older
    BY <1>1 DEF Announce
  <2>2. CASE clips[t] # Absent
    <3>1. clips' = clips
      BY <1>b, <2>1, <2>2 DEF Begun
    <3> QED BY <1>d, <2>1, <2>2, <3>1
  <2>3. CASE clips[t] = Absent
    <3>1. clips' = [clips EXCEPT ![t] = NewClip] /\ older' = Used(t)
      BY <2>1, <2>3 DEF Begun
    <3>2. NewClip \in Clip /\ NewClip # Absent /\ NewClip.chunks = 0 /\ NewClip.done = FALSE
      <4>1. NewClip \in Clip /\ NewClip.chunks = 0 /\ NewClip.done = FALSE
        BY DEF NewClip, Clip
      <4> QED BY <1>b, <4>1
    <3>3. \A u \in Texts : clips'[u] = IF u = t THEN NewClip ELSE clips[u]
      BY <1>b, <3>1
    <3>4. Clips' = Clips \cup {t} /\ t \notin Clips
      BY <2>3, <3>2, <3>3 DEF Clips
    <3>5. \A u \in Clips : clips'[u].chunks = clips[u].chunks /\ clips'[u].done = clips[u].done
      BY <1>b, <3>3, <3>4
    <3>6. clips'[t].chunks = 0 /\ clips'[t].done = FALSE
      BY <3>2, <3>3
    <3>7. Ordered'
      BY <1>b, <3>1, <3>4, OrderedUsed
    <3>8. Countable(clips, Clips)' /\ BytesAreAccounted'
      BY <2>1, <3>4, <3>5, <3>6, NothingIsHeardAnew
    <3> QED BY <1>a, <3>7, <3>8 DEF Measured
  <2> QED BY <2>2, <2>3
<1>2. ASSUME NEW i \in Audios, IdExpires(i) PROVE Measured'
  BY <1>2, <1>d DEF IdExpires
<1>3. ASSUME NEW p \in Players, NEW t \in Texts, SpeakText(p, t) PROVE Measured'
  BY <1>3, <1>a, ListenIsMeasured DEF SpeakText
<1>4. ASSUME NEW p \in Players, NEW i \in Audios, SpeakId(p, i) PROVE Measured'
  BY <1>4, <1>a, ListenIsMeasured DEF SpeakId
<1>5. ASSUME NEW p \in Players, NEW i \in Audios, UnknownAudio(p, i) PROVE Measured'
  BY <1>5, <1>d DEF UnknownAudio
<1>6. ASSUME NEW p \in Players, ShopperStops(p) PROVE Measured'
  <2> DEFINE t == players[p].text
             new == [clips[t] EXCEPT !.listeners = clips[t].listeners \ {p}]
  <2>1. t \in Texts /\ clips[t] # Absent
    BY <1>6 DEF ShopperStops, Measured, Audible, Follows
  <2>2. clips' = [clips EXCEPT ![t] = new] /\ older' = older /\ totalBytes' = totalBytes
    BY <1>6, <1>b DEF ShopperStops
  <2>3. clips[t] \in Clip
    BY <1>b, <2>1
  <2>4. new \in Clip /\ new.chunks = clips[t].chunks /\ new.done = clips[t].done
    BY <2>3 DEF Clip
  <2> HIDE DEF t, new
  <2>5. \A u \in Texts : clips'[u] = IF u = t THEN new ELSE clips[u]
    BY <1>b, <2>2
  <2>6. Clips' = Clips
    BY <1>b, <2>1, <2>4, <2>5 DEF Clips
  <2>7. \A u \in Clips : clips'[u].chunks = clips[u].chunks /\ clips'[u].done = clips[u].done
    BY <1>b, <2>4, <2>5
  <2>8. t \in Clips
    BY <2>1 DEF Clips
  <2>9. Countable(clips, Clips)' /\ BytesAreAccounted'
    BY <2>2, <2>6, <2>7, <2>8, NothingIsHeardAnew
  <2> QED BY <1>a, <1>b, <2>2, <2>6, <2>9 DEF Measured, Ordered
<1>7. ASSUME NEW t \in Texts, PumpReads(t) PROVE Measured'
  <2> DEFINE new == [clips[t] EXCEPT !.chunks = clips[t].chunks + 1]
             rest == Clips \ {t}
  <2>1. /\ t \in Clips /\ clips[t].done = FALSE /\ clips[t].chunks < MaxChunks
        /\ clips' = [clips EXCEPT ![t] = new] /\ older' = older /\ totalBytes' = totalBytes + 1
    BY <1>7, <1>b DEF PumpReads, Pumping, Clips
  <2>2. new.chunks = clips[t].chunks + 1 /\ new.done = FALSE /\ new # Absent
    <3> DEFINE n == clips[t].chunks + 1
               was == clips[t]
    <3>1. n \in Nat /\ was \in Clip /\ new = [was EXCEPT !.chunks = n] /\ was.done = FALSE
      BY <1>b, <2>1
    <3> HIDE DEF n, was, new
    <3>2. new \in Clip /\ new.chunks = n /\ new.done = FALSE
      BY <3>1 DEF Clip
    <3> QED BY <1>b, <3>2 DEF n
  <2> HIDE DEF new
  <2>3. \A u \in Texts : clips'[u] = IF u = t THEN new ELSE clips[u]
    BY <1>b, <2>1
  <2>4. Clips' = Clips
    BY <1>b, <2>1, <2>2, <2>3 DEF Clips
  <2>5. clips[t].chunks + 1 \in 0..MaxChunks
    BY <1>b, <2>1
  <2>6. Countable(clips', Clips)
    BY <1>b, <2>2, <2>3, <2>5 DEF Countable
  <2>7. /\ Bytes(clips, Clips) = clips[t].chunks + Bytes(clips, rest)
        /\ Bytes(clips', Clips) = clips[t].chunks + 1 + Bytes(clips', rest)
        /\ Bytes(clips, rest) \in Nat /\ Bytes(clips', rest) \in Nat /\ clips[t].chunks \in Nat
    <3>1. t \in Clips
      BY <2>1
    <3>2. /\ clips[t].chunks \in Nat /\ Bytes(clips, rest) \in Nat
          /\ Bytes(clips, Clips) = clips[t].chunks + Bytes(clips, rest)
      BY <1>b, <3>1, BytesWithout
    <3>3. /\ clips'[t].chunks \in Nat /\ Bytes(clips', rest) \in Nat
          /\ Bytes(clips', Clips) = clips'[t].chunks + Bytes(clips', rest)
      BY <2>6, <3>1, BytesWithout
    <3>4. clips'[t].chunks = clips[t].chunks + 1
      BY <1>b, <2>2, <2>3, <3>1
    <3> HIDE DEF rest
    <3> QED BY <3>2, <3>3, <3>4
  <2>8. Bytes(clips', rest) = Bytes(clips, rest)
    <3>1. \A u \in rest : clips'[u] = clips[u]
      BY <1>b, <2>3
    <3>2. Countable(clips, rest)
      BY <1>b, <2>1, BytesWithout
    <3> HIDE DEF rest
    <3> QED BY <3>1, <3>2, SameChunks
  <2> HIDE DEF rest
  <2>9. totalBytes' = Bytes(clips', Clips')
    BY <1>b, <2>1, <2>4, <2>7, <2>8
  <2>10. {u \in Clips' : clips'[u].done} = Spoken
    BY <1>b, <2>1, <2>2, <2>3, <2>4 DEF Spoken
  <2>11. Bytes(clips', Spoken) = Bytes(clips, Spoken)
    <3>1. \A u \in Spoken : clips'[u].chunks = clips[u].chunks
      BY <1>b, <2>1, <2>3 DEF Spoken
    <3> QED BY <1>c, <3>1, SameChunks
  <2>12. BytesAreAccounted'
    BY <1>b, <2>9, <2>10, <2>11 DEF BytesAreAccounted
  <2> QED BY <1>a, <1>b, <2>1, <2>4, <2>6, <2>12 DEF Measured, Ordered
<1>8. ASSUME NEW t \in Texts, PumpEnds(t) PROVE Measured'
  <2> DEFINE cs == [clips EXCEPT ![t].done = TRUE, ![t].listeners = {}]
             gone == Evicted(cs, totalBytes)
             new == [clips[t] EXCEPT !.done = TRUE, !.listeners = {}]
  <2>1. /\ t \in Clips /\ clips' = [u \in Texts |-> IF u \in gone THEN Absent ELSE cs[u]]
        /\ totalBytes' = totalBytes - Bytes(cs, gone) /\ older' = Without(gone)
    BY <1>8 DEF PumpEnds, Pumping, Clips
  <2>2. clips[t] \in Clip
    BY <1>b, <2>1
  <2>3. cs = [clips EXCEPT ![t] = new]
    BY <1>b
  <2>4. new.chunks = clips[t].chunks /\ new.listeners = {} /\ new # Absent
    <3>1. new \in Clip /\ new.chunks = clips[t].chunks /\ new.listeners = {}
      BY <2>2 DEF Clip
    <3> QED BY <1>b, <3>1
  <2> HIDE DEF cs, gone, new
  <2>5. \A u \in Texts : cs[u] = IF u = t THEN new ELSE clips[u]
    BY <1>b, <2>3
  <2>6. \A u \in Texts : cs[u] # Absent <=> u \in Clips
    BY <2>1, <2>4, <2>5 DEF Clips
  <2>7. \A u \in Clips : cs[u].chunks = clips[u].chunks
    BY <1>b, <2>4, <2>5
  <2>8. \A u \in Clips : cs[u].done => cs[u].listeners = {}
    <3> SUFFICES ASSUME NEW u \in Clips, u # t, clips[u].done PROVE clips[u].listeners = {}
      BY <1>b, <2>4, <2>5
    <3> SUFFICES ASSUME NEW r \in clips[u].listeners PROVE FALSE
      OBVIOUS
    <3>1. clips[u] \in Clip /\ clips[u] # Absent /\ u \in Texts
      BY <1>b DEF Clips
    <3>2. r \in Players
      BY <3>1 DEF Clip
    <3>3. players[r].state = "playing" /\ players[r].text = u
      BY <3>1 DEF Measured, Audible, Heeded
    <3> QED BY <3>2, <3>3 DEF Measured, Audible, Follows
  <2>9. Countable(cs, Clips) /\ Bytes(cs, Clips) = totalBytes
    BY <1>b, <2>7, SameChunks
  <2>10. /\ gone \in SUBSET Clips
         /\ Bytes(cs, Clips \ gone) = totalBytes - Bytes(cs, gone)
         /\ Bytes(cs, {u \in Clips \ gone : cs[u].done}) <= MaxBytes
    BY <1>b, <2>6, <2>8, <2>9, EvictedIsEnough DEF gone
  <2>11. /\ Clips' = Clips \ gone
         /\ \A u \in Clips \ gone : clips'[u] = cs[u]
    BY <1>b, <2>1, <2>6, <2>10 DEF Clips
  <2>12. Countable(cs, Clips \ gone)
    BY <2>9, <2>10, BytesOfParts, FS_Difference DEF Countable
  <2>13. Countable(clips', Clips') /\ Bytes(clips', Clips') = Bytes(cs, Clips \ gone)
    BY <2>11, <2>12, SameChunks
  <2>14. Bytes(clips', {u \in Clips' : clips'[u].done}) <= MaxBytes
    <3> DEFINE U == {u \in Clips \ gone : cs[u].done}
    <3>1. {u \in Clips' : clips'[u].done} = U
      BY <2>11
    <3>2. U \in SUBSET (Clips \ gone)
      OBVIOUS
    <3>3. Countable(cs, U)
      <4> HIDE DEF U
      <4> QED BY <2>12, <3>2, FS_Subset DEF Countable
    <3>4. \A u \in U : clips'[u].chunks = cs[u].chunks
      BY <2>11
    <3>5. Bytes(clips', U) = Bytes(cs, U)
      <4> HIDE DEF U
      <4> QED BY <3>3, <3>4, SameChunks
    <3> QED BY <2>10, <3>1, <3>5
  <2>15. Ordered'
    BY <1>b, <2>1, <2>11, OrderedWithout
  <2>16. BytesAreAccounted'
    BY <2>1, <2>10, <2>13, <2>14 DEF BytesAreAccounted
  <2> QED BY <1>a, <2>13, <2>15, <2>16 DEF Measured
<1>9. ASSUME NEW t \in Texts, PumpFails(t) PROVE Measured'
  <2>1. /\ t \in Clips /\ clips[t].done = FALSE /\ clips' = [clips EXCEPT ![t] = Absent]
        /\ older' = Without({t}) /\ totalBytes' = totalBytes - clips[t].chunks
    BY <1>9, <1>b DEF PumpFails, Fail, Pumping, Clips
  <2>2. \A u \in Texts : clips'[u] = IF u = t THEN Absent ELSE clips[u]
    BY <1>b, <2>1
  <2>3. Clips' = Clips \ {t}
    BY <2>2 DEF Clips
  <2>4. \A u \in Clips \ {t} : clips'[u] = clips[u]
    BY <1>b, <2>2
  <2>5. Countable(clips, Clips \ {t})
    BY <1>b, FS_RemoveElement DEF Countable
  <2>6. Countable(clips', Clips') /\ Bytes(clips', Clips') = Bytes(clips, Clips \ {t})
    BY <2>3, <2>4, <2>5, SameChunks
  <2>7. /\ Bytes(clips, Clips) = clips[t].chunks + Bytes(clips, Clips \ {t})
        /\ Bytes(clips, Clips \ {t}) \in Nat /\ clips[t].chunks \in Nat
    BY <1>b, <2>1, BytesWithout
  <2>8. {u \in Clips' : clips'[u].done} = Spoken
    BY <1>b, <2>1, <2>3, <2>4 DEF Spoken
  <2>9. Bytes(clips', Spoken) = Bytes(clips, Spoken)
    <3>1. \A u \in Spoken : clips'[u].chunks = clips[u].chunks
      BY <1>b, <2>1, <2>4 DEF Spoken
    <3> QED BY <1>c, <3>1, SameChunks
  <2>10. Ordered'
    BY <1>b, <2>1, <2>3, OrderedWithout
  <2>11. BytesAreAccounted'
    <3>1. totalBytes' = Bytes(clips', Clips')
      BY <1>b, <2>1, <2>6, <2>7
    <3>2. Bytes(clips', {u \in Clips' : clips'[u].done}) <= MaxBytes
      BY <1>b, <2>8, <2>9
    <3> QED BY <3>1, <3>2 DEF BytesAreAccounted
  <2> QED BY <1>a, <2>6, <2>10, <2>11 DEF Measured
<1>10. CASE UNCHANGED speechVars
  BY <1>10, <1>d DEF speechVars
<1> QED BY <1>1, <1>2, <1>3, <1>4, <1>5, <1>6, <1>7, <1>8, <1>9, <1>10 DEF SpeechNext

(* The bytes on the account are those of the entries, and the finished     *)
(* ones are within the ceiling: for any sentences, requests and failures   *)
(* of evict(), pump() and finish().                                        *)
THEOREM ClipsAreAccounted == SpeechSpec => []BytesAreAccounted
<1>1. Measured => BytesAreAccounted
  BY DEF Measured
<1> QED BY <1>1, NothingIsMeasured, MeasuredStep, PTL DEF SpeechSpec

-----------------------------------------------------------------------------
(* The provider that hears a shop first.                                   *)

(* The last n outcomes were no mismatch.                                   *)
WellSince(seen, n) == \A k \in 1..Len(seen) : k + n > Len(seen) => ~seen[k]

(* The preference of each shop is of its last turns, and its mismatches    *)
(* are older than its wins.                                                *)
Preferred ==
  /\ recent \in [Stores -> Seq(BOOLEAN)] /\ wins \in [Stores -> 0..Window]
  /\ \A s \in Stores : Len(recent[s]) <= Window /\ WellSince(recent[s], wins[s])
  /\ known \in Seq(Stores) /\ Len(known) <= MaxStores

(* A recording that may yet be judged is of a shop.                        *)
Received(x) ==
  /\ {"step", "store"} \subseteq DOMAIN x
  /\ x.step \in {"first", "relabelled"} => x.store \in Stores

Drifts == Preferred /\ takes = [k \in Takes |-> takes[k]] /\ \A k \in Takes : Received(takes[k])

LEMMA WindowMoves ==
  ASSUME NEW seen \in Seq(BOOLEAN), Len(seen) <= Window, NEW n \in Nat, WellSince(seen, n),
         NEW m \in Nat, NEW mismatch \in BOOLEAN,
         IF mismatch THEN m = 0 ELSE m <= n + 1
  PROVE  LET now == Remember(seen, mismatch)
         IN  now \in Seq(BOOLEAN) /\ Len(now) <= Window /\ WellSince(now, m)
<1> DEFINE all == Append(seen, mismatch)
<1>0. Window \in Nat \ {0}
  BY TranscriberAssumption
<1>1. /\ all \in Seq(BOOLEAN) /\ Len(all) = Len(seen) + 1 /\ Len(seen) \in Nat
      /\ \A k \in 1..Len(all) : all[k] = IF k = Len(seen) + 1 THEN mismatch ELSE seen[k]
  OBVIOUS
<1> HIDE DEF all
<1>2. WellSince(all, m)
  <2> SUFFICES ASSUME NEW k \in 1..Len(all), k + m > Len(all) PROVE ~all[k]
    BY DEF WellSince
  <2>1. ~mismatch
    BY <1>1
  <2>2. CASE k = Len(seen) + 1
    BY <1>1, <2>1, <2>2
  <2>3. CASE k # Len(seen) + 1
    <3>1. k \in 1..Len(seen) /\ k + n > Len(seen)
      BY <1>1, <2>1, <2>3
    <3> QED BY <1>1, <2>3, <3>1 DEF WellSince
  <2> QED BY <2>2, <2>3
<1>3. CASE Len(all) > Window
  <2>1. Remember(seen, mismatch) = Tail(all)
    BY <1>3 DEF Remember, all
  <2>2. /\ Tail(all) \in Seq(BOOLEAN) /\ Len(Tail(all)) = Len(all) - 1
        /\ \A k \in 1..Len(Tail(all)) : Tail(all)[k] = all[k + 1]
    BY <1>0, <1>1, <1>3, HeadTailProperties, EmptySeq
  <2>3. WellSince(Tail(all), m)
    <3> SUFFICES ASSUME NEW k \in 1..Len(Tail(all)), k + m > Len(Tail(all)) PROVE ~Tail(all)[k]
      BY DEF WellSince
    <3>1. k + 1 \in 1..Len(all) /\ k + 1 + m > Len(all)
      BY <1>1, <2>2
    <3> QED BY <1>2, <2>2, <3>1 DEF WellSince
  <2>4. Len(Tail(all)) <= Window
    BY <1>0, <1>1, <2>2
  <2> QED BY <2>1, <2>2, <2>3, <2>4
<1>4. CASE ~(Len(all) > Window)
  <2>1. Remember(seen, mismatch) = all
    BY <1>4 DEF Remember, all
  <2> QED BY <1>0, <1>1, <1>2, <1>4, <2>1
<1> QED BY <1>3, <1>4

LEMMA PreferenceIsKept ==
  ASSUME Preferred, NEW s \in Stores, NEW mismatch \in BOOLEAN, record(s, mismatch)
  PROVE  Preferred'
<1> DEFINE order == IF \E k \in 1..Len(known) : known[k] = s THEN known ELSE Append(known, s)
           kept == [recent EXCEPT ![s] = Remember(recent[s], mismatch)]
           m == IF mismatch THEN 0 ELSE IF wins[s] < Window THEN wins[s] + 1 ELSE wins[s]
<1>a. /\ recent \in [Stores -> Seq(BOOLEAN)] /\ wins \in [Stores -> 0..Window]
      /\ \A t \in Stores : Len(recent[t]) <= Window /\ WellSince(recent[t], wins[t])
      /\ known \in Seq(Stores) /\ Len(known) <= MaxStores
      /\ Window \in Nat \ {0} /\ MaxStores \in Nat \ {0}
  BY TranscriberAssumption DEF Preferred
<1>b. /\ known' = IF Len(order) > MaxStores THEN Tail(order) ELSE order
      /\ recent' = IF Len(order) > MaxStores THEN [kept EXCEPT ![order[1]] = <<>>] ELSE kept
      /\ wins' = [wins EXCEPT ![s] = m]
  BY DEF record
<1>1. m \in 0..Window /\ m \in Nat
  BY <1>a
<1>2. /\ Remember(recent[s], mismatch) \in Seq(BOOLEAN)
      /\ Len(Remember(recent[s], mismatch)) <= Window
      /\ WellSince(Remember(recent[s], mismatch), m)
  <2>1. recent[s] \in Seq(BOOLEAN) /\ wins[s] \in Nat /\ Len(recent[s]) <= Window
    BY <1>a
  <2>2. IF mismatch THEN m = 0 ELSE m <= wins[s] + 1
    BY <2>1
  <2> HIDE DEF m
  <2> QED BY <1>a, <1>1, <2>1, <2>2, WindowMoves
<1>3. order \in Seq(Stores) /\ Len(order) <= MaxStores + 1
  BY <1>a
<1>4. wins' \in [Stores -> 0..Window] /\ \A t \in Stores : wins'[t] = IF t = s THEN m ELSE wins[t]
  BY <1>a, <1>b, <1>1
<1>5. /\ kept \in [Stores -> Seq(BOOLEAN)]
      /\ \A t \in Stores : kept[t] = IF t = s THEN Remember(recent[s], mismatch) ELSE recent[t]
  BY <1>a, <1>2
<1> HIDE DEF order, kept, m
<1>6. \A t \in Stores : Len(kept[t]) <= Window /\ WellSince(kept[t], wins'[t])
  BY <1>a, <1>2, <1>4, <1>5
<1>7. CASE Len(order) > MaxStores
  <2>1. known' \in Seq(Stores) /\ Len(known') <= MaxStores
    BY <1>a, <1>b, <1>3, <1>7, HeadTailProperties, EmptySeq
  <2>2. <<>> \in Seq(BOOLEAN) /\ Len(<<>>) = 0 /\ \A n : WellSince(<<>>, n)
    BY DEF WellSince
  <2>3. /\ recent' \in [Stores -> Seq(BOOLEAN)]
        /\ \A t \in Stores : recent'[t] = kept[t] \/ recent'[t] = <<>>
    BY <1>b, <1>5, <1>7, <2>2
  <2>4. \A t \in Stores : Len(recent'[t]) <= Window /\ WellSince(recent'[t], wins'[t])
    <3> SUFFICES ASSUME NEW t \in Stores
                 PROVE  Len(recent'[t]) <= Window /\ WellSince(recent'[t], wins'[t])
      OBVIOUS
    <3>1. CASE recent'[t] = kept[t]
      BY <1>6, <3>1
    <3>2. CASE recent'[t] = <<>>
      BY <1>a, <2>2, <3>2
    <3> QED BY <2>3, <3>1, <3>2
  <2> QED BY <1>4, <2>1, <2>3, <2>4 DEF Preferred
<1>8. CASE ~(Len(order) > MaxStores)
  <2>1. known' \in Seq(Stores) /\ Len(known') <= MaxStores /\ recent' = kept
    BY <1>a, <1>b, <1>3, <1>8
  <2> QED BY <1>4, <1>5, <1>6, <2>1 DEF Preferred
<1> QED BY <1>7, <1>8

LEMMA DriftsStart == SttInit => Drifts
<1> SUFFICES ASSUME SttInit PROVE Drifts
  OBVIOUS
<1>1. Preferred
  BY TranscriberAssumption DEF SttInit, Preferred, WellSince
<1>2. Received(NoTake)
  BY DEF Received, NoTake
<1> QED BY <1>1, <1>2 DEF SttInit, Drifts

LEMMA DriftsStep == Drifts /\ [SttNext]_sttVars => Drifts'
<1> SUFFICES ASSUME Drifts, [SttNext]_sttVars PROVE Drifts'
  OBVIOUS
<1>a. takes = [k \in Takes |-> takes[k]] /\ \A k \in Takes : Received(takes[k])
  BY DEF Drifts
<1>b. ASSUME NEW k \in Takes, NEW x, Received(x), takes' = [takes EXCEPT ![k] = x]
      PROVE  takes' = [q \in Takes |-> takes'[q]] /\ \A q \in Takes : Received(takes'[q])
  BY <1>a, <1>b
<1>c. ASSUME UNCHANGED <<recent, known, wins>> PROVE Preferred'
  BY <1>c DEF Drifts, Preferred
<1>d. ASSUME NEW k \in Takes, NEW said, Over(k, said)
      PROVE  takes' = [q \in Takes |-> takes'[q]] /\ \A q \in Takes : Received(takes'[q])
  <2> DEFINE st == IF said = "nothing" THEN "silent" ELSE "answered"
  <2>1. takes' = [takes EXCEPT ![k] = [NoTake EXCEPT !.step = st]]
    BY <1>d DEF Over
  <2>2. Received([NoTake EXCEPT !.step = st])
    <3>1. /\ {"step", "store"} \subseteq DOMAIN [NoTake EXCEPT !.step = st]
          /\ [NoTake EXCEPT !.step = st].step = st
      BY DEF NoTake
    <3>2. st \notin {"first", "relabelled"}
      BY DEF st
    <3> QED BY <3>1, <3>2 DEF Received
  <2> QED BY <1>b, <2>1, <2>2
<1>e. ASSUME NEW k \in Takes, NEW st, takes' = [takes EXCEPT ![k].step = st],
             takes[k].step \in {"first", "relabelled"}
      PROVE  takes' = [q \in Takes |-> takes'[q]] /\ \A q \in Takes : Received(takes'[q])
  <2>1. takes' = [takes EXCEPT ![k] = [takes[k] EXCEPT !.step = st]]
    BY <1>a, <1>e
  <2>2. Received([takes[k] EXCEPT !.step = st])
    BY <1>a, <1>e DEF Received
  <2> QED BY <1>b, <2>1, <2>2
<1>1. ASSUME NEW k \in Takes, NEW s \in Stores, NEW box, NEW presence, NEW language,
             Receive(k, s, box, presence, language)
      PROVE  Drifts'
  <2> DEFINE x == [step |-> "first", store |-> s, box |-> box, presence |-> presence,
                   language |-> language,
                   first |-> IF primaryFirst(s) THEN "primary" ELSE "acoustic"]
  <2>1. Received(x)
    BY DEF Received
  <2>2. Over(k, "nothing") \/ takes' = [takes EXCEPT ![k] = x]
    BY <1>1 DEF Receive
  <2> QED BY <1>1, <1>b, <1>c, <1>d, <2>1, <2>2 DEF Receive, Unjudged, Drifts
<1>2. ASSUME NEW k \in Takes, Relabel(k) \/ UploadFails(k) PROVE Drifts'
  BY <1>2, <1>c, <1>d, <1>e DEF Relabel, UploadFails, Unjudged, Drifts
<1>3. ASSUME NEW k \in Takes, NEW said, Discarded(k, said) \/ Empty(k, said) \/ Fallback(k, said)
      PROVE  Drifts'
  BY <1>3, <1>c, <1>d, <1>e DEF Discarded, Empty, Fallback, Unjudged, Drifts
<1>4. ASSUME NEW k \in Takes, NEW said, Mismatch(k, said) \/ Heard(k, said) PROVE Drifts'
  <2>1. takes[k].store \in Stores
    BY <1>4, <1>a DEF Mismatch, Heard, Received
  <2>2. record(takes[k].store, TRUE) \/ record(takes[k].store, FALSE)
    BY <1>4 DEF Mismatch, Heard
  <2>3. Preferred'
    BY <2>1, <2>2, PreferenceIsKept DEF Drifts
  <2>4. takes' = [q \in Takes |-> takes'[q]] /\ \A q \in Takes : Received(takes'[q])
    BY <1>4, <1>d, <1>e DEF Mismatch, Heard
  <2> QED BY <2>3, <2>4 DEF Drifts
<1>5. CASE UNCHANGED sttVars
  BY <1>5, <1>a, <1>c DEF sttVars, Drifts
<1> QED BY <1>1, <1>2, <1>3, <1>4, <1>5 DEF SttNext

(* A shop whose last turns were no mismatch is sent to the better provider  *)
(* first, for any window, trigger and number of shops and recordings.       *)
THEOREM ShopsDriftBack == SttSpec => []DriftsBack
<1>1. Drifts => DriftsBack
  <2> SUFFICES ASSUME Drifts, NEW s \in Stores, wins[s] >= Window PROVE primaryFirst(s)
    BY DEF Drifts, Preferred, DriftsBack
  <2>1. /\ recent[s] \in Seq(BOOLEAN) /\ Len(recent[s]) <= Window /\ WellSince(recent[s], wins[s])
        /\ wins[s] \in 0..Window /\ Window \in Nat \ {0} /\ Trigger \in 1..Window
    BY TranscriberAssumption DEF Drifts, Preferred
  <2>2. \A k \in 1..Len(recent[s]) : ~recent[s][k]
    BY <2>1 DEF WellSince
  <2> DEFINE bad == {k \in 1..Len(recent[s]) : recent[s][k]}
  <2>3. bad = {}
    BY <2>2
  <2>4. primaryFirst(s) <=> Cardinality(bad) < Trigger
    BY Zenon DEF primaryFirst
  <2> HIDE DEF bad
  <2>5. Cardinality(bad) = 0
    BY <2>3, FS_EmptySet
  <2> QED BY <2>1, <2>4, <2>5
<1> QED BY <1>1, DriftsStart, DriftsStep, PTL DEF SttSpec

-----------------------------------------------------------------------------
(* The products of a conversation.                                         *)

(* What is answered out of is what is remembered, the chips come from the  *)
(* products of the turn, and once those are saved from the memory.         *)
Promised ==
  /\ turn = [step |-> turn.step, message |-> turn.message, work |-> turn.work]
  /\ Len(memory) \in Nat /\ Len(turn.work) \in Nat
  /\ promise \in {"made", "kept", "broken"} /\ (promise = "made" => turn.step = "save")
  /\ turn.step \in {"page", "intent"} => turn.work = memory
  /\ turn.step = "save" /\ promise # "broken" => \A f \in chips : Narrows(turn.work, f)
  /\ promise = "kept" => \A f \in chips : Narrows(memory, f)

(* A filter leaves a list, and a relative one leaves it its length.        *)
LEMMA FilteredIsAList ==
  ASSUME NEW s, Len(s) \in Nat, NEW f
  PROVE  /\ Len(applyFilter(s, f)) \in Nat
         /\ f.by = "cheaper" => Len(applyFilter(s, f)) = Len(s)
<1> DEFINE Passes(p) ==
             CASE f.by = "colour" -> mentionsColour(p, f.colour)
               [] f.by = "under"  -> Priced(p) /\ Tag[p] <= f.minor
               [] f.by = "over"   -> Priced(p) /\ Tag[p] >= f.minor
               [] OTHER           -> TRUE
           places == {k \in 1..Len(s) : Passes(s[k])}
           out == Picked(s, places)
<1>1. applyFilter(s, f) = CASE f.by = "cheaper" -> Sorted(out, 1)
                            [] f.by = "dearer"  -> Sorted(out, -1)
                            [] OTHER            -> out
  BY Zenon DEF applyFilter
<1>2. f.by = "cheaper" => places = 1..Len(s)
  OBVIOUS
<1>3. places \subseteq 1..Len(s)
  OBVIOUS
<1> HIDE DEF places
<1>4. IsFiniteSet(1..Len(s)) /\ Cardinality(1..Len(s)) = Len(s)
  BY FS_Interval
<1>5. Cardinality(places) \in Nat
  BY <1>3, <1>4, FS_Subset, FS_CardinalityType
<1>6. Len(out) = Cardinality(places)
  BY <1>5 DEF Picked
<1> HIDE DEF out
<1>7. \A sign : Len(Sorted(out, sign)) = Len(out)
  BY <1>5, <1>6 DEF Sorted
<1> QED BY <1>1, <1>2, <1>4, <1>5, <1>6, <1>7

(* Tapping a chip changes what there is.                                   *)
LEMMA ChipsNarrow ==
  ASSUME NEW s, Len(s) \in Nat, NEW f \in suggestChips(s)
  PROVE  Narrows(s, f)
<1> DEFINE kept == applyFilter(s, f)
<1>1. Len(s) >= 2
  BY DEF suggestChips
<1>2. IF f.by = "cheaper" THEN kept # s ELSE Len(kept) \notin {0, Len(s)}
  BY <1>1 DEF suggestChips
<1>3. Len(kept) \in Nat /\ (f.by = "cheaper" => Len(kept) = Len(s))
  BY FilteredIsAList
<1>4. Len(<<>>) = 0
  OBVIOUS
<1> HIDE DEF kept
<1>5. s # <<>> /\ kept # <<>> /\ (f.by = "colour" => Len(kept) # Len(s))
  BY <1>1, <1>2, <1>3, <1>4
<1> QED BY <1>5 DEF Narrows, kept

LEMMA PromisedStart == ChatInit => Promised
BY DEF ChatInit, Promised, NoTurn

LEMMA PromisedStep == Promised /\ [ChatNext]_chatVars => Promised'
<1> SUFFICES ASSUME Promised, [ChatNext]_chatVars PROVE Promised'
  OBVIOUS
<1> USE DEF Promised
<1>0. NoTurn.step = "idle" /\ NoTurn = [step |-> NoTurn.step, message |-> NoTurn.message, work |-> NoTurn.work]
      /\ Len(NoTurn.work) \in Nat
  BY DEF NoTurn
<1>1. ASSUME NEW m, Send(m) PROVE Promised'
  <2>1. turn' = NoTurn \/ turn' = [step |-> "page", message |-> m, work |-> memory]
    BY <1>1 DEF Send
  <2> QED BY <1>0, <1>1, <2>1 DEF Send
<1>2. CASE AnswerPageFact \/ NoPageFact \/ AnswerCart
  BY <1>2 DEF AnswerPageFact, NoPageFact, AnswerCart
<1>3. CASE AnswerFilter
  <2> DEFINE kept == applyFilter(turn.work, turn.message)
  <2>1. chips' = suggestChips(kept) /\ turn' = [turn EXCEPT !.step = "save", !.work = kept]
        /\ promise' = "made" /\ memory' = memory
    BY <1>3 DEF AnswerFilter
  <2>2. Len(kept) \in Nat
    BY FilteredIsAList
  <2>3. \A f \in chips' : Narrows(kept, f)
    BY <2>1, <2>2, ChipsNarrow
  <2> HIDE DEF kept
  <2> QED BY <2>1, <2>2, <2>3
<1>4. CASE AskModel
  BY <1>4 DEF AskModel
<1>5. ASSUME NEW found, EarlyCards(found) PROVE Promised'
  BY <1>5 DEF EarlyCards
<1>6. ASSUME NEW shown \in Lists, ModelAnswers(shown) PROVE Promised'
  <2> DEFINE m == IF Len(shown) < MaxVisible THEN Len(shown) ELSE MaxVisible
             kept == SubSeq(shown, 1, m)
  <2>1. chips' = suggestChips(kept) /\ turn' = [turn EXCEPT !.step = "save", !.work = kept]
        /\ promise' = "made" /\ memory' = memory
    BY <1>6 DEF ModelAnswers, Reconcile
  <2>2. Len(kept) \in Nat
    <3>1. PICK n \in 0..Cardinality(Goods) : shown \in [1..n -> Goods]
      BY DEF Lists, Answers
    <3>2. n \in Nat
      BY <3>1, ChatAssumption, FS_CardinalityType
    <3>3. shown \in Seq(Goods) /\ Len(shown) \in Nat
      BY <3>1, <3>2
    <3>4. m \in 0..Len(shown)
      BY <3>3, ChatAssumption
    <3> HIDE DEF m
    <3>5. Len(SubSeq(shown, 1, m)) = m
      BY <3>3, <3>4, SubSeqProperties
    <3> QED BY <3>4, <3>5, <3>3
  <2>3. \A f \in chips' : Narrows(kept, f)
    BY <2>1, <2>2, ChipsNarrow
  <2> HIDE DEF kept
  <2> QED BY <2>1, <2>2, <2>3
<1>7. CASE ModelThrows
  BY <1>0, <1>7 DEF ModelThrows
<1>8. CASE SaveSession \/ SaveFails
  BY <1>0, <1>8 DEF SaveSession, SaveFails
<1>9. CASE SessionExpires
  BY <1>9 DEF SessionExpires
<1>10. ASSUME NEW p, Browse(p) PROVE Promised'
  BY <1>10 DEF Browse
<1>11. CASE UNCHANGED chatVars
  BY <1>11 DEF chatVars
<1> QED BY <1>1, <1>2, <1>3, <1>4, <1>5, <1>6, <1>7, <1>8, <1>9, <1>10, <1>11 DEF ChatNext

-----------------------------------------------------------------------------
(* What a shopper has told.                                                *)

Active(q) == requests[q].step # "none"

(* A request that is under way has an object of the process; one that is   *)
(* not has nothing.                                                        *)
RequestForm(r) ==
  /\ DOMAIN r = {"step", "object", "heard", "told", "due", "alone"}
  /\ r = NoRequest \/ (r.step \in {"lane", "model", "adding"} /\ r.object \in Object)
  /\ r.alone \in BOOLEAN
  /\ DOMAIN r.heard \subseteq PreferenceFields /\ DOMAIN r.due \subseteq PreferenceFields

SessionForm ==
  /\ store \in {"sqlite", "memory"}
  /\ stored = [object |-> stored.object, preferences |-> stored.preferences, idle |-> stored.idle]
  /\ stored.idle \in Nat
  /\ requests = [q \in Requests |-> requests[q]] /\ \A q \in Requests : RequestForm(requests[q])
  /\ objects = [o \in Object |-> objects[o]]
  /\ DOMAIN owed \subseteq PreferenceFields

(* A request that is alone has been so since it began.                     *)
Undisturbed ==
  \A q \in Requests : Active(q) /\ requests[q].alone =>
    /\ \A p \in Requests \ {q} : ~Active(p)
    /\ owed \in {requests[q].due, Nobody}

(* What a request works on holds what it was owed and what it heard, and so *)
(* does what the model was told.                                            *)
Informed ==
  \A q \in Requests : Active(q) /\ (requests[q].alone \/ store = "sqlite") =>
    LET settled == mergePreferences(requests[q].due, requests[q].heard)
    IN  /\ Holds(objects[requests[q].object], settled)
        /\ requests[q].step = "model" => Holds(requests[q].told, settled)

(* The row holds what is owed, and no request has its object from another. *)
RowIsLevel ==
  store = "sqlite" =>
    /\ stored.object = 0 /\ Holds(stored.preferences, owed)
    /\ \A p, q \in Requests :
         p # q /\ Active(p) /\ Active(q) => requests[p].object # requests[q].object

(* The object holds what is owed when nobody works on it, and while        *)
(* anything is owed everybody who does works on that object.               *)
ObjectIsLevel ==
  store = "memory" =>
    /\ stored.object \in Object \/ (stored = NoSession /\ owed = Nobody)
    /\ owed # Nobody => \A q \in Requests : Active(q) => requests[q].object = stored.object
    /\ (\A q \in Requests : ~Active(q)) =>
         owed = Nobody \/ Holds(objects[stored.object], owed)

Remembered ==
  /\ SessionForm /\ Undisturbed /\ Informed /\ RowIsLevel /\ ObjectIsLevel
  /\ stored.idle > MaxIdle => owed = Nobody

LEMMA Merging ==
  ASSUME NEW a, NEW b, NEW h
  PROVE  /\ DOMAIN mergePreferences(a, h) = DOMAIN a \cup DOMAIN h
         /\ Holds(a, b) => Holds(mergePreferences(a, h), mergePreferences(b, h))
         /\ Holds(a, mergePreferences(b, h)) => Holds(a, mergePreferences(Nobody, h))
<1>1. \A x : DOMAIN mergePreferences(x, h) = DOMAIN x \cup DOMAIN h
  BY DEF mergePreferences
<1>2. \A x, f : f \in DOMAIN x \cup DOMAIN h =>
        mergePreferences(x, h)[f] = IF f \in DOMAIN h THEN h[f] ELSE x[f]
  BY DEF mergePreferences
<1>3. DOMAIN Nobody = {}
  BY DEF Nobody
<1>4. ASSUME Holds(a, b) PROVE Holds(mergePreferences(a, h), mergePreferences(b, h))
  BY <1>1, <1>2, <1>4 DEF Holds
<1>5. ASSUME Holds(a, mergePreferences(b, h)) PROVE Holds(a, mergePreferences(Nobody, h))
  <2>1. \A f \in DOMAIN h : f \in DOMAIN a /\ a[f] = h[f]
    BY <1>1, <1>2, <1>5 DEF Holds
  <2> QED BY <1>1, <1>2, <1>3, <2>1 DEF Holds
<1> QED BY <1>1, <1>4, <1>5

LEMMA ReadBack ==
  ASSUME NEW a, NEW b, Holds(a, b), DOMAIN b \subseteq PreferenceFields
  PROVE  Holds(renderPreferences(a), b) /\ Holds(readPreferences(a), b)
BY DEF Holds, renderPreferences, readPreferences

LEMMA NothingIsHeld == DOMAIN Nobody = {} /\ \A a : Holds(a, Nobody)
BY DEF Nobody, Holds

LEMMA StatedFields ==
  ASSUME NEW u
  PROVE  DOMAIN extractPreferences(u) \subseteq PreferenceFields
<1> DEFINE size == IF u.asksStock \/ u.size \notin DOMAIN SizeWords THEN Nobody
                   ELSE [size |-> SizeWords[u.size]]
           budget == IF u.limit > 0 THEN [budgetMaxMinor |-> 100 * u.limit] ELSE Nobody
           liked == IF ~u.likes THEN Nobody ELSE FirstMentioned("colour", Colours, u.colours)
           colour == [f \in DOMAIN liked |-> Recorded(liked[f])]
           occasion == FirstMentioned("occasion", Occasions, u.occasions)
<1>1. DOMAIN size \subseteq {"size"} /\ DOMAIN budget \subseteq {"budgetMaxMinor"}
  BY NothingIsHeld
<1>2. \A field, list, m : DOMAIN FirstMentioned(field, list, m) \subseteq {field}
  BY NothingIsHeld DEF FirstMentioned
<1>3. DOMAIN colour \subseteq {"colour"} /\ DOMAIN occasion \subseteq {"occasion"}
  BY <1>2, NothingIsHeld
<1>4. extractPreferences(u)
        = mergePreferences(mergePreferences(size, budget), mergePreferences(colour, occasion))
  BY DEF extractPreferences
<1> HIDE DEF size, budget, colour, occasion
<1>5. /\ DOMAIN mergePreferences(size, budget) = DOMAIN size \cup DOMAIN budget
      /\ DOMAIN mergePreferences(colour, occasion) = DOMAIN colour \cup DOMAIN occasion
  BY Merging
<1>6. DOMAIN extractPreferences(u) = DOMAIN mergePreferences(size, budget)
                                       \cup DOMAIN mergePreferences(colour, occasion)
  BY <1>4, Merging
<1> QED BY <1>1, <1>3, <1>5, <1>6 DEF PreferenceFields

(* There is an object for every request and one for the store.             *)
LEMMA RoomForOne ==
  ASSUME SessionForm, NEW q \in Requests, requests[q] = NoRequest
  PROVE  NewObject \in Object /\ ~InUse(NewObject)
<1> DEFINE g == [p \in Requests |-> IF p = q THEN stored.object ELSE requests[p].object]
           used == {g[p] : p \in Requests}
           n == Cardinality(Requests)
<1>1. IsFiniteSet(Requests) /\ n \in Nat
  BY SessionAssumption, FS_CardinalityType
<1>2. IsFiniteSet(used) /\ Cardinality(used) <= n
  <2>1. g \in Surjection(Requests, used)
    BY DEF Surjection, Range
  <2> HIDE DEF g, used
  <2> QED BY <1>1, <2>1, FS_Surjection
<1>3. IsFiniteSet(Object) /\ Cardinality(Object) = n + 1
  <2> HIDE DEF n
  <2>1. IsFiniteSet(1..n + 1) /\ Cardinality(1..n + 1) = n + 1
    BY <1>1, FS_Interval
  <2> QED BY <2>1 DEF Object, n
<1>4. Cardinality(used) \in Nat
  BY <1>2, FS_CardinalityType
<1>5. PICK o \in Object : o \notin used
  <2> HIDE DEF used, n
  <2>1. CASE Object \subseteq used
    BY <1>1, <1>2, <1>3, <1>4, <2>1, FS_Subset
  <2> QED BY <2>1
<1>6. requests[q].object = 0 /\ 0 \notin Object
  BY <1>1 DEF NoRequest, Object
<1>7. ~InUse(o)
  BY <1>5, <1>6 DEF InUse
<1> QED BY <1>5, <1>7 DEF NewObject

LEMMA BeginIsRemembered ==
  ASSUME Remembered, NEW q \in Requests, NEW step \in {"lane", "adding"}, NEW heard,
         DOMAIN heard \subseteq PreferenceFields, Begin(q, step, heard)
  PROVE  Remembered'
<1> DEFINE o == Taken.object
           prefs == Taken.preferences
           others == {p \in Requests : requests[p] # NoRequest}
           settled == mergePreferences(owed, heard)
<1>a. /\ SessionForm /\ Undisturbed /\ Informed /\ RowIsLevel /\ ObjectIsLevel
      /\ stored.idle > MaxIdle => owed = Nobody
  BY DEF Remembered
<1>b. /\ NoRequest.step = "none" /\ NoRequest.object = 0 /\ NoRequest.alone = FALSE
      /\ NoSession.object = 0 /\ NoSession.preferences = Nobody /\ NoSession.idle = 0
  BY DEF NoRequest, NoSession
<1>c. /\ \A p \in Requests : RequestForm(requests[p])
      /\ \A p \in Requests : Active(p) <=> p \in others
  BY <1>a, <1>b DEF SessionForm, RequestForm, Active
<1>1. NewObject \in Object /\ ~InUse(NewObject)
  BY <1>a, RoomForOne DEF Begin
<1>2. /\ store = "sqlite" => o = NewObject /\ Holds(prefs, owed)
      /\ store = "memory" => \/ o = NewObject /\ owed = Nobody
                             \/ o = stored.object /\ o \in Object /\ prefs = objects[o]
                                /\ stored.idle <= MaxIdle
  <2>1. CASE stored = NoSession \/ stored.idle > MaxIdle
    <3>1. Taken = [object |-> NewObject, preferences |-> Nobody]
      BY <2>1 DEF Taken
    <3>2. store = "memory" => owed = Nobody
      BY <1>a, <1>b, <2>1 DEF ObjectIsLevel, Object
    <3>3. store = "sqlite" => Holds(Nobody, owed)
      BY <1>a, <1>b, <2>1, NothingIsHeld DEF RowIsLevel
    <3> QED BY <3>1, <3>2, <3>3
  <2>2. CASE stored # NoSession /\ ~(stored.idle > MaxIdle)
    <3>1. CASE store = "memory"
      <4>1. o = stored.object /\ prefs = objects[stored.object]
        BY <2>2, <3>1 DEF Taken
      <4> QED BY <1>a, <2>2, <3>1, <4>1, SessionAssumption DEF ObjectIsLevel, SessionForm
    <3>2. CASE store = "sqlite"
      <4>1. o = NewObject /\ prefs = readPreferences(stored.preferences)
        BY <2>2, <3>2 DEF Taken
      <4>2. Holds(stored.preferences, owed) /\ DOMAIN owed \subseteq PreferenceFields
        BY <1>a, <3>2 DEF RowIsLevel, SessionForm
      <4> QED BY <3>2, <4>1, <4>2, ReadBack
    <3> QED BY <1>a, <3>1, <3>2 DEF SessionForm
  <2> QED BY <2>1, <2>2
<1> HIDE DEF o, prefs
<1> DEFINE first == others = {}
<1>3. others = {} \/ store = "sqlite" => Holds(prefs, owed)
  BY <1>2, <1>a, <1>c, NothingIsHeld DEF ObjectIsLevel, SessionForm
<1>4. o \in Object
  BY <1>1, <1>2, <1>a DEF SessionForm
<1>5. /\ requests[q] = NoRequest /\ q \notin others
      /\ stored' = IF stored.idle > MaxIdle THEN NoSession ELSE stored
      /\ objects' = [objects EXCEPT ![o] = mergePreferences(prefs, heard)]
      /\ requests' = [p \in Requests |->
           IF p = q THEN [step |-> step, object |-> o, heard |-> heard,
                          told |-> Nobody, due |-> owed, alone |-> others = {}]
           ELSE IF p \in others THEN [requests[p] EXCEPT !.alone = FALSE] ELSE requests[p]]
      /\ store' = store /\ owed' = owed
  BY DEF Begin, o, prefs
<1>6. /\ requests'[q].step = step /\ requests'[q].object = o /\ requests'[q].heard = heard
      /\ requests'[q].due = owed /\ (requests'[q].alone <=> others = {})
      /\ RequestForm(requests'[q])
  <2>1. requests'[q] = [step |-> step, object |-> o, heard |-> heard,
                        told |-> Nobody, due |-> owed, alone |-> first]
    BY <1>5
  <2>0. first \in BOOLEAN /\ (first <=> others = {})
    OBVIOUS
  <2> HIDE DEF others, first
  <2>2. DOMAIN owed \subseteq PreferenceFields
    BY <1>a DEF SessionForm
  <2>3. RequestForm(requests'[q])
    BY <1>4, <2>0, <2>1, <2>2 DEF RequestForm
  <2>4. requests'[q].alone = first
    BY <2>1
  <2> QED BY <2>0, <2>1, <2>3, <2>4
<1>7. ASSUME NEW p \in Requests \ {q}
      PROVE  /\ requests'[p].step = requests[p].step /\ requests'[p].object = requests[p].object
             /\ requests'[p].heard = requests[p].heard /\ requests'[p].due = requests[p].due
             /\ requests'[p].told = requests[p].told /\ ~requests'[p].alone
             /\ RequestForm(requests'[p])
  <2>1. CASE p \in others
    <3>1. requests'[p] = [requests[p] EXCEPT !.alone = FALSE]
      BY <1>5, <2>1
    <3>2. RequestForm(requests[p]) /\ requests[p] # NoRequest
      BY <1>c, <2>1
    <3> QED BY <3>1, <3>2 DEF RequestForm
  <2>2. CASE p \notin others
    <3>1. requests'[p] = requests[p] /\ requests[p] = NoRequest
      BY <1>5, <2>2
    <3> QED BY <1>b, <1>c, <3>1
  <2> QED BY <2>1, <2>2
<1>8. \A x \in Object : objects'[x] = IF x = o THEN mergePreferences(prefs, heard) ELSE objects[x]
  BY <1>4, <1>5, <1>a DEF SessionForm
<1>9. \A p \in Requests : Active(p)' <=> p \in others \cup {q}
  <2>1. Active(q)'
    BY <1>6 DEF Active
  <2>2. ASSUME NEW p \in Requests \ {q} PROVE Active(p)' <=> p \in others
    BY <1>7, <1>c, <2>2 DEF Active
  <2> QED BY <2>1, <2>2
<1>10. SessionForm'
  <2>1. requests' = [p \in Requests |-> requests'[p]] /\ \A p \in Requests : RequestForm(requests'[p])
    BY <1>5, <1>6, <1>7
  <2>2. objects' = [x \in Object |-> objects'[x]]
    BY <1>5, <1>a DEF SessionForm
  <2>3. /\ stored' = [object |-> stored'.object, preferences |-> stored'.preferences, idle |-> stored'.idle]
        /\ stored'.idle \in Nat
    BY <1>5, <1>a DEF SessionForm, NoSession
  <2> QED BY <1>5, <1>a, <2>1, <2>2, <2>3 DEF SessionForm
<1>11. Undisturbed'
  <2> SUFFICES ASSUME NEW p \in Requests, Active(p)', requests'[p].alone
               PROVE  /\ \A r \in Requests \ {p} : ~Active(r)'
                      /\ owed' \in {requests'[p].due, Nobody}
    BY DEF Undisturbed
  <2>1. p = q /\ others = {}
    BY <1>6, <1>7
  <2> QED BY <1>5, <1>6, <1>9, <2>1
<1>12. Informed'
  <2> SUFFICES ASSUME NEW p \in Requests, Active(p)', requests'[p].alone \/ store' = "sqlite"
               PROVE  /\ Holds(objects'[requests'[p].object],
                               mergePreferences(requests'[p].due, requests'[p].heard))
                      /\ requests'[p].step = "model" =>
                           Holds(requests'[p].told,
                                 mergePreferences(requests'[p].due, requests'[p].heard))
    BY DEF Informed
  <2>1. CASE p = q
    <3>1. Holds(prefs, owed) /\ step # "model"
      BY <1>3, <1>5, <1>6, <2>1
    <3>2. Holds(mergePreferences(prefs, heard), mergePreferences(owed, heard))
      BY <3>1, Merging
    <3> QED BY <1>4, <1>6, <1>8, <2>1, <3>1, <3>2
  <2>2. CASE p # q
    <3>1. store = "sqlite" /\ Active(p) /\ p \in Requests \ {q} /\ requests[p].object \in Object
      BY <1>5, <1>7, <1>9, <1>b, <1>c, <2>2 DEF RequestForm
    <3>2. requests[p].object # o
      BY <1>1, <1>2, <3>1 DEF InUse
    <3>3. objects'[requests'[p].object] = objects[requests[p].object]
      BY <1>7, <1>8, <3>1, <3>2
    <3> QED BY <1>7, <1>a, <3>1, <3>3 DEF Informed
  <2> QED BY <2>1, <2>2
<1>13. RowIsLevel'
  <2> SUFFICES ASSUME store = "sqlite" PROVE RowIsLevel'
    BY <1>5 DEF RowIsLevel
  <2>1. stored'.object = 0 /\ Holds(stored'.preferences, owed')
    BY <1>5, <1>a, <1>b, NothingIsHeld DEF RowIsLevel
  <2>2. o = NewObject
    BY <1>2
  <2>3. ASSUME NEW p \in Requests, NEW r \in Requests, p # r, Active(p)', Active(r)'
        PROVE  requests'[p].object # requests'[r].object
    <3>1. CASE p = q
      BY <1>1, <1>6, <1>7, <2>2, <2>3, <3>1 DEF InUse
    <3>2. CASE r = q
      BY <1>1, <1>6, <1>7, <2>2, <2>3, <3>2 DEF InUse
    <3>3. CASE p # q /\ r # q
      BY <1>7, <1>9, <1>a, <1>c, <2>3, <3>3 DEF RowIsLevel
    <3> QED BY <3>1, <3>2, <3>3
  <2> QED BY <2>1, <2>3 DEF RowIsLevel
<1>14. ObjectIsLevel'
  <2> SUFFICES ASSUME store = "memory" PROVE ObjectIsLevel'
    BY <1>5 DEF ObjectIsLevel
  <2>1. (stored'.object \in Object) \/ (stored' = NoSession /\ owed' = Nobody)
    BY <1>5, <1>a DEF ObjectIsLevel
  <2>2. ASSUME owed # Nobody, NEW p \in Requests, Active(p)'
        PROVE  requests'[p].object = stored'.object
    <3>1. stored' = stored /\ o = stored.object
      BY <1>2, <1>5, <1>a, <2>2
    <3>2. p # q => Active(p) /\ requests'[p].object = requests[p].object
      BY <1>7, <1>9, <1>c, <2>2
    <3> QED BY <1>6, <1>a, <2>2, <3>1, <3>2 DEF ObjectIsLevel
  <2>3. ~\A p \in Requests : ~Active(p)'
    BY <1>9
  <2> QED BY <1>5, <2>1, <2>2, <2>3 DEF ObjectIsLevel
<1>15. stored'.idle > MaxIdle => owed' = Nobody
  BY <1>5, <1>a, <1>b
<1> QED BY <1>10, <1>11, <1>12, <1>13, <1>14, <1>15 DEF Remembered

(* The request is over; what the store and the history say of it goes for  *)
(* whoever is still there.                                                 *)
LEMMA EndIsRemembered ==
  ASSUME Remembered, NEW q \in Requests, Active(q), End(q), store' = store, objects' = objects,
         stored' = [object |-> stored'.object, preferences |-> stored'.preferences,
                    idle |-> stored'.idle],
         stored'.idle \in Nat, DOMAIN owed' \subseteq PreferenceFields,
         store = "sqlite" => stored'.object = 0 /\ Holds(stored'.preferences, owed'),
         store = "memory" => (stored'.object \in Object) \/ (stored' = NoSession /\ owed' = Nobody),
         store = "memory" /\ ~requests[q].alone =>
           (stored'.object = stored.object /\ owed' = owed /\ requests[q].object # stored.object)
             \/ owed' = Nobody,
         requests[q].alone /\ store = "memory" =>
           owed' = Nobody \/ Holds(objects[stored'.object], owed'),
         requests[q].alone \/ owed' \in {owed, Nobody},
         stored'.idle > MaxIdle => owed' = Nobody
  PROVE  Remembered'
<1>a. /\ SessionForm /\ Undisturbed /\ Informed /\ RowIsLevel /\ ObjectIsLevel
      /\ stored.idle > MaxIdle => owed = Nobody
  BY DEF Remembered
<1>b. NoRequest.step = "none" /\ RequestForm(NoRequest)
  BY NothingIsHeld DEF NoRequest, RequestForm
<1>1. /\ requests' = [p \in Requests |-> requests'[p]] /\ requests'[q] = NoRequest
      /\ \A p \in Requests \ {q} : requests'[p] = requests[p]
  BY <1>a DEF End, SessionForm
<1>2. ~Active(q)' /\ \A p \in Requests \ {q} : Active(p)' <=> Active(p)
  BY <1>1, <1>b DEF Active
<1>3. SessionForm'
  BY <1>1, <1>a, <1>b DEF SessionForm
<1>4. Undisturbed'
  <2> SUFFICES ASSUME NEW p \in Requests, Active(p)', requests'[p].alone
               PROVE  /\ \A r \in Requests \ {p} : ~Active(r)'
                      /\ owed' \in {requests'[p].due, Nobody}
    BY DEF Undisturbed
  <2>1. p # q /\ Active(p) /\ requests[p].alone
    BY <1>1, <1>2
  <2>2. FALSE
    BY <1>a, <2>1 DEF Undisturbed
  <2> QED BY <2>2
<1>5. Informed'
  BY <1>1, <1>2, <1>a DEF Informed
<1>6. RowIsLevel'
  BY <1>1, <1>2, <1>a DEF RowIsLevel
<1>7. ObjectIsLevel'
  <2> SUFFICES ASSUME store = "memory" PROVE ObjectIsLevel'
    BY DEF ObjectIsLevel
  <2>1. ASSUME owed' # Nobody, NEW p \in Requests, Active(p)'
        PROVE  requests'[p].object = stored'.object
    <3>1. p # q /\ Active(p) /\ requests'[p] = requests[p]
      BY <1>1, <1>2, <2>1
    <3>2. ~requests[q].alone
      BY <1>a, <3>1 DEF Undisturbed
    <3> QED BY <1>a, <2>1, <3>1, <3>2 DEF ObjectIsLevel
  <2>2. ASSUME \A p \in Requests : ~Active(p)'
        PROVE  owed' = Nobody \/ Holds(objects[stored'.object], owed')
    <3>1. CASE requests[q].alone
      BY <3>1
    <3>2. CASE ~requests[q].alone
      BY <1>a, <3>2 DEF ObjectIsLevel
    <3> QED BY <3>1, <3>2
  <2> QED BY <2>1, <2>2 DEF ObjectIsLevel
<1> QED BY <1>3, <1>4, <1>5, <1>6, <1>7 DEF Remembered

LEMMA RememberedStart == SessionInit => Remembered
<1> SUFFICES ASSUME SessionInit PROVE Remembered
  OBVIOUS
<1>1. NoRequest.step = "none" /\ RequestForm(NoRequest)
  BY NothingIsHeld DEF NoRequest, RequestForm
<1>2. /\ NoSession = [object |-> NoSession.object, preferences |-> NoSession.preferences,
                      idle |-> NoSession.idle]
      /\ NoSession.object = 0 /\ NoSession.idle = 0 /\ NoSession.preferences = Nobody
  BY DEF NoSession
<1>3. \A q \in Requests : ~Active(q)
  BY <1>1 DEF SessionInit, Active
<1>4. SessionForm
  BY <1>1, <1>2, NothingIsHeld DEF SessionInit, SessionForm
<1>5. Undisturbed /\ Informed
  BY <1>3 DEF Undisturbed, Informed
<1>6. RowIsLevel /\ ObjectIsLevel
  BY <1>2, <1>3, NothingIsHeld DEF SessionInit, RowIsLevel, ObjectIsLevel
<1> QED BY <1>2, <1>4, <1>5, <1>6 DEF SessionInit, Remembered

LEMMA RememberedStep == Remembered /\ [SessionNext]_sessionVars => Remembered'
<1> SUFFICES ASSUME Remembered, [SessionNext]_sessionVars PROVE Remembered'
  OBVIOUS
<1>a. /\ SessionForm /\ Undisturbed /\ Informed /\ RowIsLevel /\ ObjectIsLevel
      /\ stored.idle > MaxIdle => owed = Nobody
  BY DEF Remembered
<1>b. /\ NoRequest.step = "none" /\ RequestForm(NoRequest)
      /\ NoSession.object = 0 /\ NoSession.preferences = Nobody /\ NoSession.idle = 0
  BY NothingIsHeld DEF NoRequest, NoSession, RequestForm
(* What is known once the request has been answered is in its object.      *)
<1>c. ASSUME NEW q \in Requests, Active(q), requests[q].alone
      PROVE  Holds(objects[requests[q].object], mergePreferences(owed, requests[q].heard))
  <2>1. Holds(objects[requests[q].object], mergePreferences(requests[q].due, requests[q].heard))
    BY <1>a, <1>c DEF Informed
  <2>2. owed = requests[q].due \/ owed = Nobody
    BY <1>a, <1>c DEF Undisturbed
  <2> QED BY <2>1, <2>2, Merging
<1>d. \A q \in Requests : DOMAIN mergePreferences(owed, requests[q].heard) \subseteq PreferenceFields
  <2>1. \A h : DOMAIN mergePreferences(owed, h) = DOMAIN owed \cup DOMAIN h
    BY Merging
  <2> QED BY <1>a, <2>1 DEF SessionForm, RequestForm
<1>1. ASSUME NEW q \in Requests, NEW u, Say(q, u) PROVE Remembered'
  BY <1>1, StatedFields, BeginIsRemembered DEF Say
<1>2. ASSUME NEW q \in Requests, Tap(q) PROVE Remembered'
  BY <1>2, NothingIsHeld, BeginIsRemembered DEF Tap
<1>3. ASSUME NEW q \in Requests, Close(q) PROVE Remembered'
  <2>1. Active(q) /\ requests[q].object \in Object
    BY <1>3, <1>a, <1>b DEF Close, Active, SessionForm, RequestForm
  <2>2. /\ stored' = [object |-> IF store = "memory" THEN requests[q].object ELSE 0,
                      preferences |-> IF store = "memory" THEN Nobody
                                      ELSE objects[requests[q].object],
                      idle |-> 0]
        /\ owed' = IF requests[q].alone THEN mergePreferences(owed, requests[q].heard) ELSE Nobody
        /\ End(q) /\ store' = store /\ objects' = objects
    BY <1>3 DEF Close, Put
  <2>3. /\ stored' = [object |-> stored'.object, preferences |-> stored'.preferences,
                      idle |-> stored'.idle]
        /\ stored'.idle = 0
        /\ store = "memory" => stored'.object = requests[q].object
        /\ store = "sqlite" => /\ stored'.object = 0
                               /\ stored'.preferences = objects[requests[q].object]
    BY <2>2
  <2>4. DOMAIN owed' \subseteq PreferenceFields
    BY <1>d, <2>2, NothingIsHeld
  <2>5. requests[q].alone => Holds(objects[requests[q].object], owed')
    BY <1>c, <2>1, <2>2
  <2>6. ~requests[q].alone => owed' = Nobody
    BY <2>2
  <2>7. ~(stored'.idle > MaxIdle)
    BY <2>3, SessionAssumption
  <2> QED BY <2>1, <2>2, <2>3, <2>4, <2>5, <2>6, <2>7, NothingIsHeld, EndIsRemembered
<1>4. ASSUME NEW q \in Requests, TellPreferences(q) PROVE Remembered'
  <2> DEFINE told == renderPreferences(objects[requests[q].object])
             r == [requests[q] EXCEPT !.step = "model", !.told = told]
  <2>1. /\ requests[q].step = "lane" /\ requests' = [requests EXCEPT ![q] = r]
        /\ store' = store /\ stored' = stored /\ objects' = objects /\ owed' = owed
    BY <1>4, <1>a DEF TellPreferences, SessionForm
  <2>2. RequestForm(requests[q]) /\ requests[q] # NoRequest
    BY <1>a, <1>b, <2>1 DEF SessionForm
  <2>3. /\ RequestForm(r) /\ r.step = "model" /\ r.told = told /\ r.object = requests[q].object
        /\ r.heard = requests[q].heard /\ r.due = requests[q].due
        /\ (r.alone <=> requests[q].alone)
    BY <2>2 DEF RequestForm
  <2> HIDE DEF told, r
  <2>4. /\ requests' = [p \in Requests |-> requests'[p]] /\ requests'[q] = r
        /\ \A p \in Requests \ {q} : requests'[p] = requests[p]
    BY <1>a, <2>1 DEF SessionForm
  <2>5. \A p \in Requests : Active(p)' <=> Active(p)
    BY <2>1, <2>3, <2>4 DEF Active
  <2>6. SessionForm'
    BY <1>a, <2>1, <2>3, <2>4 DEF SessionForm
  <2>7. Undisturbed'
    BY <1>a, <2>1, <2>3, <2>4, <2>5 DEF Undisturbed
  <2>8. Informed'
    <3> SUFFICES ASSUME NEW p \in Requests, Active(p)', requests'[p].alone \/ store = "sqlite"
                 PROVE  /\ Holds(objects[requests'[p].object],
                                 mergePreferences(requests'[p].due, requests'[p].heard))
                        /\ requests'[p].step = "model" =>
                             Holds(requests'[p].told,
                                   mergePreferences(requests'[p].due, requests'[p].heard))
      BY <2>1 DEF Informed
    <3>1. CASE p # q
      BY <1>a, <2>4, <2>5, <3>1 DEF Informed
    <3>2. CASE p = q
      <4> DEFINE settled == mergePreferences(requests[q].due, requests[q].heard)
      <4>1. Holds(objects[requests[q].object], settled)
        BY <1>a, <2>3, <2>4, <2>5, <3>2 DEF Informed
      <4>2. DOMAIN settled \subseteq PreferenceFields
        <5>1. DOMAIN settled = DOMAIN requests[q].due \cup DOMAIN requests[q].heard
          BY Merging
        <5> QED BY <1>a, <5>1 DEF SessionForm, RequestForm
      <4> HIDE DEF settled
      <4>3. Holds(told, settled)
        BY <4>1, <4>2, ReadBack DEF told
      <4> QED BY <2>3, <2>4, <3>2, <4>1, <4>3 DEF settled
    <3> QED BY <3>1, <3>2
  <2>9. RowIsLevel'
    BY <1>a, <2>1, <2>3, <2>4, <2>5 DEF RowIsLevel
  <2>10. ObjectIsLevel'
    BY <1>a, <2>1, <2>3, <2>4, <2>5 DEF ObjectIsLevel
  <2> QED BY <1>a, <2>1, <2>6, <2>7, <2>8, <2>9, <2>10 DEF Remembered
<1>5. ASSUME NEW q \in Requests, GiveUp(q) PROVE Remembered'
  <2>1. /\ requests[q] # NoRequest /\ End(q) /\ store' = store /\ stored' = stored
        /\ objects' = objects
        /\ owed' = IF requests[q].object # stored.object \/ stored.idle > MaxIdle THEN owed
                   ELSE IF requests[q].alone THEN mergePreferences(owed, requests[q].heard)
                   ELSE Nobody
    BY <1>5 DEF GiveUp
  <2>2. Active(q) /\ requests[q].object \in Object /\ 0 \notin Object
    BY <1>a, <1>b, <2>1 DEF Active, SessionForm, RequestForm, Object
  <2>3. stored.idle \in Nat /\ store \in {"sqlite", "memory"}
        /\ stored = [object |-> stored.object, preferences |-> stored.preferences, idle |-> stored.idle]
    BY <1>a DEF SessionForm
  <2>4. DOMAIN owed' \subseteq PreferenceFields
    BY <1>a, <1>d, <2>1, NothingIsHeld DEF SessionForm
  <2>5. store = "sqlite" => stored.object = 0 /\ Holds(stored.preferences, owed) /\ owed' = owed
    BY <1>a, <2>1, <2>2 DEF RowIsLevel
  <2>6. store = "memory" => (stored.object \in Object) \/ (stored = NoSession /\ owed' = Nobody)
    BY <1>a, <1>b, <2>1, <2>2 DEF ObjectIsLevel
  <2>7. \/ requests[q].alone
        \/ owed' = owed /\ requests[q].object # stored.object
        \/ owed' = Nobody
    BY <1>a, <2>1
  <2>8. ASSUME requests[q].alone, store = "memory"
        PROVE  owed' = Nobody \/ Holds(objects[stored.object], owed')
    <3>1. CASE requests[q].object # stored.object
      BY <1>a, <2>1, <2>2, <2>8, <3>1 DEF ObjectIsLevel
    <3>2. CASE stored.idle > MaxIdle
      BY <1>a, <2>1, <3>2
    <3>3. CASE requests[q].object = stored.object /\ ~(stored.idle > MaxIdle)
      BY <1>c, <2>1, <2>2, <2>8, <3>3
    <3> QED BY <3>1, <3>2, <3>3
  <2>9. stored.idle > MaxIdle => owed' = Nobody
    BY <1>a, <2>1
  <2> QED BY <2>1, <2>2, <2>3, <2>4, <2>5, <2>6, <2>7, <2>8, <2>9, EndIsRemembered
<1>6. CASE Idles
  <2>1. /\ stored # NoSession /\ stored' = [stored EXCEPT !.idle = stored.idle + 1]
        /\ owed' = owed \/ owed' = Nobody
        /\ stored'.idle > MaxIdle => owed' = Nobody
        /\ store' = store /\ objects' = objects /\ requests' = requests
    BY <1>6 DEF Idles
  <2>2. /\ stored'.object = stored.object /\ stored'.preferences = stored.preferences
        /\ stored'.idle = stored.idle + 1
        /\ stored' = [object |-> stored.object, preferences |-> stored.preferences,
                      idle |-> stored.idle + 1]
    BY <1>a, <2>1 DEF SessionForm
  <2>3. SessionForm'
    BY <1>a, <2>1, <2>2, NothingIsHeld DEF SessionForm
  <2>4. Undisturbed' /\ Informed'
    BY <1>a, <2>1 DEF Undisturbed, Informed, Active
  <2>5. RowIsLevel'
    BY <1>a, <2>1, <2>2, NothingIsHeld DEF RowIsLevel, Active
  <2>6. ObjectIsLevel'
    BY <1>a, <2>1, <2>2 DEF ObjectIsLevel, Active
  <2> QED BY <2>1, <2>3, <2>4, <2>5, <2>6 DEF Remembered
<1>7. CASE RestartGateway
  <2>1. /\ stored' = IF store = "memory" \/ stored.idle > MaxIdle THEN NoSession ELSE stored
        /\ owed' = IF stored' = NoSession THEN Nobody ELSE owed
        /\ objects' = [o \in Object |-> Nobody] /\ store' = store
        /\ requests' = [q \in Requests |-> NoRequest]
    BY <1>7 DEF RestartGateway
  <2>2. \A q \in Requests : ~Active(q)' /\ requests'[q] = NoRequest
    BY <1>b, <2>1 DEF Active
  <2>3. SessionForm'
    <3>1. /\ stored' = [object |-> stored'.object, preferences |-> stored'.preferences,
                        idle |-> stored'.idle]
          /\ stored'.idle \in Nat
      BY <1>a, <2>1 DEF SessionForm, NoSession
    <3>2. DOMAIN owed' \subseteq PreferenceFields
      BY <1>a, <2>1, NothingIsHeld DEF SessionForm
    <3>3. /\ requests' = [q \in Requests |-> requests'[q]] /\ objects' = [o \in Object |-> objects'[o]]
          /\ \A q \in Requests : RequestForm(requests'[q])
      BY <1>b, <2>1
    <3> QED BY <1>a, <2>1, <3>1, <3>2, <3>3 DEF SessionForm
  <2>4. Undisturbed' /\ Informed'
    BY <2>2 DEF Undisturbed, Informed
  <2>5. RowIsLevel'
    BY <1>a, <1>b, <2>1, <2>2, NothingIsHeld DEF RowIsLevel
  <2>6. ObjectIsLevel'
    BY <1>a, <2>1, <2>2 DEF ObjectIsLevel
  <2>7. stored'.idle > MaxIdle => owed' = Nobody
    BY <1>a, <1>b, <2>1
  <2> QED BY <2>3, <2>4, <2>5, <2>6, <2>7 DEF Remembered
<1>8. CASE UNCHANGED sessionVars
  BY <1>8 DEF sessionVars, Remembered, SessionForm, Undisturbed, Informed, RowIsLevel,
              ObjectIsLevel, Active
<1> QED BY <1>1, <1>2, <1>3, <1>4, <1>5, <1>6, <1>7, <1>8 DEF SessionNext

(* A chip answers out of the products that are remembered, and no later    *)
(* turn asks what an answered one was told, for any products, messages and *)
(* chips, and any number of requests that overlap, fail and expire in      *)
(* either store.                                                           *)
THEOREM SessionsAreRemembered == ConversationSpec => []SessionIsRemembered
<1>1. ConversationInit => Promised /\ Remembered
  BY PromisedStart, RememberedStart DEF ConversationInit
<1>2. Promised /\ Remembered /\ [ConversationNext]_conversationVars => (Promised /\ Remembered)'
  <2> SUFFICES ASSUME Promised, Remembered, [ConversationNext]_conversationVars
               PROVE  Promised' /\ Remembered'
    OBVIOUS
  <2>1. [ChatNext]_chatVars /\ [SessionNext]_sessionVars
    BY DEF ConversationNext, conversationVars
  <2> QED BY <2>1, PromisedStep, RememberedStep
<1>3. Promised => ChipsAreAnswered
  BY DEF Promised, ChipsAreAnswered
<1>4. Remembered => ToldOnce
  BY DEF Remembered, Informed, ToldOnce, Active
<1>5. Promised /\ Remembered => SessionIsRemembered
  BY <1>3, <1>4 DEF SessionIsRemembered
<1> QED BY <1>1, <1>2, <1>5, PTL DEF ConversationSpec

-----------------------------------------------------------------------------
(* The searches of a turn.                                                 *)

(* What a search has found out by the step it is at.                       *)
SearchFields == {"at", "query", "attempt", "hits", "products", "note", "always", "ever",
                 "own", "swallowed"}
Before == {"keyword", "waiting", "meaning", "lookup", "refresh", "fetch"}
SearchSteps == Before \cup {"idle", "build", "last lookup", "broaden", "done", "failed"}

(* No product that was there all along has all the words of the query, nor *)
(* all its terms, once these were tried.                                   *)
Unworded(rec) ==
  /\ rec.attempt > 1 => \A p \in rec.always : ~(rec.query \subseteq Text[p])
  /\ rec.attempt > 2 => \A p \in rec.always : ~(catalogTerms(rec.query) \subseteq Text[p])

(* Those near it in meaning are among the hits, if the index is its own.   *)
Near(rec, hits) ==
  rec.own /\ ~rec.swallowed /\ rec.query # {} =>
    \A p \in rec.always : rec.query \cap Meaning[p] # {} => p \in hits

Denied(rec) ==
  rec.note \in {"not there, closest", "nothing"} =>
    \A p \in rec.always :
      /\ ~(rec.query \subseteq Text[p]) /\ ~(catalogTerms(rec.query) \subseteq Text[p])
      /\ rec.own /\ ~rec.swallowed /\ rec.query # {} => rec.query \cap Meaning[p] = {}

Sound(rec, sold, under) ==
  /\ DOMAIN rec = SearchFields /\ rec.at \in SearchSteps
  /\ rec.own \in BOOLEAN /\ rec.swallowed \in BOOLEAN
  /\ rec.at # "idle" => rec.always \subseteq sold /\ sold \subseteq rec.ever
  /\ rec.at \in Before => ~rec.own
  /\ rec.at \in Before \cup {"build", "last lookup"} => rec.attempt = 1
  /\ rec.at = "build" => under # NoBuild /\ (rec.own => rec.always \subseteq under)
  /\ rec.at = "last lookup" => Near(rec, rec.hits)
  /\ rec.at = "broaden" => /\ rec.attempt \in 1..Len(Attempts(rec.query))
                           /\ Unworded(rec) /\ Near(rec, {})
  /\ rec.at = "done" => rec.products \subseteq rec.ever /\ Denied(rec)

Searched ==
  /\ live \subseteq Products /\ DOMAIN search = Searches
  /\ DOMAIN index = {"seen", "stale"}
  /\ build # NoBuild => build \subseteq Products
  /\ answered = "no turn" => \A s \in Searches : search[s].at = "idle"
  /\ \A s \in Searches : Sound(search[s], live, build)

LEMMA StartedIsSound ==
  ASSUME NEW q, NEW under
  PROVE  LET rec == Started(q)
         IN  /\ Sound(rec, live, under) /\ Sound([rec EXCEPT !.at = "waiting"], live, under)
             /\ rec.query = q
BY DEF Started, Sound, SearchFields, SearchSteps, Before

LEMMA NoSearchIsSound ==
  ASSUME NEW sold, NEW under
  PROVE  Sound(NoSearch, sold, under) /\ NoSearch.at = "idle"
BY DEF NoSearch, Started, Sound, SearchFields, SearchSteps, Before

LEMMA AttemptsAre ==
  ASSUME NEW q
  PROVE  LET terms == catalogTerms(q)
         IN  /\ Len(Attempts(q)) \in {2, 3} /\ Attempts(q)[1] = q
             /\ Attempts(q)[Len(Attempts(q))] = {}
             /\ Len(Attempts(q)) = 2 <=> (terms = {} \/ terms = q)
             /\ Len(Attempts(q)) = 3 => Attempts(q)[2] = terms
BY DEF Attempts

(* A step of one search.                                                   *)
LEMMA OneSearch ==
  ASSUME Searched, NEW s \in Searches, NEW rec, Goes(s, rec), Sound(rec, live, build),
         answered # "no turn", UNCHANGED <<live, index, build>>, answered' # "no turn"
  PROVE  Searched'
<1>1. DOMAIN search' = Searches /\ search'[s] = rec
      /\ \A r \in Searches \ {s} : search'[r] = search[r]
  BY DEF Searched, Goes
<1>2. \A r \in Searches : Sound(search'[r], live', build')
  BY <1>1 DEF Searched
<1> QED BY <1>1, <1>2 DEF Searched

(* What leaves a search where others had brought it.                       *)
LEMMA SearchesStay ==
  ASSUME Searched, UNCHANGED <<live, search>>, DOMAIN index' = {"seen", "stale"},
         build # NoBuild => build' = build, build' # NoBuild => build' \subseteq Products,
         (answered = "no turn") <=> (answered' = "no turn")
  PROVE  Searched'
<1>1. ASSUME NEW s \in Searches PROVE Sound(search[s], live, build')
  <2>1. Sound(search[s], live, build)
    BY DEF Searched
  <2> QED BY <2>1 DEF Sound
<1> QED BY <1>1 DEF Searched

LEMMA TurnSteps ==
  ASSUME Searched
  PROVE  /\ TurnBegins => Searched'
         /\ ModelSearches => Searched'
         /\ TakePrefetch => Searched'
         /\ TakeOwn => Searched'
<1>1. ASSUME TurnBegins PROVE Searched'
  <2>1. /\ answered = "no turn" /\ answered' = "none" /\ live' \subseteq Products
        /\ index' = [seen |-> live', stale |-> FALSE] /\ build' = build
        /\ search' = IF plan' = {} THEN search
                     ELSE [search EXCEPT !["ahead"] =
                       [Started(carryForward(plan', subject')) EXCEPT !.always = live', !.ever = live']]
    BY <1>1 DEF TurnBegins
  <2> DEFINE new == [Started(carryForward(plan', subject')) EXCEPT !.always = live', !.ever = live']
  <2>2. Sound(new, live', build')
    BY DEF Started, Sound, SearchFields, SearchSteps, Before
  <2> HIDE DEF new
  <2>3. ASSUME NEW s \in Searches PROVE Sound(search[s], live', build')
    <3>1. Sound(search[s], live, build) /\ search[s].at = "idle"
      BY <2>1 DEF Searched
    <3> QED BY <3>1 DEF Sound, Before
  <2>4. DOMAIN search' = Searches
    BY <2>1 DEF Searched
  <2>5. ASSUME NEW s \in Searches PROVE Sound(search'[s], live', build')
    <3>1. search'[s] \in {search[s], new}
      BY <2>1 DEF Searched, new
    <3> QED BY <2>2, <2>3, <3>1
  <2>6. DOMAIN index' = {"seen", "stale"}
    BY <2>1
  <2> QED BY <2>1, <2>4, <2>5, <2>6 DEF Searched
<1>2. ASSUME ModelSearches PROVE Searched'
  <2>1. PICK q \in Queries :
          search' = [search EXCEPT !["call"] =
            IF speculationMatches(plan, q)
            THEN [Started(carryForward(q, subject)) EXCEPT !.at = "waiting"]
            ELSE Started(carryForward(q, subject))]
    BY <1>2 DEF ModelSearches
  <2> DEFINE rec == IF speculationMatches(plan, q)
                    THEN [Started(carryForward(q, subject)) EXCEPT !.at = "waiting"]
                    ELSE Started(carryForward(q, subject))
  <2>2. Sound(rec, live, build)
    BY StartedIsSound
  <2>3. Goes("call", rec) /\ UNCHANGED <<live, index, build>> /\ answered # "no turn"
        /\ answered' # "no turn"
    BY <1>2, <2>1 DEF ModelSearches, Goes, Turn, shop
  <2> HIDE DEF rec
  <2> QED BY <2>2, <2>3, OneSearch DEF Searches
<1>3. ASSUME TakePrefetch PROVE Searched'
  <2>1. search["call"].at = "waiting" /\ UNCHANGED <<live, index, build>>
    BY <1>3 DEF TakePrefetch, Turn, shop
  <2>2. answered # "no turn"
    BY <2>1 DEF Searched, Searches
  <2>3. CASE search' = [search EXCEPT !["call"].at = "idle"] /\ answered' = "ahead"
    <3> DEFINE was == search["call"]
               rec == [was EXCEPT !.at = "idle"]
    <3>1. Sound(was, live, build)
      BY DEF Searched, Searches
    <3>2. Sound(rec, live, build)
      BY <3>1 DEF Sound, SearchFields, SearchSteps, Before
    <3>3. Goes("call", rec)
      BY <2>3 DEF Goes, Searched
    <3> HIDE DEF rec
    <3> QED BY <2>1, <2>2, <2>3, <3>2, <3>3, OneSearch DEF Searches
  <2>4. CASE search' = [search EXCEPT !["call"] = Started(search["call"].query)] /\ UNCHANGED answered
    <3> DEFINE rec == Started(search["call"].query)
    <3>1. Sound(rec, live, build)
      BY StartedIsSound
    <3>2. Goes("call", rec)
      BY <2>4 DEF Goes
    <3> HIDE DEF rec
    <3> QED BY <2>1, <2>2, <2>4, <3>1, <3>2, OneSearch DEF Searches
  <2> QED BY <1>3, <2>3, <2>4 DEF TakePrefetch
<1>4. ASSUME TakeOwn PROVE Searched'
  <2>1. UNCHANGED <<live, search, index, build>> /\ answered # "no turn" /\ answered' # "no turn"
    BY <1>4 DEF TakeOwn, Turn, shop
  <2> QED BY <2>1, SearchesStay DEF Searched
<1> QED BY <1>1, <1>2, <1>3, <1>4

(* What search_catalog does at each step.                                  *)
LEMMA KeywordStep ==
  ASSUME Searched, NEW s \in Searches, Keyword(s)
  PROVE  Searched'
<1> DEFINE rec == search[s]
<1>1. /\ rec.at = "keyword" /\ Sound(rec, live, build) /\ UNCHANGED <<live, index, build>>
      /\ answered # "no turn" /\ answered' # "no turn"
  BY DEF Searched, Keyword, Others, shop
<1>2. \/ Goes(s, [rec EXCEPT !.at = "done", !.products = ByWording(rec.query), !.note = "words"])
      \/ Goes(s, [rec EXCEPT !.at = "meaning"])
      \/ Goes(s, [rec EXCEPT !.at = "failed"])
  BY DEF Keyword, Hand
<1>3. Sound([rec EXCEPT !.at = "done", !.products = ByWording(rec.query), !.note = "words"], live, build)
  BY <1>1 DEF Sound, SearchFields, SearchSteps, Before, Denied, ByWording
<1>4. Sound([rec EXCEPT !.at = "meaning"], live, build)
  BY <1>1 DEF Sound, SearchFields, SearchSteps, Before
<1>5. Sound([rec EXCEPT !.at = "failed"], live, build)
  BY <1>1 DEF Sound, SearchFields, SearchSteps, Before
<1> HIDE DEF rec
<1> QED BY <1>1, <1>2, <1>3, <1>4, <1>5, OneSearch

(* A miss by meaning comes to the rest of the search.                      *)
LEMMA ToBroaden ==
  ASSUME NEW rec, NEW new, NEW sold, NEW under, Sound(rec, sold, under), rec.at # "idle",
         DOMAIN new = SearchFields, new.at = "broaden", new.query = rec.query,
         new.attempt = 1, new.always = rec.always, new.ever = rec.ever,
         new.own \in BOOLEAN, new.swallowed \in BOOLEAN, Near(new, {})
  PROVE  Sound(new, sold, under)
<1>1. new.attempt \in 1..Len(Attempts(new.query))
  BY AttemptsAre
<1>2. rec.always \subseteq sold /\ sold \subseteq rec.ever
  BY DEF Sound
<1>3. Unworded(new)
  BY DEF Unworded
<1> QED BY <1>1, <1>2, <1>3 DEF Sound, SearchSteps, Before

LEMMA SemanticStep ==
  ASSUME Searched, NEW s \in Searches, Semantic(s)
  PROVE  Searched'
<1> DEFINE rec == search[s]
           hits == ByMeaning(rec.query, index.seen)
<1>1. /\ rec.at = "meaning" /\ Sound(rec, live, build) /\ UNCHANGED <<live, index, build>>
      /\ answered # "no turn" /\ answered' # "no turn"
  BY DEF Searched, Semantic, Others, shop
<1>2. \/ Goes(s, [rec EXCEPT !.at = "refresh"])
      \/ Goes(s, [rec EXCEPT !.at = "lookup", !.hits = hits])
  BY DEF Semantic, AskIndex
<1>3. Sound([rec EXCEPT !.at = "refresh"], live, build)
  BY <1>1 DEF Sound, SearchFields, SearchSteps, Before
<1> HIDE DEF hits
<1>4. Sound([rec EXCEPT !.at = "lookup", !.hits = hits], live, build)
  BY <1>1 DEF Sound, SearchFields, SearchSteps, Before
<1> HIDE DEF rec
<1> QED BY <1>1, <1>2, <1>3, <1>4, OneSearch

LEMMA LookupStep ==
  ASSUME Searched, NEW s \in Searches, Lookup(s)
  PROVE  Searched'
<1> DEFINE rec == search[s]
           found == rec.hits \cap live
           miss == IF rec.at = "lookup" THEN "refresh" ELSE "broaden"
           done == [rec EXCEPT !.at = "done", !.products = found, !.note = "meaning"]
           missed == [rec EXCEPT !.at = miss]
           failed == [rec EXCEPT !.at = miss, !.swallowed = TRUE]
<1>1. /\ rec.at \in {"lookup", "last lookup"} /\ Sound(rec, live, build)
      /\ UNCHANGED <<live, index, build>> /\ answered # "no turn" /\ answered' # "no turn"
  BY DEF Searched, Lookup, Others, shop
<1>2. \/ Goes(s, done)
      \/ found = {} /\ Goes(s, missed)
      \/ Goes(s, failed)
  BY DEF Lookup, Hand, Resolve
<1>3. Sound(done, live, build)
  BY <1>1 DEF Sound, SearchFields, SearchSteps, Before, Denied
<1>4. CASE rec.at = "lookup"
  <2>1. Sound(missed, live, build) /\ Sound(failed, live, build)
    BY <1>1, <1>4 DEF Sound, SearchFields, SearchSteps, Before
  <2> HIDE DEF done, missed, failed
  <2> QED BY <1>1, <1>2, <1>3, <2>1, OneSearch
<1>5. CASE rec.at = "last lookup"
  <2>1. /\ DOMAIN rec = SearchFields /\ rec.own \in BOOLEAN /\ rec.swallowed \in BOOLEAN
        /\ rec.at # "idle" /\ rec.attempt = 1 /\ rec.always \subseteq live
        /\ Near(rec, rec.hits)
    BY <1>1, <1>5 DEF Sound
  <2>2. found = {} => Sound(missed, live, build)
    <3>1. /\ DOMAIN missed = SearchFields /\ missed.at = "broaden" /\ missed.query = rec.query
          /\ missed.attempt = 1 /\ missed.always = rec.always /\ missed.ever = rec.ever
          /\ missed.own = rec.own /\ missed.swallowed = rec.swallowed
      BY <1>5, <2>1 DEF SearchFields
    <3> HIDE DEF missed, rec
    <3>2. found = {} => Near(missed, {})
      BY <2>1, <3>1 DEF Near
    <3> QED BY <1>1, <2>1, <3>1, <3>2, ToBroaden
  <2>3. Sound(failed, live, build)
    <3>1. /\ DOMAIN failed = SearchFields /\ failed.at = "broaden" /\ failed.query = rec.query
          /\ failed.attempt = 1 /\ failed.always = rec.always /\ failed.ever = rec.ever
          /\ failed.own = rec.own /\ failed.swallowed = TRUE
      BY <1>5, <2>1 DEF SearchFields
    <3> HIDE DEF failed, rec
    <3>2. Near(failed, {})
      BY <3>1 DEF Near
    <3> QED BY <1>1, <2>1, <3>1, <3>2, ToBroaden
  <2> HIDE DEF done, missed, failed
  <2> QED BY <1>1, <1>2, <1>3, <2>2, <2>3, OneSearch
<1> QED BY <1>1, <1>4, <1>5

LEMMA RefreshStep ==
  ASSUME Searched, NEW s \in Searches, Refresh(s)
  PROVE  Searched'
<1> DEFINE rec == search[s]
<1>1. /\ rec.at = "refresh" /\ Sound(rec, live, build) /\ UNCHANGED <<live, index, build>>
      /\ answered # "no turn" /\ answered' # "no turn"
  BY DEF Searched, Refresh, Others, shop
<1>2. \/ Goes(s, [rec EXCEPT !.at = "broaden"])
      \/ Goes(s, [rec EXCEPT !.at = "fetch"])
  BY DEF Refresh
<1>3. Sound([rec EXCEPT !.at = "fetch"], live, build)
  BY <1>1 DEF Sound, SearchFields, SearchSteps, Before
<1>4. Sound([rec EXCEPT !.at = "broaden"], live, build)
  <2> DEFINE new == [rec EXCEPT !.at = "broaden"]
  <2>1. /\ DOMAIN new = SearchFields /\ new.at = "broaden" /\ new.query = rec.query
        /\ new.attempt = 1 /\ new.always = rec.always /\ new.ever = rec.ever
        /\ new.own = FALSE /\ new.swallowed = rec.swallowed /\ rec.swallowed \in BOOLEAN
        /\ rec.at # "idle"
    BY <1>1 DEF Sound, SearchFields, Before
  <2> HIDE DEF new, rec
  <2>2. Near(new, {})
    BY <2>1 DEF Near
  <2>3. Sound(new, live, build)
    BY <1>1, <2>1, <2>2, ToBroaden
  <2> QED BY <2>3 DEF new
<1> HIDE DEF rec
<1> QED BY <1>1, <1>2, <1>3, <1>4, OneSearch

LEMMA BroadenStep ==
  ASSUME Searched, NEW s \in Searches, Broaden(s)
  PROVE  Searched'
<1> DEFINE rec == search[s]
           q == rec.query
           tried == Attempts(q)[rec.attempt]
           found == ByWording(tried)
           last == rec.attempt = Len(Attempts(q))
           handed(products, note) == [rec EXCEPT !.at = "done", !.products = products, !.note = note]
           again == [rec EXCEPT !.attempt = @ + 1]
<1>1. /\ rec.at = "broaden" /\ Sound(rec, live, build) /\ UNCHANGED <<live, index, build>>
      /\ answered # "no turn" /\ answered' # "no turn"
  BY DEF Searched, Broaden, Others, shop
<1>2. \/ found # {} /\ Goes(s, handed(found, Note(q, tried)))
      \/ found = {} /\ last /\ Goes(s, handed({}, "nothing"))
      \/ found = {} /\ ~last /\ Goes(s, again)
  BY DEF Broaden, Hand
<1>3. /\ DOMAIN rec = SearchFields /\ rec.own \in BOOLEAN /\ rec.swallowed \in BOOLEAN
      /\ rec.always \subseteq live /\ live \subseteq rec.ever
      /\ rec.attempt \in 1..Len(Attempts(q)) /\ Unworded(rec) /\ Near(rec, {})
  BY <1>1 DEF Sound
<1>4. /\ Len(Attempts(q)) \in {2, 3} /\ Attempts(q)[1] = q
      /\ Attempts(q)[Len(Attempts(q))] = {}
      /\ Len(Attempts(q)) = 2 <=> (catalogTerms(q) = {} \/ catalogTerms(q) = q)
      /\ Len(Attempts(q)) = 3 => Attempts(q)[2] = catalogTerms(q)
  BY AttemptsAre
<1>5. found = {p \in live : tried \subseteq Text[p]}
  BY DEF ByWording
<1>6. ASSUME NEW products, NEW note, products \subseteq live,
             Denied([rec EXCEPT !.note = note])
      PROVE  Sound(handed(products, note), live, build)
  <2> DEFINE new == handed(products, note)
  <2>1. /\ DOMAIN new = SearchFields /\ new.at = "done" /\ new.products = products
        /\ new.own = rec.own /\ new.swallowed = rec.swallowed /\ new.always = rec.always
        /\ new.ever = rec.ever /\ new.query = rec.query /\ new.note = note
    BY <1>3 DEF SearchFields
  <2>2. Denied(new)
    BY <1>3, <1>6, <2>1 DEF Denied, SearchFields
  <2> HIDE DEF new
  <2>3. Sound(new, live, build)
    BY <1>3, <1>6, <2>1, <2>2 DEF Sound, SearchSteps, Before
  <2> QED BY <2>3 DEF new
<1>7. CASE found # {} /\ Goes(s, handed(found, Note(q, tried)))
  <2> DEFINE note == Note(q, tried)
  <2>1. Denied([rec EXCEPT !.note = note])
    <3>1. CASE note \in {"not there, closest", "nothing"}
      <4>1. tried # q /\ tried = {} /\ catalogTerms(q) # {}
        BY <3>1 DEF Note
      <4>2. rec.attempt > 1 /\ (catalogTerms(q) = q \/ rec.attempt > 2)
        BY <1>3, <1>4, <4>1
      <4> HIDE DEF note
      <4> QED BY <1>3, <4>2 DEF Denied, Unworded, Near, SearchFields
    <3>2. CASE note \notin {"not there, closest", "nothing"}
      <4> HIDE DEF note
      <4> QED BY <1>3, <3>2 DEF Denied, SearchFields
    <3> QED BY <3>1, <3>2
  <2>2. Sound(handed(found, note), live, build)
    BY <1>5, <1>6, <2>1
  <2> HIDE DEF handed, rec
  <2> QED BY <1>1, <1>7, <2>2, OneSearch
<1>8. CASE found = {} /\ last /\ Goes(s, handed({}, "nothing"))
  <2>1. live = {}
    BY <1>4, <1>5, <1>8
  <2>2. Denied([rec EXCEPT !.note = "nothing"])
    BY <1>3, <2>1 DEF Denied, SearchFields
  <2>3. Sound(handed({}, "nothing"), live, build)
    BY <1>6, <2>2
  <2> HIDE DEF handed, rec
  <2> QED BY <1>1, <1>8, <2>3, OneSearch
<1>9. CASE found = {} /\ ~last /\ Goes(s, again)
  <2>1. /\ DOMAIN again = SearchFields /\ again.at = "broaden" /\ again.attempt = rec.attempt + 1
        /\ again.own = rec.own /\ again.swallowed = rec.swallowed /\ again.always = rec.always
        /\ again.ever = rec.ever /\ again.query = rec.query
    BY <1>1, <1>3 DEF SearchFields
  <2>2. again.attempt \in 1..Len(Attempts(q))
    BY <1>3, <1>4, <1>9, <2>1
  <2> HIDE DEF again
  <2>3. Unworded(again)
    <3>1. \A p \in rec.always : ~(tried \subseteq Text[p])
      BY <1>3, <1>5, <1>9
    <3>2. rec.attempt = 1 => tried = q
      BY <1>4
    <3>3. rec.attempt = 2 => tried = catalogTerms(q)
      BY <1>3, <1>4, <1>9
    <3>4. rec.attempt \in {1, 2}
      BY <1>3, <1>4, <1>9
    <3> HIDE DEF tried, rec
    <3> QED BY <1>3, <2>1, <3>1, <3>2, <3>3, <3>4 DEF Unworded
  <2>4. Near(again, {})
    BY <1>3, <2>1 DEF Near
  <2>5. Sound(again, live, build)
    BY <1>3, <2>1, <2>2, <2>3, <2>4 DEF Sound, SearchSteps, Before
  <2> QED BY <1>1, <1>9, <2>5, OneSearch
<1> QED BY <1>2, <1>7, <1>8, <1>9

LEMMA FetchStep ==
  ASSUME Searched, NEW s \in Searches, FetchCatalog(s)
  PROVE  Searched'
<1> DEFINE rec == search[s]
           waits == [rec EXCEPT !.at = "build", !.own = build = NoBuild]
           misses == [rec EXCEPT !.at = "broaden"]
<1>1. /\ rec.at = "fetch" /\ Sound(rec, live, build) /\ UNCHANGED <<live, index>>
      /\ answered # "no turn" /\ answered' # "no turn"
  BY DEF Searched, FetchCatalog, Others, shop
<1>2. /\ DOMAIN rec = SearchFields /\ rec.own = FALSE /\ rec.swallowed \in BOOLEAN
      /\ rec.attempt = 1 /\ rec.always \subseteq live /\ live \subseteq rec.ever
  BY <1>1 DEF Sound, Before
<1>3. CASE build' = (IF build = NoBuild THEN live ELSE build) /\ Goes(s, waits)
  <2>1. live # NoBuild /\ build' # NoBuild
    BY <1>3, SearchAssumption DEF Searched
  <2>2. build' \subseteq Products
    BY <1>3 DEF Searched
  <2>3. Sound(waits, live, build')
    <3>1. /\ DOMAIN waits = SearchFields /\ waits.at = "build" /\ waits.attempt = 1
          /\ waits.always = rec.always /\ waits.ever = rec.ever
          /\ waits.swallowed = rec.swallowed
      BY <1>2 DEF SearchFields
    <3>2. waits.own = (build = NoBuild)
      BY <1>2 DEF SearchFields
    <3> HIDE DEF waits, rec
    <3>3. waits.own \in BOOLEAN
      BY <3>2
    <3>4. waits.own => waits.always \subseteq build'
      BY <1>2, <1>3, <3>1, <3>2
    <3> QED BY <1>2, <2>1, <3>1, <3>3, <3>4 DEF Sound, SearchSteps, Before
  <2>4. \A r \in Searches \ {s} : search'[r] = search[r] /\ Sound(search[r], live, build')
    <3>1. \A r \in Searches \ {s} : search'[r] = search[r] /\ Sound(search[r], live, build)
      BY <1>3 DEF Searched, Goes
    <3> QED BY <1>3, <2>1, <3>1 DEF Sound
  <2>5. DOMAIN search' = Searches /\ search'[s] = waits
    BY <1>3 DEF Searched, Goes
  <2> HIDE DEF waits, rec
  <2>6. \A r \in Searches : Sound(search'[r], live', build')
    BY <1>1, <2>3, <2>4, <2>5
  <2> QED BY <1>1, <2>2, <2>5, <2>6 DEF Searched
<1>4. CASE UNCHANGED build /\ Goes(s, misses)
  <2>1. /\ DOMAIN misses = SearchFields /\ misses.at = "broaden" /\ misses.query = rec.query
        /\ misses.attempt = 1 /\ misses.always = rec.always /\ misses.ever = rec.ever
        /\ misses.own = FALSE /\ misses.swallowed = rec.swallowed
    BY <1>2 DEF SearchFields
  <2>2. rec.at # "idle"
    BY <1>1
  <2> HIDE DEF misses, rec
  <2>3. Near(misses, {})
    BY <2>1 DEF Near
  <2>4. Sound(misses, live, build)
    BY <1>1, <1>2, <2>1, <2>2, <2>3, ToBroaden
  <2> QED BY <1>1, <1>4, <2>4, OneSearch
<1> QED BY <1>3, <1>4 DEF FetchCatalog

LEMMA FailStep ==
  ASSUME Searched, NEW s \in Searches, BroadenFails(s)
  PROVE  Searched'
<1> DEFINE rec == search[s]
<1>1. /\ rec.at = "broaden" /\ Sound(rec, live, build) /\ UNCHANGED <<live, index, build>>
      /\ answered # "no turn" /\ answered' # "no turn"
      /\ Goes(s, [rec EXCEPT !.at = "failed"])
  BY DEF Searched, BroadenFails, Others, shop
<1>2. Sound([rec EXCEPT !.at = "failed"], live, build)
  BY <1>1 DEF Sound, SearchFields, SearchSteps, Before
<1> HIDE DEF rec
<1> QED BY <1>1, <1>2, OneSearch

(* What the products near in meaning are in a new index.                   *)
LEMMA AskedAgain ==
  ASSUME NEW rec, NEW sold, NEW under, NEW idx, Sound(rec, sold, under), rec.at = "build",
         rec.own => \A p \in rec.always : ~idx.stale /\ p \in idx.seen
  PROVE  Sound(AskAgain(rec, idx), sold, NoBuild)
<1> DEFINE hits == ByMeaning(rec.query, idx.seen)
           missed == [rec EXCEPT !.at = "broaden"]
           near == [rec EXCEPT !.at = "last lookup", !.hits = hits]
<1>1. /\ DOMAIN rec = SearchFields /\ rec.own \in BOOLEAN /\ rec.swallowed \in BOOLEAN
      /\ rec.attempt = 1 /\ rec.always \subseteq sold /\ sold \subseteq rec.ever
  BY DEF Sound
<1>2. hits = {p \in idx.seen : rec.query \cap Meaning[p] # {}}
  BY DEF ByMeaning
<1>3. CASE idx.stale \/ rec.query = {} \/ hits = {}
  <2>1. /\ DOMAIN missed = SearchFields /\ missed.at = "broaden" /\ missed.query = rec.query
        /\ missed.attempt = 1 /\ missed.always = rec.always /\ missed.ever = rec.ever
        /\ missed.own = rec.own /\ missed.swallowed = rec.swallowed
    BY <1>1 DEF SearchFields
  <2>2. AskAgain(rec, idx) = missed
    BY <1>3 DEF AskAgain, AskIndex
  <2> HIDE DEF missed
  <2>3. Near(missed, {})
    BY <1>2, <1>3, <2>1 DEF Near
  <2>4. Sound(rec, sold, under) /\ rec.at # "idle"
    OBVIOUS
  <2>5. Sound(missed, sold, NoBuild)
    <3>1. missed.attempt \in 1..Len(Attempts(missed.query))
      BY <2>1, AttemptsAre
    <3>2. Unworded(missed)
      BY <2>1 DEF Unworded
    <3> QED BY <1>1, <2>1, <2>3, <3>1, <3>2 DEF Sound, SearchSteps, Before
  <2> QED BY <2>2, <2>5
<1>4. CASE ~(idx.stale \/ rec.query = {} \/ hits = {})
  <2>1. AskAgain(rec, idx) = near
    BY <1>4 DEF AskAgain, AskIndex
  <2> HIDE DEF hits
  <2>2. /\ DOMAIN near = SearchFields /\ near.at = "last lookup" /\ near.query = rec.query
        /\ near.attempt = 1 /\ near.always = rec.always /\ near.ever = rec.ever
        /\ near.own = rec.own /\ near.swallowed = rec.swallowed /\ near.hits = hits
    BY <1>1 DEF SearchFields
  <2> HIDE DEF near
  <2>3. Near(near, near.hits)
    BY <1>2, <2>2 DEF Near
  <2> QED BY <1>1, <2>1, <2>2, <2>3 DEF Sound, SearchSteps, Before
<1> QED BY <1>3, <1>4

LEMMA BuildStep ==
  ASSUME Searched, BuildEnds
  PROVE  Searched'
<1> DEFINE built == IF build = {} THEN index ELSE [seen |-> build, stale |-> FALSE]
<1>1. /\ build # NoBuild /\ build' = NoBuild /\ UNCHANGED live
      /\ (answered = "no turn") <=> (answered' = "no turn")
  BY DEF BuildEnds, Others, shop
<1>2. \A s \in Searches : Sound(search[s], live, build)
  BY DEF Searched
<1>3. ASSUME NEW s \in Searches, search[s].at # "build"
      PROVE  Sound(search[s], live, NoBuild)
  BY <1>2, <1>3 DEF Sound
<1>4. CASE /\ index' = built
           /\ search' = [s \in Searches |-> IF search[s].at = "build" THEN AskAgain(search[s], built)
                                             ELSE search[s]]
  <2>1. ASSUME NEW s \in Searches, search[s].at = "build"
        PROVE  Sound(AskAgain(search[s], built), live, NoBuild)
    <3>1. search[s].own => search[s].always \subseteq build
      BY <1>2, <2>1 DEF Sound
    <3>2. search[s].own => \A p \in search[s].always : ~built.stale /\ p \in built.seen
      BY <3>1
    <3> HIDE DEF built
    <3> QED BY <1>2, <2>1, <3>2, AskedAgain
  <2>2. DOMAIN index' = {"seen", "stale"}
    BY <1>4 DEF Searched
  <2> HIDE DEF built
  <2>3. \A s \in Searches : Sound(search'[s], live, NoBuild)
    BY <1>3, <1>4, <2>1
  <2>4. answered' = "no turn" => \A s \in Searches : search'[s].at = "idle"
    BY <1>1, <1>4 DEF Searched
  <2> QED BY <1>1, <1>4, <2>2, <2>3, <2>4 DEF Searched
<1>5. CASE /\ UNCHANGED index
           /\ search' = [s \in Searches |-> IF search[s].at = "build"
                                             THEN [search[s] EXCEPT !.at = "broaden", !.own = FALSE]
                                             ELSE search[s]]
  <2>1. ASSUME NEW s \in Searches, search[s].at = "build"
        PROVE  Sound([search[s] EXCEPT !.at = "broaden", !.own = FALSE], live, NoBuild)
    <3> DEFINE rec == search[s]
               new == [rec EXCEPT !.at = "broaden", !.own = FALSE]
    <3>1. /\ DOMAIN rec = SearchFields /\ rec.swallowed \in BOOLEAN
          /\ rec.attempt = 1 /\ rec.always \subseteq live /\ live \subseteq rec.ever
      BY <1>2, <2>1 DEF Sound
    <3>2. /\ DOMAIN new = SearchFields /\ new.at = "broaden" /\ new.query = rec.query
          /\ new.attempt = 1 /\ new.always = rec.always /\ new.ever = rec.ever
          /\ new.own = FALSE /\ new.swallowed = rec.swallowed
      BY <3>1 DEF SearchFields
    <3> HIDE DEF new, rec
    <3>3. new.attempt \in 1..Len(Attempts(new.query))
      BY <3>2, AttemptsAre
    <3>4. Unworded(new) /\ Near(new, {})
      BY <3>2 DEF Unworded, Near
    <3>5. Sound(new, live, NoBuild)
      BY <3>1, <3>2, <3>3, <3>4 DEF Sound, SearchSteps, Before
    <3> QED BY <3>5 DEF new, rec
  <2>2. \A s \in Searches : Sound(search'[s], live, NoBuild)
    BY <1>3, <1>5, <2>1
  <2>3. answered' = "no turn" => \A s \in Searches : search'[s].at = "idle"
    BY <1>1, <1>5 DEF Searched
  <2> QED BY <1>1, <1>5, <2>2, <2>3 DEF Searched
<1> QED BY <1>4, <1>5 DEF BuildEnds

(* Products come and go.                                                   *)
LEMMA MerchantStep ==
  ASSUME Searched, answered # "no turn", Merchant
  PROVE  Searched'
<1>1. /\ UNCHANGED <<index, build, answered>>
      /\ search' = [s \in Searches |->
           [search[s] EXCEPT !.always = @ \cap live', !.ever = @ \cup live']]
  BY DEF Merchant
<1>2. live' \subseteq Products
  BY DEF Merchant, Searched
<1>3. ASSUME NEW s \in Searches PROVE Sound(search'[s], live', build)
  <2> DEFINE rec == search[s]
             new == [rec EXCEPT !.always = @ \cap live', !.ever = @ \cup live']
  <2>1. Sound(rec, live, build)
    BY DEF Searched
  <2>2. /\ DOMAIN new = SearchFields /\ new.at = rec.at /\ new.query = rec.query
        /\ new.attempt = rec.attempt /\ new.hits = rec.hits /\ new.products = rec.products
        /\ new.note = rec.note
        /\ new.always = rec.always \cap live' /\ new.ever = rec.ever \cup live'
    BY <2>1 DEF Sound, SearchFields
  <2>3. new.own = rec.own /\ new.swallowed = rec.swallowed
    BY <2>1 DEF Sound, SearchFields
  <2>4. search'[s] = new
    BY <1>1
  <2> HIDE DEF new, rec
  <2>5. Unworded(rec) => Unworded(new)
    BY <2>2 DEF Unworded
  <2>6. \A hits : Near(rec, hits) => Near(new, hits)
    BY <2>2, <2>3 DEF Near
  <2>7. Denied(rec) => Denied(new)
    BY <2>2, <2>3 DEF Denied
  <2>8. Sound(new, live', build)
    BY <2>1, <2>2, <2>3, <2>5, <2>6, <2>7 DEF Sound
  <2> QED BY <2>4, <2>8
<1> QED BY <1>1, <1>2, <1>3 DEF Searched

LEMMA SearchInitSound == SearchInit => Searched
BY NoSearchIsSound DEF SearchInit, Searched

LEMMA SearchStep == Searched /\ [SearchNext]_searchVars => Searched'
<1> SUFFICES ASSUME Searched, [SearchNext]_searchVars PROVE Searched'
  OBVIOUS
<1>1. CASE TurnBegins \/ ModelSearches \/ TakePrefetch \/ TakeOwn
  BY <1>1, TurnSteps
<1>2. ASSUME NEW s \in Searches, Keyword(s) \/ Semantic(s) \/ Lookup(s) \/ Refresh(s)
      PROVE  Searched'
  BY <1>2, KeywordStep, SemanticStep, LookupStep, RefreshStep
<1>3. ASSUME NEW s \in Searches, FetchCatalog(s) \/ Broaden(s) \/ BroadenFails(s)
      PROVE  Searched'
  BY <1>3, FetchStep, BroadenStep, FailStep
<1>4. CASE BuildEnds
  BY <1>4, BuildStep
<1>5. CASE answered # "no turn" /\ Merchant
  BY <1>5, MerchantStep
<1>6. CASE OthersBuild
  <2>1. build = NoBuild /\ build' = live /\ UNCHANGED <<live, index, search, answered>>
    BY <1>6 DEF OthersBuild, shop
  <2> QED BY <2>1, SearchesStay DEF Searched
<1>7. CASE TimePasses
  <2>1. UNCHANGED <<live, build, search, answered>>
    BY <1>7 DEF TimePasses, shop
  <2>2. DOMAIN index' = {"seen", "stale"}
    BY <1>7 DEF TimePasses, Searched
  <2> QED BY <2>1, <2>2, SearchesStay DEF Searched
<1>8. CASE UNCHANGED searchVars
  <2>1. UNCHANGED <<live, index, build, search, answered>>
    BY <1>8 DEF searchVars
  <2> QED BY <2>1, SearchesStay DEF Searched
<1> QED BY <1>1, <1>2, <1>3, <1>4, <1>5, <1>6, <1>7, <1>8 DEF SearchNext

(* A search hands over what was on sale while it ran, and says that a      *)
(* thing is not there only if it was not: for any catalog, question, index *)
(* and order of changes, rebuilds and failures.                            *)
THEOREM SearchesAreHonest == SearchSpec => []SearchIsHonest
<1>1. Searched => SearchIsHonest
  BY DEF Searched, SearchIsHonest, Sound, Denied
<1> QED BY <1>1, SearchInitSound, SearchStep, PTL DEF SearchSpec

=============================================================================
