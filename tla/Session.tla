------------------------------ MODULE Session -------------------------------
(***************************************************************************)
(* What a shopper has told the assistant (orchestrator/preferences.ts), in *)
(* the session it is kept in (gateway/sessions.ts, store/sqlite.ts): turns *)
(* and taps on a product card take the session, work on it and put it      *)
(* back, and the turns that reach the model tell it what is known.         *)
(*                                                                         *)
(* The SQLite store gives every request a copy of its own, the memory      *)
(* store gives all of them the same object.  The session is of one shop;   *)
(* its cart is in Cart, its products are in Chat.                          *)
(***************************************************************************)
EXTENDS Integers, Sequences, SequencesExt, FiniteSets

CONSTANTS
  Utterances,  \* bound: what a message may say, as the patterns read it
  SizeWords,   \* the size recorded for each form of one
  Colours,     \* COLOURS, a sequence
  Occasions,   \* OCCASIONS, a sequence
  Grays,       \* spellings of a colour, and the one recorded
  Requests,    \* requests at once
  MaxIdle,     \* the session's TTL
  MaxUtterances \* bound: turns and taps

ASSUME SessionAssumption ==
  IsFiniteSet(Requests) /\ MaxIdle \in Nat /\ MaxUtterances \in Nat

(* An utterance is [asksStock, size, limit, likes, colours, occasions]:    *)
(* what it holds that the patterns look for, "none" and 0 for nothing.     *)

VARIABLES
  store,    \* "sqlite" or "memory"
  stored,   \* the session in the store: [object, preferences, idle], or NoSession
  objects,  \* the preferences of each session object in the process
  requests, \* [step, object, heard, told], and as history [due, alone]
  owed,     \* history: what was said in answered turns that overlapped none
  uttered

sessionVars == <<store, stored, objects, requests, owed, uttered>>

Nobody == <<>>
NoSession == [object |-> 0, preferences |-> Nobody, idle |-> 0]
NoRequest == [step |-> "none", object |-> 0, heard |-> Nobody, told |-> Nobody,
              due |-> Nobody, alone |-> FALSE]
Object == 1..Cardinality(Requests) + 1

-----------------------------------------------------------------------------
(* preferences.ts                                                          *)

(* The first of a list that is mentioned, as a field if there is one.      *)
FirstMentioned(field, list, mentioned) ==
  LET n == SelectInSeq(list, LAMBDA x : x \in mentioned)
  IN  IF n = 0 THEN Nobody ELSE [f \in {field} |-> list[n]]

Recorded(colour) == IF colour \in DOMAIN Grays THEN Grays[colour] ELSE colour

(* The newer statement wins, and silence takes nothing back.               *)
mergePreferences(known, heard) ==
  [f \in DOMAIN known \cup DOMAIN heard |-> IF f \in DOMAIN heard THEN heard[f] ELSE known[f]]

extractPreferences(u) ==
  LET size == IF u.asksStock \/ u.size \notin DOMAIN SizeWords THEN Nobody
              ELSE [size |-> SizeWords[u.size]]
      budget == IF u.limit > 0 THEN [budgetMaxMinor |-> 100 * u.limit] ELSE Nobody
      liked == IF ~u.likes THEN Nobody ELSE FirstMentioned("colour", Colours, u.colours)
      colour == [f \in DOMAIN liked |-> Recorded(liked[f])]
      occasion == FirstMentioned("occasion", Occasions, u.occasions)
  IN  mergePreferences(mergePreferences(size, budget), mergePreferences(colour, occasion))

PreferenceFields == {"size", "budgetMaxMinor", "colour", "occasion"}

(* The fields there is a phrase for.                                       *)
renderPreferences(prefs) == [f \in DOMAIN prefs \cap PreferenceFields |-> prefs[f]]

-----------------------------------------------------------------------------
(* sessions.ts, sqlite.ts                                                  *)

(* The fields that are read back.                                          *)
readPreferences(prefs) == [f \in DOMAIN prefs \cap PreferenceFields |-> prefs[f]]

InUse(o) == o = stored.object \/ \E q \in Requests : requests[q].object = o
NewObject == CHOOSE o \in Object : ~InUse(o)

(* get(), or newSession() for one that is not there or has expired.        *)
Taken ==
  IF stored = NoSession \/ stored.idle > MaxIdle THEN [object |-> NewObject, preferences |-> Nobody]
  ELSE IF store = "memory" THEN [object |-> stored.object, preferences |-> objects[stored.object]]
  ELSE [object |-> NewObject, preferences |-> readPreferences(stored.preferences)]

(* An expired one is deleted when it is asked for.  What the message says  *)
(* is learned before any lane looks at it.                                 *)
Begin(q, step, heard) ==
  LET others == {p \in Requests : requests[p] # NoRequest}
  IN  /\ requests[q] = NoRequest /\ uttered < MaxUtterances
      /\ uttered' = uttered + 1
      /\ stored' = IF stored.idle > MaxIdle THEN NoSession ELSE stored
      /\ objects' = [objects EXCEPT ![Taken.object] = mergePreferences(Taken.preferences, heard)]
      /\ requests' = [p \in Requests |->
           IF p = q THEN [step |-> step, object |-> Taken.object, heard |-> heard,
                          told |-> Nobody, due |-> owed, alone |-> others = {}]
           ELSE IF p \in others THEN [requests[p] EXCEPT !.alone = FALSE] ELSE requests[p]]
      /\ UNCHANGED <<store, owed>>

(* put(): the row is what the request has, all of it; an object is itself. *)
Put(q) ==
  /\ stored' = [object |-> IF store = "memory" THEN requests[q].object ELSE 0,
                preferences |-> IF store = "memory" THEN Nobody ELSE objects[requests[q].object],
                idle |-> 0]
  /\ owed' = IF requests[q].alone THEN mergePreferences(owed, requests[q].heard) ELSE Nobody

End(q) == requests' = [requests EXCEPT ![q] = NoRequest]

-----------------------------------------------------------------------------
SessionInit ==
  /\ store \in {"sqlite", "memory"}
  /\ stored = NoSession /\ objects = [o \in Object |-> Nobody]
  /\ requests = [q \in Requests |-> NoRequest]
  /\ owed = Nobody /\ uttered = 0

(* handleChat                                                              *)
Say(q, u) == Begin(q, "lane", extractPreferences(u))

(* handleCartAdd                                                           *)
Tap(q) == Begin(q, "adding", Nobody)

(* A lane that needs no model answers, the model does, or the add is over, *)
(* refused or not.                                                         *)
Close(q) ==
  /\ requests[q].step \in {"lane", "model", "adding"}
  /\ Put(q) /\ End(q)
  /\ UNCHANGED <<store, objects, uttered>>

(* The turn context of the model's call.                                   *)
TellPreferences(q) ==
  /\ requests[q].step = "lane"
  /\ requests' = [requests EXCEPT ![q].step = "model",
                     ![q].told = renderPreferences(objects[requests[q].object])]
  /\ UNCHANGED <<store, stored, objects, owed, uttered>>

(* The call throws, the shopper leaves, or the put fails: nothing is saved *)
(* that is not in the store's own object already.                          *)
GiveUp(q) ==
  /\ requests[q] # NoRequest /\ End(q)
  /\ owed' = IF requests[q].object # stored.object \/ stored.idle > MaxIdle THEN owed
             ELSE IF requests[q].alone THEN mergePreferences(owed, requests[q].heard) ELSE Nobody
  /\ UNCHANGED <<store, stored, objects, uttered>>

(* Some minutes without a put.                                             *)
Idles ==
  /\ stored # NoSession /\ stored.idle <= MaxIdle
  /\ stored' = [stored EXCEPT !.idle = @ + 1]
  /\ owed' = IF stored'.idle > MaxIdle THEN Nobody ELSE owed
  /\ UNCHANGED <<store, objects, requests, uttered>>

(* A new process has the file, swept of what has expired, or nothing.      *)
RestartGateway ==
  /\ stored # NoSession \/ \E q \in Requests : requests[q] # NoRequest
  /\ stored' = IF store = "memory" \/ stored.idle > MaxIdle THEN NoSession ELSE stored
  /\ owed' = IF stored' = NoSession THEN Nobody ELSE owed
  /\ objects' = [o \in Object |-> Nobody]
  /\ requests' = [q \in Requests |-> NoRequest]
  /\ UNCHANGED <<store, uttered>>

SessionNext ==
  \/ \E q \in Requests :
       (\E u \in Utterances : Say(q, u)) \/ Tap(q) \/ Close(q) \/ TellPreferences(q) \/ GiveUp(q)
  \/ Idles \/ RestartGateway

SessionSpec == SessionInit /\ [][SessionNext]_sessionVars

-----------------------------------------------------------------------------
(* What is known is among the preferences, as it was last said.            *)
Holds(prefs, known) == \A f \in DOMAIN known : f \in DOMAIN prefs /\ prefs[f] = known[f]

(* Never ask for what the shopper has already given: what a turn said that *)
(* was answered, with or without a model, every later turn of the session  *)
(* tells the model, as it was last said, and the turn that says it does    *)
(* too.  Requests that overlapped may have written over each other's.      *)
ToldOnce ==
  \A q \in Requests :
    requests[q].step = "model" /\ (requests[q].alone \/ store = "sqlite") =>
      Holds(requests[q].told, mergePreferences(requests[q].due, requests[q].heard))
=============================================================================
