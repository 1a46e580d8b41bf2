----------------------------- MODULE Transcriber -----------------------------
(***************************************************************************)
(* From a recording to a transcript: transcribe() of voice/service.ts,     *)
(* handleTranscribe of server.ts, and the preference of a shop for one of  *)
(* the two models, stt-preference.ts.                                      *)
(*                                                                         *)
(* A transcript is what the checks tell apart: nothing, words in another   *)
(* script than the one asked for, an echo of the prompt, a few words, or   *)
(* an ordinary sentence.                                                   *)
(***************************************************************************)
EXTENDS Integers, Sequences, FiniteSets, SequencesExt

CONSTANTS
  Stores,       \* shops
  Takes,        \* bound: recordings being transcribed at once
  Window,       \* recent turns judged
  Trigger,      \* mismatches among them that put the acoustic model first
  MaxStores     \* shops the preference is kept for

ASSUME TranscriberAssumption ==
  Window \in Nat \ {0} /\ Trigger \in 1..Window /\ MaxStores \in Nat \ {0}

VARIABLES
  recent,   \* of each shop, newest last: TRUE for a mismatch
  known,    \* the shops of the map, in the order they were inserted
  takes,    \* requests
  wins      \* history: outcomes in a row of each shop that were no mismatch, to Window

sttVars == <<recent, known, takes, wins>>

Models == {"primary", "acoustic"}
Transcripts == {"nothing", "few words", "sentence", "few foreign words", "foreign sentence", "echo"}
Foreign == {"few foreign words", "foreign sentence"}
Presences == {"unknown", "silence", "noise", "speech"}
Containers == {"wav", "webm"}
NoTake == [step |-> "free", store |-> CHOOSE s \in Stores : TRUE, box |-> "wav",
           presence |-> "unknown", language |-> FALSE, first |-> "primary"]

SttInit ==
  /\ recent = [s \in Stores |-> <<>>] /\ known = <<>>
  /\ takes = [k \in Takes |-> NoTake] /\ wins = [s \in Stores |-> 0]

(* primaryFirst()                                                          *)
primaryFirst(s) ==
  Cardinality({k \in 1..Len(recent[s]) : recent[s][k]}) < Trigger

(* Fault: an outcome is remembered for good.                               *)
RememberForGood(seen, mismatch) == Append(seen, mismatch)

(* The last Window outcomes.                                               *)
Remember(seen, mismatch) ==
  LET all == Append(seen, mismatch)
  IN  IF Len(all) > Window THEN Tail(all) ELSE all

(* record(): past the cap the shop inserted first is forgotten, whether it *)
(* is busy or not.                                                         *)
record(s, mismatch) ==
  LET order == IF \E k \in 1..Len(known) : known[k] = s THEN known ELSE Append(known, s)
      full == Len(order) > MaxStores
      kept == [recent EXCEPT ![s] = Remember(@, mismatch)]
  IN  /\ known' = IF full THEN Tail(order) ELSE order
      /\ recent' = IF full THEN [kept EXCEPT ![order[1]] = <<>>] ELSE kept
      /\ wins' = [wins EXCEPT ![s] = IF mismatch THEN 0 ELSE IF @ < Window THEN @ + 1 ELSE @]

Unjudged == UNCHANGED <<recent, known, wins>>

(* The answer is sent, with words or without, and the recording gone.      *)
Over(k, said) ==
  takes' = [takes EXCEPT ![k] = [NoTake EXCEPT !.step = IF said = "nothing" THEN "silent" ELSE "answered"]]

(* handleTranscribe(): the language is the shopper's, the merchant's or    *)
(* none, the model to go first the one the shop's recent turns suggest;    *)
(* only WAV can be listened to, and digital silence is not uploaded.       *)
Receive(k, s, box, presence, language) ==
  /\ takes[k].step \in {"free", "silent", "answered"}
  /\ (presence # "unknown") => box = "wav"
  /\ IF presence = "silence" THEN Over(k, "nothing")
     ELSE takes' = [takes EXCEPT ![k] =
            [step |-> "first", store |-> s, box |-> box, presence |-> presence,
             language |-> language,
             first |-> IF primaryFirst(s) THEN "primary" ELSE "acoustic"]]
  /\ Unjudged

(* A container that is refused is tried once more, relabelled.             *)
Relabel(k) ==
  /\ takes[k].step = "first" /\ takes[k].box = "webm"
  /\ takes' = [takes EXCEPT ![k].step = "relabelled"]
  /\ Unjudged

(* The upload fails, or the account is unpaid.                             *)
UploadFails(k) ==
  /\ takes[k].step \in {"first", "relabelled"}
  /\ Over(k, "nothing") /\ Unjudged

(* looksHallucinated(): no speech to be heard, and hardly a word returned. *)
looksHallucinated(presence, said) == presence = "noise" /\ said \in {"few words", "few foreign words"}

(* looksFabricated(): the prompt, or part of it, comes back.               *)
looksFabricated(said) == said = "echo"

mismatchesLanguage(language, said) == language /\ said \in Foreign

(* The first model answers with something to discard.                      *)
Discarded(k, said) ==
  /\ takes[k].step \in {"first", "relabelled"}
  /\ looksHallucinated(takes[k].presence, said) \/ looksFabricated(said)
  /\ Over(k, "nothing") /\ Unjudged

(* It answers in another script: this counts against the model the shop    *)
(* tries first, whichever that is, and the other one is asked.             *)
Mismatch(k, said) ==
  /\ takes[k].step \in {"first", "relabelled"}
  /\ ~looksHallucinated(takes[k].presence, said) /\ ~looksFabricated(said)
  /\ mismatchesLanguage(takes[k].language, said)
  /\ takes' = [takes EXCEPT ![k].step = "second"]
  /\ record(takes[k].store, TRUE)

(* It answers with nothing: the other one is asked, and nothing counted.   *)
Empty(k, said) ==
  /\ takes[k].step \in {"first", "relabelled"} /\ said = "nothing"
  /\ takes' = [takes EXCEPT ![k].step = "second"]
  /\ Unjudged

Heard(k, said) ==
  /\ takes[k].step \in {"first", "relabelled"} /\ said # "nothing"
  /\ ~looksHallucinated(takes[k].presence, said) /\ ~looksFabricated(said)
  /\ ~mismatchesLanguage(takes[k].language, said)
  /\ Over(k, said)
  /\ record(takes[k].store, FALSE)

(* retryWithAcousticModel(): under the label the recording came with, and  *)
(* with no look at whether its words were made up.                         *)
Fallback(k, said) ==
  /\ takes[k].step = "second"
  /\ Over(k, IF mismatchesLanguage(takes[k].language, said) THEN "nothing" ELSE said)
  /\ Unjudged

SttNext ==
  \E k \in Takes :
    \/ \E s \in Stores, box \in Containers, presence \in Presences, language \in BOOLEAN :
         Receive(k, s, box, presence, language)
    \/ Relabel(k) \/ UploadFails(k)
    \/ \E said \in Transcripts : \/ Discarded(k, said) \/ Mismatch(k, said) \/ Empty(k, said)
                            \/ Heard(k, said) \/ Fallback(k, said)

SttSpec == SttInit /\ [][SttNext]_sttVars

-----------------------------------------------------------------------------
(* Properties.                                                             *)

(* A shop its models serve well drifts back: after Window turns in a row   *)
(* without a mismatch the primary model goes first, however many shops     *)
(* share the map and whatever turns were under way.                        *)
DriftsBack ==
  /\ \A s \in Stores : wins[s] >= Window => primaryFirst(s)
  /\ Len(known) <= MaxStores
=============================================================================
