-------------------------------- MODULE Widget --------------------------------
(***************************************************************************)
(* The storefront widget, packages/gateway/public/widget.js, around its    *)
(* voice chunk (module Voice): the panel, the chunk's loading, the turns   *)
(* streamed from the gateway, and everything the shopper can do meanwhile. *)
(* One page runs one callback at a time: each action is a callback.        *)
(***************************************************************************)
EXTENDS Voice

CONSTANTS
  MaxPresses,   \* bound: presses of the microphone
  MaxTurns,     \* bound: turns of the conversation
  MaxSentences, \* bound: sentences spoken in all of them
  MaxLoops      \* bound: loops of the endpointer running at once

ASSUME WidgetAssumption == MaxPresses \in Nat /\ MaxTurns \in Nat /\ MaxSentences \in Nat
                        /\ MaxLoops \in Nat

VARIABLES
  voice,      \* the object of module Voice
  panel,      \* open, the chunk, and the presses that wait for it
  turns,      \* responses being read
  inflight,   \* the turn an interruption aborts, 0 for none
  lastTurn,   \* turns begun so far
  suspended,  \* the gateway answered 402
  said,       \* the turn of each sentence announced so far
  retracted,  \* history: sentences announced before a reset of their turn
  unfinished  \* history: a voice turn lost the end of its response

vars == <<voice, panel, turns, inflight, lastTurn, suspended, said, retracted, unfinished>>
turnVars == <<turns, inflight, lastTurn, suspended, said, retracted, unfinished>>

Init ==
  /\ voice = Quiet
  /\ panel = [open |-> FALSE, chunk |-> "none", waiting |-> 0]
  /\ turns = {} /\ inflight = 0 /\ lastTurn = 0 /\ suspended = FALSE
  /\ said = <<>> /\ retracted = {} /\ unfinished = FALSE

-----------------------------------------------------------------------------
(* The panel.                                                              *)

(* withVoice(toggle): at once, or when the chunk has come.                 *)
WithToggle(p) ==
  /\ voice.presses + p.waiting < MaxPresses \/ voice.on
  /\ IF p.chunk = "ready"
     THEN voice' = toggleVoice(voice) /\ panel' = p
     ELSE panel' = [p EXCEPT !.chunk = "loading", !.waiting = @ + 1] /\ UNCHANGED voice

(* open(): the launcher opens the panel listening.                         *)
Open ==
  /\ ~panel.open
  /\ IF voice.on THEN panel' = [panel EXCEPT !.open = TRUE] /\ UNCHANGED voice
     ELSE WithToggle([panel EXCEPT !.open = TRUE])
  /\ UNCHANGED turnVars

Close ==
  /\ panel.open
  /\ panel' = [panel EXCEPT !.open = FALSE]
  /\ UNCHANGED <<voice, turnVars>>

PressMic == panel.open /\ WithToggle(panel) /\ UNCHANGED turnVars

PressStop ==
  /\ panel.open /\ voice.on
  /\ voice' = stopVoice(voice)
  /\ UNCHANGED <<panel, turnVars>>

(* The pointer over the microphone fetches the chunk early.                *)
PrefetchVoice ==
  /\ panel.open /\ panel.chunk = "none"
  /\ panel' = [panel EXCEPT !.chunk = "loading"]
  /\ UNCHANGED <<voice, turnVars>>

VoiceLoads ==
  LET toggled[k \in 0..panel.waiting] ==
        IF k = 0 THEN voice ELSE toggleVoice(toggled[k - 1])
  IN  /\ panel.chunk = "loading"
      /\ voice' = toggled[panel.waiting]
      /\ panel' = [panel EXCEPT !.chunk = "ready", !.waiting = 0]
      /\ UNCHANGED turnVars

VoiceFailsToLoad ==
  /\ panel.chunk = "loading"
  /\ panel' = [panel EXCEPT !.chunk = "none", !.waiting = 0]
  /\ UNCHANGED <<voice, turnVars>>

(* Another page: the browser ends what this one was doing, and the panel   *)
(* comes back as it was, without the microphone.                           *)
Navigate ==
  /\ voice' = [Quiet EXCEPT !.presses = voice.presses]
  /\ panel' = [panel EXCEPT !.chunk = "none", !.waiting = 0]
  /\ turns' = {} /\ inflight' = 0 /\ suspended' = FALSE
  /\ unfinished' = FALSE
  /\ UNCHANGED <<lastTurn, said, retracted>>

-----------------------------------------------------------------------------
(* The microphone.                                                         *)

MicGranted(t) ==
  /\ t.kind = "press"
  /\ voice' = Granted(Resume(voice, t), t.n)
  /\ UNCHANGED <<panel, turnVars>>

MicDenied(t) ==
  /\ t.kind = "press"
  /\ voice' = Resume(voice, t)
  /\ UNCHANGED <<panel, turnVars>>

(* startCapture() after its awaits, whatever happened to the turn since.   *)
CaptureStarts(t) ==
  /\ t.kind = "start"
  /\ \E kind \in {"pcm", "recorder"}, has \in BOOLEAN :
       voice' = IF kind = "recorder" /\ voice.stream = 0 THEN Resume(voice, t)
                ELSE CaptureStarted(Resume(voice, t), t.n, kind, has)
  /\ UNCHANGED <<panel, turnVars>>

(* Too little to be speech begins again, with another loop of the          *)
(* endpointer if one still runs.                                           *)
Outcome ==
  {"empty", "silence", "speech"} \cup IF voice.ticks <= MaxLoops THEN {"tiny"} ELSE {}

(* tick(): the shopper has stopped talking, or never began.                *)
EndpointFires ==
  /\ voice.on /\ voice.ticks > 0 /\ voice.capture.kind # "none"
  /\ \E o \in Outcome : voice' = Endpoint(voice, o)
  /\ UNCHANGED <<panel, turnVars>>

(* The recorder's onstop, for a capture that was not tapped off.           *)
RecorderStopped(t) ==
  /\ t.kind = "onstop"
  /\ \E o \in Outcome : voice' = onCaptured(Resume(voice, t), t.n, o)
  /\ UNCHANGED <<panel, turnVars>>

(* tick(): talking over the assistant.                                     *)
BargeIn ==
  /\ voice.on /\ voice.ticks > 0 /\ voice.playing # 0
  /\ voice' = stopPlayback(voice)
  /\ turns' = {r \in turns : r.id # inflight}
  /\ inflight' = 0
  /\ UNCHANGED <<panel, lastTurn, suspended, said, retracted, unfinished>>

-----------------------------------------------------------------------------
(* Turns.                                                                  *)

Turn(id, isVoice, press) ==
  [id |-> id, voice |-> isVoice, press |-> press, reset |-> FALSE]

(* stream(): the request of a new turn, unless the shop is suspended.      *)
Stream(open, isVoice, press) ==
  /\ lastTurn < MaxTurns
  /\ IF suspended
     THEN turns' = open /\ UNCHANGED <<inflight, lastTurn>>
     ELSE /\ turns' = open \cup {Turn(lastTurn + 1, isVoice, press)}
          /\ inflight' = lastTurn + 1
          /\ lastTurn' = lastTurn + 1

(* A response that ends without done leaves its voice turn open.           *)
Lost(r) == r.voice /\ voice.on

(* submit(): interrupt, never queue.                                       *)
Submit ==
  /\ panel.open
  /\ Stream({r \in turns : r.id # inflight}, FALSE, 0)
  /\ unfinished' = (unfinished \/ \E r \in turns : (r.id = inflight /\ Lost(r)))
  /\ UNCHANGED <<voice, panel, suspended, said, retracted>>

(* transcribeAndSend(): the transcript becomes a turn.                     *)
Transcribed(t) ==
  /\ t.kind = "upload"
  /\ voice' = Resume(voice, t)
  /\ Stream(turns, TRUE, t.n)
  /\ unfinished' = (unfinished \/ (suspended /\ voice.on))
  /\ UNCHANGED <<panel, suspended, said, retracted>>

(* Nothing was heard, or the upload failed.                                *)
NotTranscribed(t) ==
  /\ t.kind = "upload"
  /\ voice' = endVoiceTurn(Resume(voice, t))
  /\ UNCHANGED <<panel, turnVars>>

CloseResponse(r) ==
  /\ turns' = turns \ {r}
  /\ inflight' = IF inflight = r.id THEN 0 ELSE inflight

(* handle(): the frames of a response.                                     *)
SpeakFrame(r) ==
  /\ r.voice /\ Len(said) < MaxSentences
  /\ said' = Append(said, r.id)
  /\ voice' = enqueueSpeech(voice, Len(said) + 1)
  /\ UNCHANGED <<panel, turns, inflight, lastTurn, suspended, retracted, unfinished>>

(* Fault: what is queued is left to be spoken.                             *)
ResetKeepsSpeech(r) ==
  /\ ~r.reset
  /\ turns' = (turns \ {r}) \cup {[r EXCEPT !.reset = TRUE]}
  /\ retracted' = retracted \cup {s \in DOMAIN said : said[s] = r.id}
  /\ UNCHANGED <<voice, panel, inflight, lastTurn, suspended, said, unfinished>>

ResetFrame(r) ==
  /\ ~r.reset
  /\ turns' = (turns \ {r}) \cup {[r EXCEPT !.reset = TRUE]}
  /\ retracted' = retracted \cup {s \in DOMAIN said : said[s] = r.id}
  /\ voice' = IF panel.chunk = "ready" THEN stopPlayback(voice) ELSE voice
  /\ unfinished' = (unfinished \/ (voice.on /\ ~r.voice))
  /\ UNCHANGED <<panel, inflight, lastTurn, suspended, said>>

(* Fault: a turn without speech is left to close itself.                   *)
DoneLeavesTurnOpen(r) ==
  /\ CloseResponse(r)
  /\ UNCHANGED <<voice, panel, lastTurn, suspended, said, retracted, unfinished>>

(* The answer is complete; a voice turn with nothing to say ends here.     *)
DoneFrame(r) ==
  /\ CloseResponse(r)
  /\ voice' = IF r.voice /\ ~isSpeaking(voice) THEN endVoiceTurn(voice) ELSE voice
  /\ UNCHANGED <<panel, lastTurn, suspended, said, retracted, unfinished>>

(* 402, 429, an error frame, a lost connection.                            *)
StreamFails(r) ==
  /\ CloseResponse(r)
  /\ suspended' \in {suspended, TRUE}
  /\ unfinished' = (unfinished \/ Lost(r))
  /\ UNCHANGED <<voice, panel, lastTurn, said, retracted>>

-----------------------------------------------------------------------------
(* Speech.                                                                 *)

SpeechOpens(t) ==
  /\ t.kind = "open"
  /\ voice' \in {Opened(Resume(voice, t), t), Refused(Resume(voice, t), t)}
  /\ UNCHANGED <<panel, turnVars>>

SpeechFetched(t) ==
  /\ t.kind = "fetch"
  /\ voice' \in {Fetched(Resume(voice, t), t), Failed(Resume(voice, t), t)}
  /\ UNCHANGED <<panel, turnVars>>

SpeechBegins(t) ==
  /\ t.kind = "begin"
  /\ voice' \in {Begun(Resume(voice, t), t), Failed(Resume(voice, t), t),
                 Undecodable(Resume(voice, t))}
  /\ UNCHANGED <<panel, turnVars>>

(* play() of an element that was paused meanwhile is rejected.             *)
PausedBeforeItBegan(t) ==
  /\ t.kind = "paused"
  /\ voice' = Failed(Resume(voice, t), t)
  /\ UNCHANGED <<panel, turnVars>>

SpeechEnds(s) ==
  /\ voice' = Ended(voice, s)
  /\ UNCHANGED <<panel, turnVars>>

-----------------------------------------------------------------------------
Next ==
  \/ Open \/ Close \/ PressMic \/ PressStop
  \/ PrefetchVoice \/ VoiceLoads \/ VoiceFailsToLoad
  \/ Navigate \/ Submit
  \/ \E t \in voice.tasks :
       \/ MicGranted(t) \/ MicDenied(t) \/ CaptureStarts(t)
       \/ RecorderStopped(t) \/ Transcribed(t) \/ NotTranscribed(t)
       \/ SpeechOpens(t) \/ SpeechFetched(t) \/ SpeechBegins(t) \/ PausedBeforeItBegan(t)
  \/ EndpointFires \/ BargeIn
  \/ \E r \in turns : SpeakFrame(r) \/ ResetFrame(r) \/ DoneFrame(r) \/ StreamFails(r)
  \/ \E s \in voice.sounding : SpeechEnds(s)

Spec == Init /\ [][Next]_vars

-----------------------------------------------------------------------------
(* Properties.                                                             *)

TaskKind == {"press", "start", "onstop", "upload", "open", "fetch", "begin", "paused"}

(* Types.  Widths follow from the bounds: sentences are numbered, a press  *)
(* has at most one microphone.                                             *)
TypeOK ==
  /\ voice.presses \in 0..MaxPresses /\ voice.mics \subseteq 1..MaxPresses
  /\ voice.stream \in 0..MaxPresses
  /\ voice.playing \in 0..MaxSentences /\ voice.sounding \subseteq 1..MaxSentences
  /\ {voice.on, voice.busy, voice.recognition, voice.raced, voice.garbled, voice.hurried}
       \subseteq BOOLEAN
  /\ voice.ticks \in 0..MaxLoops + 1
  /\ \A t \in voice.tasks : t.kind \in TaskKind
  /\ panel \in [open : BOOLEAN, chunk : {"none", "loading", "ready"}, waiting : 0..MaxPresses]
  /\ lastTurn \in 0..MaxTurns /\ inflight \in 0..lastTurn
  /\ \A r \in turns : r.id \in 1..lastTurn
  /\ said \in Seq(1..lastTurn) /\ Len(said) <= MaxSentences

(* Two sentences never sound at once, whatever the order in which          *)
(* responses, frames and stops come: enqueueSpeech() gates on busy, which  *)
(* playNext() sets before it awaits anything.  Two ways out are left:      *)
(* speech that was stopped while it was being fetched comes back when a    *)
(* newer sentence is being fetched or played, and clears its busy flag     *)
(* (`raced`), and an element that cannot decode moves on twice.            *)
OneVoiceAtATime == voice.raced \/ voice.garbled \/ Cardinality(voice.sounding) <= 1

(* What a turn retracted (its reset frame) is never heard afterwards, be   *)
(* it queued, being fetched or playing when the reset came.                *)
RetractedIsSilent ==
  voice.raced \/ voice.garbled \/ voice.sounding \cap retracted = {}

Idle ==
  /\ voice.tasks = {} /\ turns = {} /\ voice.sounding = {} /\ voice.queue = <<>>
  /\ voice.capture.kind = "none"

(* When all that was begun has come to its end the microphone is off, its  *)
(* tracks are stopped and no recogniser is left: every path a voice turn   *)
(* ends on reaches endVoiceTurn().  Not when the response was lost before  *)
(* its done frame (stream() has no such call), nor when the microphone was *)
(* tapped again while it was still starting.                               *)
MicIsReleased ==
  Idle => \/ unfinished \/ voice.hurried
          \/ ~voice.on /\ voice.mics = {} /\ ~voice.recognition /\ ~voice.leaked

(* A recording that was tapped off is neither uploaded nor sent as a turn, *)
(* however late the recorder delivers it.                                  *)
CancelledIsNotSent ==
  /\ \A r \in turns : r.press \notin voice.cancelled
  /\ \A t \in Tasks(voice, {"onstop", "upload"}) : t.n \notin voice.cancelled
=============================================================================
