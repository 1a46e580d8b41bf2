------------------------------- MODULE Endpoint -------------------------------
(***************************************************************************)
(* When the shopper has stopped talking: monitorSilence() of               *)
(* packages/gateway/public/widget-voice.js, from the tap to the end of one *)
(* recording, and what onCaptured() makes of it.                           *)
(*                                                                         *)
(* The loop sees one loudness in each animation frame, and knows neither   *)
(* what made it nor when the next frame comes.  Here a frame's sound says  *)
(* what it is, for the history alone.  Times are counted in steps of some  *)
(* 80 ms; a time that only matters up to a limit stops there.              *)
(*                                                                         *)
(* The widget (Widget) takes the end of a recording as it comes, and the   *)
(* two share no state: at the end of this module is how they make a turn   *)
(* of a shopper's words together (DictationSpec).                          *)
(***************************************************************************)
EXTENDS Widget

CONSTANTS
  Rooms,         \* loudness of the room, from frame to frame
  Voices,        \* loudness of the shopper
  Tone,          \* loudness of the tone that answers the tap
  ToneTime,      \* how long it sounds
  Frames,        \* times between two frames
  CalibrateFrom, CalibrateTo, \* when the room is measured
  MinSpeech,     \* less is a cough
  CompleteTime, SilenceTime, HangingTime, \* silence that ends a turn, by its words
  GiveUpTime,    \* silence from the start that ends it
  MaxUtterance,  \* what ends any
  StartsBy       \* bound: when there is a capture

Headroom == 6
Most(a, b) == IF a > b THEN a ELSE b
Least(a, b) == IF a < b THEN a ELSE b

Loudest == 255
Loud == Voices \cup {Tone}

(* A live meter reads something of any room.  The room wanders within the  *)
(* headroom; what is not the room is clear of it, even of a floor that has *)
(* climbed for a whole recording, and of the part of the loudest.          *)
ASSUME EndpointAssumption ==
  /\ Rooms \cup Loud \subseteq 2..Loudest
  /\ \A a, b \in Rooms : a - b <= Headroom
  /\ \A l \in Loud : /\ \A r \in Rooms : l > r + Headroom + MaxUtterance
                     /\ \A m \in Loud : 10 * l > 3 * m
  /\ {ToneTime, CalibrateFrom, CalibrateTo, MinSpeech, CompleteTime, SilenceTime,
      HangingTime, GiveUpTime, MaxUtterance, StartsBy} \subseteq Nat
  /\ 0 < CalibrateFrom /\ CalibrateFrom < CalibrateTo /\ CalibrateTo < GiveUpTime
  /\ CalibrateTo <= MinSpeech + CompleteTime
  /\ CompleteTime <= SilenceTime /\ SilenceTime <= HangingTime
  /\ HangingTime < GiveUpTime /\ GiveUpTime < MaxUtterance
  /\ 0 < MinSpeech /\ StartsBy <= MaxUtterance
  /\ Frames \subseteq 1..CalibrateTo

Sound ==
  [of : {"room"}, level : Rooms] \cup [of : {"voice"}, level : Voices]
    \cup [of : {"chime"}, level : {Tone}]

VARIABLES
  ear,    \* the loop: what monitorSilence() and the capture keep
  words,  \* the live caption, by how it ends
  truth,  \* what was there to hear, and history
  taken   \* the recording, once the capture was stopped

endpointVars == <<ear, words, truth, taken>>

(* What a capture took: by the samples themselves or by the browser's      *)
(* recorder, sound, exact zeros, or nothing at all.                        *)
Recording == [by : {"samples", "recorder"}, holds : {"sound", "zeros", "nothing"}]
NotTaken == [by |-> "none", holds |-> "nothing"]

(* startCapture(): the loop begins before there is a capture to stop.  A   *)
(* graph wired to a stream that is gone measures nothing.                  *)
EndpointInit ==
  /\ ear = [elapsed |-> 0, floor |-> Loudest, peak |-> 0, held |-> <<>>, spoke |-> 0,
            silence |-> 0, capture |-> FALSE, recogniser |-> FALSE, reason |-> "none"]
  /\ words = "open"
  /\ truth \in [dead : BOOLEAN, chime : {ToneTime}, gauged : {FALSE}, voiced : {0},
                pause : {0}, watched : {FALSE}, disturbed : {FALSE}, missed : {FALSE},
                invented : {FALSE}]
  /\ taken = NotTaken

-----------------------------------------------------------------------------
(* The level is an average over the bins of the analyser: with a graph     *)
(* that is wired to nothing, none.                                         *)
LevelOf(sound) == IF truth.dead THEN 0 ELSE sound.level

Calibrating(now) == now < CalibrateTo

(* The quietest of the calibration window; later it falls at once, and     *)
(* climbs a little or not at all.                                          *)
Floors(now, level) ==
  IF Calibrating(now)
  THEN {IF now >= CalibrateFrom THEN Least(level, ear.floor) ELSE ear.floor}
  ELSE IF level <= ear.floor THEN {level} ELSE {ear.floor, ear.floor + 1}

(* The loudest heard; it fades, here by a whole level in each frame.       *)
Peak(level) == IF level > ear.peak THEN level ELSE Most(ear.peak - 1, 0)

(* speechThreshold(): clear of silence, of the room, and of a part of the  *)
(* loudest.                                                                *)
Above(level, floor, peak) ==
  level > Headroom /\ level > floor + Headroom /\ 10 * level > 3 * peak

(* Frames of the window are judged by the first threshold there is.        *)
Frame(sound, now, dt) == [of |-> sound.of, level |-> LevelOf(sound), at |-> now, dt |-> dt]

Counted(frames, floor, peak) ==
  {i \in DOMAIN frames : Above(frames[i].level, floor, peak)}

Latest(counted) == CHOOSE i \in counted : \A j \in counted : j <= i

Duration(frames, counted) ==
  LET sum[i \in 0..Len(frames)] ==
        IF i = 0 THEN 0 ELSE sum[i - 1] + IF i \in counted THEN frames[i].dt ELSE 0
  IN  sum[Len(frames)]

(* Fault: what is said while the room is measured is let go of, as it was. *)
JudgesNothingHeld(frame) == IF Calibrating(frame.at) THEN <<>> ELSE <<frame>>

(* What this frame has to judge: nothing while the room is measured, then  *)
(* all that was held, and itself.                                          *)
Judged(frame) ==
  IF Calibrating(frame.at) THEN <<>> ELSE Append(ear.held, frame)

silenceWindow(w) ==
  CASE w = "open" -> IF ear.recogniser THEN SilenceTime ELSE HangingTime
    [] w = "hanging" -> HangingTime
    [] w = "complete" -> CompleteTime

(* Why a recording ends in this frame, if it does: the shopper is done, is *)
(* too long about it, or has not been heard.                               *)
Reason(spoke, silence, w, now) ==
  LET done == spoke > MinSpeech /\ silence > silenceWindow(w)
  IN  CASE ear.capture /\ done -> "silence"
        [] ear.capture /\ ~done /\ now > MaxUtterance -> "max-duration"
        [] ear.capture /\ spoke = 0 /\ now \in GiveUpTime + 1..MaxUtterance -> "no-speech"
        [] OTHER -> "none"

Capped(n, limit) == Least(n, limit + 1)

(* tick(): a frame `dt` after the last, with the loop's new floor and peak.*)
Listen(frame, floor, peak, w) ==
  LET now == frame.at
      judged == Judged(frame)
      counted == Counted(judged, floor, peak)
      spoke == Capped(ear.spoke + Duration(judged, counted), MinSpeech)
      silence == Capped(IF counted = {} THEN ear.silence + frame.dt
                        ELSE now - judged[Latest(counted)].at, HangingTime)
  IN  ear' = [ear EXCEPT !.elapsed = now, !.floor = floor, !.peak = peak,
                         !.held = IF Calibrating(now) THEN Append(@, frame) ELSE <<>>,
                         !.spoke = spoke, !.silence = silence,
                         !.reason = Reason(spoke, silence, w, now)]

(* What there was to hear, and whether what was judged was judged rightly. *)
(* The room can be told from the shopper once it was heard alone, before   *)
(* anything is judged.                                                     *)
Witness(frame, floor, peak) ==
  LET judged == Judged(frame)
      Passes(f) == Above(f.level, floor, peak)
      gauged == \/ truth.gauged
                \/ /\ frame.of = "room"
                   /\ frame.at >= CalibrateFrom /\ Calibrating(ear.elapsed)
      loud == frame.of # "room"
  IN  truth' = [truth EXCEPT
        !.chime = IF frame.of = "chime" THEN Most(@ - frame.dt, 0) ELSE @,
        !.gauged = gauged, !.watched = ear.capture,
        !.voiced = IF frame.of = "voice" THEN Capped(@ + frame.dt, MinSpeech) ELSE @,
        !.pause = IF loud THEN 0 ELSE Capped(@ + frame.dt, HangingTime),
        !.disturbed = @ \/ loud,
        !.missed = @ \/ (gauged /\ \E i \in DOMAIN judged :
                              judged[i].of = "voice" /\ ~Passes(judged[i])),
        !.invented = @ \/ \E i \in DOMAIN judged : judged[i].of = "room" /\ Passes(judged[i])]

(* The tone sounds while there is some of it left, once it has begun; the  *)
(* browser may take it out of what the microphone hears.                   *)
Heard == {s \in Sound : s.of = "chime" => ear.capture /\ truth.chime > 0}

Captions == IF ear.recogniser THEN {"hanging", "complete", "open"} ELSE {words}

Hear ==
  /\ ear.reason = "none"
  /\ \E sound \in Heard, dt \in Frames, w \in Captions :
       /\ ear.capture \/ ear.elapsed + dt <= StartsBy
       /\ LET frame == Frame(sound, ear.elapsed + dt, dt)
              peak == Peak(frame.level)
          IN  \E floor \in Floors(frame.at, frame.level) :
                Listen(frame, floor, peak, w) /\ Witness(frame, floor, peak) /\ words' = w
  /\ UNCHANGED taken

(* startCapture() after its awaits: there is a capture, and perhaps a      *)
(* recogniser, whose captions come when they like.                         *)
CaptureReady ==
  /\ ear.reason = "none" /\ ~ear.capture
  /\ \E has \in BOOLEAN : ear' = [ear EXCEPT !.capture = TRUE, !.recogniser = has]
  /\ UNCHANGED <<words, truth, taken>>

(* The loop asks the capture for what it took.  The capture has a source   *)
(* of its own in the graph: it may be dead with the meter, or alone.       *)
CaptureStops ==
  /\ ear.reason # "none" /\ taken = NotTaken
  /\ taken' \in Recording
  /\ UNCHANGED <<ear, words, truth>>

EndpointNext == Hear \/ CaptureReady \/ CaptureStops

EndpointSpec == EndpointInit /\ [][EndpointNext]_endpointVars

(* pcmToWav() makes nothing of samples that are all zero, or of none; of   *)
(* what the recorder took there is a container, too small if it is empty.  *)
Delivered ==
  \/ taken.holds = "sound"
  \/ taken.holds = "zeros" /\ taken.by = "recorder"

(* onCaptured(): where there is a recording, one without speech is not     *)
(* sent, unless the meter read nothing at all.                             *)
Sent == Delivered /\ (ear.spoke >= MinSpeech \/ ear.peak = 0)

-----------------------------------------------------------------------------
(* Properties.                                                             *)

Listening == ear.reason = "none" /\ truth.watched
Gauged == truth.gauged /\ ~truth.dead

(* What is counted as speech is not the room, however it wanders within    *)
(* the headroom; and once the room was heard alone every frame of voice is *)
(* counted, those too that came before there was a threshold.              *)
OnlyVoiceCounts == ~truth.invented /\ (Gauged => ~truth.missed)

(* A turn is not ended within a pause shorter than its words allow.        *)
PausesAreRespected ==
  ear.reason = "silence" /\ Gauged => truth.pause > silenceWindow(words)

(* The loop does not go on listening to a shopper who is done, to a room   *)
(* without one, nor, whatever it hears, for ever.                          *)
EndsWhenDone ==
  Listening => /\ ear.elapsed <= MaxUtterance
               /\ ~truth.disturbed => ear.elapsed <= GiveUpTime
               /\ Gauged /\ truth.voiced > MinSpeech => truth.pause <= silenceWindow(words)

(* What was spoken is sent if it was recorded, and a room is not, where    *)
(* the meter measures anything; where it does not, the recording decides.  *)
(* Of a capture that got zeros or nothing, be the meter dead with it or    *)
(* alive, nothing is sent but a container of the browser's recorder.       *)
SentWasSpoken ==
  LET sound == taken.holds = "sound"
  IN  taken # NotTaken =>
        /\ Gauged /\ truth.voiced >= MinSpeech /\ sound => Sent
        /\ ~truth.disturbed /\ ~truth.dead => ~Sent
        /\ truth.dead => (Sent <=> Delivered)
        /\ Sent => sound \/ taken.by = "recorder"

(* A turn is what the shopper said, from the first word to the last:       *)
(* monitorSilence() and the gate of onCaptured().                          *)
HeardAsSpoken == OnlyVoiceCounts /\ PausesAreRespected /\ EndsWhenDone /\ SentWasSpoken

-----------------------------------------------------------------------------
(* The widget, from the press to the turn that is sent, and beside it one  *)
(* recording of it: a step is of one of them.                              *)
dictationVars == <<vars, endpointVars>>

DictationInit == Init /\ EndpointInit

DictationNext ==
  \/ Next /\ UNCHANGED endpointVars
  \/ EndpointNext /\ UNCHANGED vars

DictationSpec == DictationInit /\ [][DictationNext]_dictationVars

(* What is sent as the shopper's turn is what the shopper said and wants   *)
(* sent: the whole of it, not the room, and not what was tapped off.  This *)
(* is monitorSilence() and onCaptured() of widget-voice.js, and what       *)
(* becomes of a recording afterwards.                                      *)
OnlyWhatWasSaid == CancelledIsNotSent /\ HeardAsSpoken
=============================================================================
