-------------------------------- MODULE Voice --------------------------------
(***************************************************************************)
(* The voice chunk of the storefront widget,                               *)
(* packages/gateway/public/widget-voice.js: the microphone, the capture    *)
(* and the playback queue of one page.                                     *)
(*                                                                         *)
(* The chunk keeps everything in one object, `voice`, which its functions  *)
(* change and pass control to one another with; so here each function is   *)
(* an operator from the object to the object.  What a function awaits is a *)
(* task of the object, taken up again by an action of module Widget.       *)
(* Sentences to speak are numbered in the order in which they come.        *)
(***************************************************************************)
EXTENDS Integers, Sequences, FiniteSets

(* The object when the chunk is loaded.  The last four fields are history: *)
(* raced    - speech that had been stopped came back to a newer sentence   *)
(* garbled  - fetched speech could not be decoded                          *)
(* hurried  - a capture was begun, or tapped off, while one was starting   *)
(* cancelled - the presses whose recording was tapped off                  *)
Quiet ==
  [on |-> FALSE, presses |-> 0, stream |-> 0, mics |-> {},
   capture |-> [kind |-> "none", press |-> 0], recognition |-> FALSE, leaked |-> FALSE,
   ticks |-> 0, queue |-> <<>>, busy |-> FALSE, playing |-> 0,
   sounding |-> {}, tasks |-> {},
   raced |-> FALSE, garbled |-> FALSE, hurried |-> FALSE, cancelled |-> {}]

NoCapture == [kind |-> "none", press |-> 0]

Tasks(v, kinds) == {t \in v.tasks : t.kind \in kinds}
Loading(v) == Tasks(v, {"open", "fetch", "begin"})
Starting(v) == Tasks(v, {"press", "start"})
Await(v, kind, n) ==
  [v EXCEPT !.tasks = @ \cup {[kind |-> kind, n |-> n, stale |-> FALSE]}]
Resume(v, t) == [v EXCEPT !.tasks = @ \ {t}]

isSpeaking(v) == v.playing # 0 \/ v.queue # <<>>

-----------------------------------------------------------------------------
(* Playback.                                                               *)

(* The code counts generations and compares the one a fetch began under    *)
(* with the current one; here a new generation marks what is being fetched *)
(* as stale.  Pausing an element whose play() is pending makes that fail.  *)
stopPlayback(v) ==
  [v EXCEPT !.sounding = @ \ {v.playing}, !.playing = 0, !.queue = <<>>, !.busy = FALSE,
            !.tasks = {IF t \notin Loading(v) THEN t
                       ELSE IF t.kind = "begin" /\ t.n = v.playing
                       THEN [t EXCEPT !.kind = "paused", !.stale = TRUE]
                       ELSE [t EXCEPT !.stale = TRUE] : t \in @}]

stopRecognition(v) ==
  [v EXCEPT !.recognition = FALSE]

(* Fault: the recording is submitted when it is tapped off, as it was.     *)
SubmitOnStop(v) ==
  IF v.capture.kind = "none" THEN v
  ELSE [Await(v, "upload", v.capture.press) EXCEPT
         !.capture = NoCapture, !.cancelled = @ \cup {v.capture.press}]

(* capture.stop(false): what was recorded goes nowhere.                    *)
Discard(v) ==
  IF v.capture.kind = "none" THEN v
  ELSE [v EXCEPT !.capture = NoCapture, !.cancelled = @ \cup {v.capture.press}]

(* Only ever called with full set.                                         *)
stopVoice(v) ==
  LET quiet == stopPlayback(Discard(stopRecognition(v)))
  IN  [quiet EXCEPT !.on = FALSE, !.stream = 0, !.mics = @ \ {v.stream}, !.ticks = 0,
                    !.hurried = @ \/ Tasks(v, {"start"}) # {}]

endVoiceTurn(v) == IF v.on THEN stopVoice(v) ELSE v

(* The queue's next sentence, played off the response as it comes; with    *)
(* none left the voice turn is over.                                       *)
playNext(v) ==
  IF v.queue = <<>>
  THEN endVoiceTurn([v EXCEPT !.playing = 0, !.busy = FALSE])
  ELSE Await([v EXCEPT !.busy = TRUE, !.queue = Tail(@)], "open", Head(v.queue))

(* Fault: the queue is gated on what plays already.                        *)
GateOnPlaying(v, sentence) ==
  LET queued == [v EXCEPT !.queue = Append(@, sentence)]
  IN  IF v.playing # 0 THEN queued ELSE playNext(queued)

enqueueSpeech(v, sentence) ==
  LET queued == [v EXCEPT !.queue = Append(@, sentence)]
  IN  IF v.busy THEN queued ELSE playNext(queued)

Races(v, t) == t.stale /\ v.busy

(* Retracted while it was being fetched: it is dropped, and the flag of    *)
(* whatever is being played now with it.                                   *)
Dropped(v, t) == [v EXCEPT !.busy = FALSE, !.raced = @ \/ Races(v, t)]

(* playFrom(): the streamed element plays; what was retracted meanwhile is *)
(* paused at once.                                                         *)
Opened(v, t) ==
  IF t.stale THEN Dropped(v, t)
  ELSE [v EXCEPT !.playing = t.n, !.sounding = @ \cup {t.n}]

(* The browser refused to stream it: the same sentence, buffered.          *)
Refused(v, t) == [v EXCEPT !.tasks = @ \cup {[t EXCEPT !.kind = "fetch"]}]

Fetched(v, t) ==
  IF t.stale THEN Dropped(v, t)
  ELSE Await([v EXCEPT !.playing = t.n], "begin", t.n)

(* A failed utterance must not stall the queue.                            *)
Failed(v, t) == playNext([v EXCEPT !.raced = @ \/ Races(v, t)])

Begun(v, t) == [v EXCEPT !.sounding = @ \cup {t.n}]

(* The element's error event and its rejected play() both move on.         *)
Undecodable(v) == playNext(playNext([v EXCEPT !.garbled = TRUE]))

Ended(v, sentence) == playNext([v EXCEPT !.sounding = @ \ {sentence}])

-----------------------------------------------------------------------------
(* Capture.                                                                *)

(* Up to the first await: the graph is built and monitorSilence() begins.  *)
startCapture(v, press) ==
  Await([v EXCEPT !.capture = NoCapture, !.ticks = @ + 1,
                  !.hurried = @ \/ Starting(v) # {} \/ v.capture # NoCapture], "start", press)

(* Asking for the microphone.                                              *)
toggleVoice(v) ==
  IF v.on THEN stopVoice(v)
  ELSE Await([v EXCEPT !.presses = @ + 1, !.hurried = @ \/ Starting(v) # {}],
             "press", v.presses + 1)

Granted(v, press) ==
  startCapture([v EXCEPT !.stream = press, !.mics = @ \cup {press}, !.on = TRUE], press)

(* The browser may have no recogniser; one that runs already is forgotten, *)
(* not stopped.                                                            *)
startRecognition(v, has) ==
  [v EXCEPT !.recognition = has, !.leaked = @ \/ v.recognition]

(* The rung of the ladder that works: samples, or the MediaRecorder, which *)
(* cannot be made for a stream that is gone.                               *)
CaptureStarted(v, press, kind, has) ==
  startRecognition([v EXCEPT !.capture = [kind |-> kind, press |-> press]], has)

(* onCaptured(): nothing recorded, nobody spoke, too little, or speech.    *)
onCaptured(v, press, outcome) ==
  LET r == stopRecognition(v)
  IN  CASE outcome \in {"empty", "silence"} -> endVoiceTurn(r)
        [] outcome = "tiny" -> IF r.on THEN startCapture(r, press) ELSE r
        [] outcome = "speech" -> Await(r, "upload", press)

(* The endpointer stops the capture to send it; samples are at hand, the   *)
(* recorder delivers later.  Its tick ends with it.                        *)
Endpoint(v, outcome) ==
  LET r == [v EXCEPT !.capture = NoCapture, !.ticks = @ - 1]
  IN  IF v.capture.kind = "pcm" THEN onCaptured(r, v.capture.press, outcome)
      ELSE Await(r, "onstop", v.capture.press)
=============================================================================
