-------------------------------- MODULE Turn --------------------------------
(***************************************************************************)
(* One conversational turn, from the message to the last frame of its      *)
(* response: the orchestrator's two attempts and its tool loop             *)
(* (Orchestrator.runTurn, runToolLoop, callModel), the grounding tripwire  *)
(* that reads the reply while it streams, the handler that forwards it     *)
(* (handleChat), and the panel that shows and speaks it (widget.js).       *)
(*                                                                         *)
(* The reply is a sequence of tokens, told apart by what grounding makes   *)
(* of them.  The model may write anything; the shopper may leave at any    *)
(* moment; a model call, the billing lookup or the session store may fail. *)
(***************************************************************************)
EXTENDS Integers, SequencesExt

CONSTANTS
  Token,     \* what the model can write, a subset of AnyToken
  MaxTokens, \* bound on the tokens of one model call
  MaxBatch,  \* bound on the text deltas that arrive in one network read
  MaxTools,  \* tool iterations of an attempt
  None       \* undefined

(* "fact": prose or a figure the tool results support                      *)
(* "stop": the end of a sentence                                           *)
(* "lie": a figure no tool result has                                      *)
(* "short": a real price without its cents                                 *)
(* "echo": a figure of the shopper's own question                          *)
(* "stock": an availability the tool results contradict                    *)
AnyToken == {"fact", "stop", "lie", "short", "echo", "stock"}

ASSUME TurnAssumption ==
  /\ Token \subseteq AnyToken
  /\ MaxTokens \in Nat /\ MaxBatch \in Nat /\ MaxTools \in Nat \ {0}

VARIABLES
  voice,     \* the shopper is talking: the reply is spoken too
  arm,       \* the session's experiment arm
  stage,     \* where the turn is
  attempt,   \* 1 or 2
  iteration, \* model calls of this attempt so far
  reading,   \* deltas of the current network read not yet handled
  acc,       \* prose of the current model call
  emitted,   \* how much of it was handed on
  tripped,   \* the tripwire has fired on it
  cut,       \* the shopper left during this model call
  left,      \* the shopper left
  aborted,   \* a stream was aborted this turn
  handoff,   \* escalate_to_human is among the tool results
  result,    \* what runTurn returned
  screen,    \* what can be read in the bubble
  buffer,    \* the attempts with text left in the speech chunker
  queue,     \* the attempts with speech sent to be spoken
  billed     \* settle() took the turn for a resolution

vars == <<voice, arm, stage, attempt, iteration, reading, acc, emitted, tripped,
          cut, left, aborted, handoff, result, screen, buffer, queue, billed>>
stream == <<reading, acc, emitted, tripped, cut>>
panel == <<screen, buffer, queue>>
shopper == <<voice, arm, left>>

Sorry == {"sorry"}          \* ESCALATION_REPLY
ErrorMessage == {"error"}

Init ==
  /\ voice \in BOOLEAN
  /\ arm \in {"exposed", "holdout"}
  /\ stage = "model"
  /\ attempt = 1 /\ iteration = 1
  /\ reading = 0 /\ acc = <<>> /\ emitted = 0 /\ tripped = FALSE /\ cut = FALSE
  /\ left = FALSE /\ aborted = FALSE /\ handoff = FALSE
  /\ result = None
  /\ screen = {} /\ buffer = {} /\ queue = {}
  /\ billed = FALSE

-----------------------------------------------------------------------------
(* What the guards see.                                                    *)

(* The part of a reply that can no longer change: a trailing word or       *)
(* number may still be growing.                                            *)
settledPrefix(text) ==
  IF text # <<>> /\ Last(text) # "stop" THEN Front(text) ELSE text

(* A figure is judged once it is settled; a stock claim when its sentence  *)
(* is complete.                                                            *)
Trips(text) ==
  LET settled == settledPrefix(text)
  IN  \E i \in DOMAIN settled :
        \/ settled[i] \in {"lie", "short", "echo"}
        \/ settled[i] = "stock" /\ \E j \in i..Len(settled) : settled[j] = "stop"

(* restoreCents puts the cents back before the reply is judged.            *)
Restored(toks) == {IF tok = "short" THEN "fact" ELSE tok : tok \in toks}

(* What validateGrounding can accept: a figure of the shopper's is theirs  *)
(* to repeat.                                                              *)
Grounded(toks) == toks \cap {"lie", "short", "stock"} = {}

(* push(): the chunker speaks as far as the last complete sentence and     *)
(* keeps the rest.                                                         *)
push(toks) ==
  IF "stop" \in ToSet(toks)
  THEN [spoken |-> buffer \cup {attempt},
        rest |-> IF Last(toks) = "stop" THEN {} ELSE {attempt}]
  ELSE [spoken |-> {}, rest |-> buffer \cup {attempt}]

(* Text handed on is shown, and on a voice turn spoken.                    *)
Paint(toks) ==
  /\ screen' = screen \cup ToSet(toks)
  /\ IF voice
     THEN buffer' = push(toks).rest /\ queue' = queue \cup push(toks).spoken
     ELSE UNCHANGED <<buffer, queue>>

-----------------------------------------------------------------------------
(* A model call and its stream.                                            *)

StreamOver == reading' = 0 /\ acc' = <<>> /\ emitted' = 0 /\ tripped' = FALSE /\ cut' = FALSE

NewCall == stage' = "model" /\ StreamOver

Live == stage = "model" /\ reading = 0

(* A network read brings the next deltas; after an abort it rejects.       *)
Read(n) ==
  /\ Live /\ ~tripped /\ ~cut
  /\ Len(acc) + n <= MaxTokens
  /\ reading' = n
  /\ UNCHANGED <<shopper, stage, attempt, iteration, acc, emitted, tripped, cut,
                 aborted, handoff, result, panel, billed>>

(* Every delta of the read is handled, the abort notwithstanding.          *)
Delta(tok) ==
  LET text == Append(acc, tok)
      safe == settledPrefix(text)
      fires == ~tripped /\ Trips(text)
  IN  /\ reading > 0
      /\ reading' = reading - 1
      /\ acc' = text
      /\ tripped' = (tripped \/ fires)
      /\ IF ~fires /\ Len(safe) > emitted
         THEN emitted' = Len(safe) /\ Paint(SubSeq(safe, emitted + 1, Len(safe)))
         ELSE UNCHANGED <<emitted, panel>>
      /\ UNCHANGED <<shopper, stage, attempt, iteration, cut, aborted, handoff, result, billed>>

(* The stream ends with the whole response: the held-back tail is handed   *)
(* on.  An abort that came after the last read changes nothing.            *)
StreamEnds(next) ==
  /\ Live
  /\ IF Len(acc) > emitted THEN Paint(SubSeq(acc, emitted + 1, Len(acc)))
     ELSE UNCHANGED panel
  /\ stage' = next
  /\ StreamOver
  /\ UNCHANGED aborted

(* Fault: a handoff is taken for an escalation of the loop.                *)
ReturnsConflated(reply, ok, escalated) ==
  result' = [reply |-> reply, ok |-> ok, escalated |-> escalated,
             handedOff |-> escalated /\ handoff']

(* What runTurn returns; escalate_to_human in any attempt is a handoff.    *)
Returns(reply, ok, escalated) ==
  result' = [reply |-> reply, ok |-> ok, escalated |-> escalated, handedOff |-> handoff']

(* A tool call is asked for, or too many were.                             *)
AskForTools ==
  /\ StreamEnds("tools")
  /\ UNCHANGED <<shopper, attempt, iteration, handoff, result, billed>>

(* Tools run; a failed one is a result like any other, and one that ran    *)
(* while the shopper left does not stop the loop.                          *)
RunTools(escalates) ==
  /\ stage = "tools"
  /\ handoff' = (handoff \/ escalates)
  /\ IF iteration < MaxTools
     THEN NewCall /\ iteration' = iteration + 1 /\ UNCHANGED result
     ELSE /\ stage' = "answered"
          /\ Returns(Sorry, TRUE, TRUE)
          /\ UNCHANGED <<stream, iteration>>
  /\ UNCHANGED <<shopper, attempt, aborted, panel, billed>>

(* The model refuses, or writes something that is not the schema.          *)
Unusable ==
  /\ StreamEnds("answered")
  /\ UNCHANGED <<shopper, attempt, iteration, handoff, billed>>
  /\ Returns(Sorry, TRUE, TRUE)

(* Fault: the text that is returned is not the text that was validated.    *)
AcceptUnrepaired ==
  /\ Grounded(Restored(ToSet(acc)))
  /\ StreamEnds("answered")
  /\ UNCHANGED <<shopper, attempt, iteration, handoff, billed>>
  /\ Returns(ToSet(acc), TRUE, FALSE)

(* The reply is validated.                                                 *)
Accept ==
  /\ Grounded(Restored(ToSet(acc)))
  /\ StreamEnds("answered")
  /\ UNCHANGED <<shopper, attempt, iteration, handoff, billed>>
  /\ Returns(Restored(ToSet(acc)), TRUE, FALSE)

(* ... and rejected: for a figure or a stock claim, or for its citations.  *)
Reject ==
  /\ UNCHANGED <<shopper, attempt, iteration, handoff, billed>>
  /\ IF attempt = 1
     THEN /\ StreamEnds("retrying")
          /\ UNCHANGED result
     ELSE /\ StreamEnds("answered")
          /\ Returns(Sorry, FALSE, TRUE)

(* The aborted stream rejects, and the tripwire's verdict stands.          *)
TripwireFires ==
  /\ Live /\ tripped
  /\ aborted' = TRUE
  /\ StreamOver
  /\ UNCHANGED <<shopper, attempt, iteration, handoff, panel, billed>>
  /\ IF attempt = 1
     THEN stage' = "retrying" /\ UNCHANGED result
     ELSE stage' = "answered" /\ Returns(Sorry, FALSE, TRUE)

(* Fault: a retry that does not count as one.                              *)
RetryForever ==
  /\ stage = "retrying"
  /\ NewCall
  /\ iteration' = 1
  /\ UNCHANGED <<shopper, attempt, aborted, handoff, result, panel, billed>>

Retry ==
  /\ stage = "retrying"
  /\ NewCall
  /\ attempt' = 2 /\ iteration' = 1
  /\ UNCHANGED <<shopper, aborted, handoff, result, panel, billed>>

(* The call fails, times out, or is cut by the shopper leaving: the turn   *)
(* ends with an error frame, for who is there to see it.                   *)
ModelFails ==
  /\ Live /\ ~tripped
  /\ stage' = "ended"
  /\ screen' = IF left THEN screen ELSE ErrorMessage
  /\ StreamOver
  /\ UNCHANGED <<shopper, attempt, iteration, aborted, handoff, result,
                 buffer, queue, billed>>

(* Leaving aborts the model call that is running, if one is.               *)
ShopperLeaves ==
  /\ ~left /\ reading = 0 /\ stage # "ended"
  /\ left' = TRUE
  /\ cut' = (stage = "model")
  /\ UNCHANGED <<voice, arm, stage, attempt, iteration, reading, acc, emitted, tripped,
                 aborted, handoff, result, panel, billed>>

-----------------------------------------------------------------------------
(* The handler once runTurn returned.                                      *)

(* The chunker is flushed, then an aborted stream resets the panel, and    *)
(* done puts the reply on the screen.                                      *)
Done ==
  /\ stage = "answered"
  /\ stage' = "settling"
  /\ buffer' = {}
  /\ queue' = IF aborted THEN {} ELSE queue \cup buffer
  /\ screen' = result.reply
  /\ UNCHANGED <<shopper, attempt, iteration, stream, aborted, handoff, result, billed>>

(* The loop gave up, or the agent handed off.                              *)
reachedHuman(r) == r.escalated \/ r.handedOff

(* A turn counts as a resolution: not a holdout session, grounded, and not *)
(* handed off.  The escalation reply asserts nothing, so it is grounded    *)
(* unless the second attempt was rejected.                                 *)
isBillable(turn) == turn.arm # "holdout" /\ turn.grounded /\ ~turn.handedOff

(* The arm is looked up and the turn is settled.                           *)
Settle ==
  /\ stage = "settling"
  /\ stage' = "saving"
  /\ billed' = isBillable([arm |-> arm, grounded |-> result.ok,
                           handedOff |-> result.handedOff])
  /\ UNCHANGED <<shopper, attempt, iteration, stream, aborted, handoff, result, panel>>

Save ==
  /\ stage = "saving"
  /\ stage' = "ended"
  /\ UNCHANGED <<shopper, attempt, iteration, stream, aborted, handoff, result, panel, billed>>

(* The arm cannot be read, or the session cannot be saved.                 *)
BookkeepingFails ==
  /\ stage \in {"settling", "saving"}
  /\ stage' = "ended"
  /\ screen' = IF left THEN screen ELSE ErrorMessage
  /\ UNCHANGED <<shopper, attempt, iteration, stream, aborted, handoff, result,
                 buffer, queue, billed>>

Progress ==
  \/ \E n \in 1..MaxBatch : Read(n)
  \/ \E tok \in Token : Delta(tok)
  \/ AskForTools
  \/ \E escalates \in BOOLEAN : RunTools(escalates)
  \/ Unusable \/ Accept \/ Reject \/ TripwireFires \/ Retry \/ ModelFails
  \/ Done \/ Settle \/ Save \/ BookkeepingFails

Next == Progress \/ ShopperLeaves

Spec == Init /\ [][Next]_vars

(* Model calls, tools and stores answer or time out.                       *)
FairSpec == Spec /\ WF_vars(Progress)

-----------------------------------------------------------------------------
TypeOK ==
  /\ voice \in BOOLEAN /\ arm \in {"exposed", "holdout"}
  /\ stage \in {"model", "tools", "retrying", "answered", "settling", "saving", "ended"}
  /\ attempt \in {1, 2} /\ iteration \in 1..MaxTools
  /\ reading \in 0..MaxBatch
  /\ emitted \in 0..Len(acc)
  /\ \A b \in {tripped, cut, left, aborted, handoff, billed} : b \in BOOLEAN
  /\ Len(acc) + reading <= MaxTokens
  /\ screen \subseteq AnyToken \cup Sorry \cup ErrorMessage
  /\ buffer \subseteq {1, 2} /\ queue \subseteq {1, 2}

Closing == stage \in {"settling", "saving"}

(* Whatever was painted while the model wrote, in either attempt and       *)
(* around any tool call, the bubble of a turn that is done holds no figure *)
(* and no stock claim that the tool results do not bear out.               *)
DoneIsGrounded == Closing => Grounded(screen)

(* A turn whose agent called escalate_to_human, in either attempt and      *)
(* whatever came after, and a turn of the control group, costs the         *)
(* merchant nothing.  A turn the loop gave up on is another matter: see    *)
(* GivenUpIsFree.                                                          *)
HandoffIsFree == billed => ~handoff /\ arm = "exposed"

(* Every turn ends its response.                                           *)
TurnEnds == <>(stage = "ended")

(* usage.ts, server.ts: failures are free, and so is a turn that reached a *)
(* human, by a hand-off or because the loop gave up.  (The code bills a    *)
(* turn given up for a refusal, an unreadable answer or too many tools.)   *)
GivenUpIsFree == billed => ~reachedHuman(result)

(* loop.ts: an ungrounded number cannot be seen; the tripwire stops it.    *)
NothingAfterTrip == [][tripped /\ tripped' => emitted' = emitted]_vars
=============================================================================
