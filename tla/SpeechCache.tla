----------------------------- MODULE SpeechCache -----------------------------
(***************************************************************************)
(* Synthesised speech shared between the turn that announces a sentence    *)
(* and the requests that play it: voice/speech-cache.ts, with handleSpeak  *)
(* of server.ts and the stream of synthesizeStream.                        *)
(*                                                                         *)
(* A chunk is a number; an entry is filled by its own pump, so an entry    *)
(* that is not done has exactly one.  A callback and the code up to the    *)
(* next await are one step.                                                *)
(***************************************************************************)
EXTENDS Integers, Sequences, FiniteSets, FiniteSetsExt, SequencesExt

CONSTANTS
  Texts,        \* sentences
  Players,      \* bound: requests of /api/voice/speak
  Audios,       \* bound: ids announced
  MaxBytes,     \* maxBytes, in chunks
  MaxChunks,    \* bound: chunks of a sentence
  MaxFailures,  \* bound: syntheses that fail
  Absent        \* undefined

Clip == [chunks : Nat, done : BOOLEAN, listeners : SUBSET Players]

ASSUME SpeechCacheAssumption ==
  /\ MaxBytes \in Nat /\ MaxChunks \in Nat \ {0} /\ MaxFailures \in Nat
  /\ Absent \notin Clip

VARIABLES
  clips,       \* entries: [chunks, done, listeners], or Absent
  older,       \* <<t, u>>: the entry of t was used before that of u
  totalBytes,
  ids,         \* the text of each announced id, "unused" or "expired"
  players,     \* requests: [state, text, heard], and the length of what was played
  failures

speechVars == <<clips, older, totalBytes, ids, players, failures>>

Quiet == [state |-> "new", text |-> Absent, heard |-> <<>>, whole |-> 0]
NewClip == [chunks |-> 0, done |-> FALSE, listeners |-> {}]
Clips == {t \in Texts : clips[t] # Absent}

SpeechInit ==
  /\ clips = [t \in Texts |-> Absent] /\ older = {} /\ totalBytes = 0
  /\ ids = [i \in Audios |-> "unused"] /\ players = [p \in Players |-> Quiet]
  /\ failures = 0

(* What is left of the order of lastUsed, and the order when t is used.    *)
Without(gone) == {p \in older : {p[1], p[2]} \cap gone = {}}
Used(t) == Without({t}) \cup ((Clips \ {t}) \X {t})

(* begin(): the entry there is, or a new one whose pump starts.            *)
Begun(t) == IF clips[t] = Absent THEN NewClip ELSE clips[t]

(* announce(): an entry that is already there is not used by it.           *)
Announce(i, t) ==
  /\ ids[i] = "unused"
  /\ ids' = [ids EXCEPT ![i] = t]
  /\ clips' = [clips EXCEPT ![t] = Begun(t)]
  /\ older' = IF clips[t] = Absent THEN Used(t) ELSE older
  /\ UNCHANGED <<totalBytes, players, failures>>

(* Two minutes are over.                                                   *)
IdExpires(i) ==
  /\ ids[i] \in Texts
  /\ ids' = [ids EXCEPT ![i] = "expired"]
  /\ UNCHANGED <<clips, older, totalBytes, players, failures>>

UpTo(n) == [k \in 1..n |-> k]

(* Fault: a late listener only follows.                                    *)
ListenWithoutReplay(p, t) ==
  LET clip == Begun(t)
  IN  /\ older' = Used(t)
      /\ clips' = [clips EXCEPT ![t] = IF clip.done THEN clip
                                       ELSE [clip EXCEPT !.listeners = @ \cup {p}]]
      /\ players' = [players EXCEPT ![p] =
           [state |-> IF clip.done THEN "ended" ELSE "playing", text |-> t,
            heard |-> <<>>, whole |-> clip.chunks]]

(* listen(): what has arrived is replayed, and the live chunks follow.     *)
Listen(p, t) ==
  LET clip == Begun(t)
  IN  /\ older' = Used(t)
      /\ clips' = [clips EXCEPT ![t] = IF clip.done THEN clip
                                       ELSE [clip EXCEPT !.listeners = @ \cup {p}]]
      /\ players' = [players EXCEPT ![p] =
           [state |-> IF clip.done THEN "ended" ELSE "playing", text |-> t,
            heard |-> UpTo(clip.chunks), whole |-> clip.chunks]]

(* POST {text}: a client without an id.                                    *)
SpeakText(p, t) ==
  /\ players[p].state = "new"
  /\ Listen(p, t)
  /\ UNCHANGED <<totalBytes, ids, failures>>

(* GET ?id=: the sentence it was announced for.                            *)
SpeakId(p, i) ==
  /\ players[p].state = "new" /\ ids[i] \in Texts
  /\ Listen(p, ids[i])
  /\ UNCHANGED <<totalBytes, ids, failures>>

(* An id that is unknown or expired is no text to speak.                   *)
UnknownAudio(p, i) ==
  /\ players[p].state = "new" /\ ids[i] = "expired"
  /\ players' = [players EXCEPT ![p].state = "refused"]
  /\ UNCHANGED <<clips, older, totalBytes, ids, failures>>

(* The response closes: cancel().                                          *)
ShopperStops(p) ==
  /\ players[p].state = "playing"
  /\ players' = [players EXCEPT ![p].state = "closed"]
  /\ clips' = [clips EXCEPT ![players[p].text].listeners = @ \ {p}]
  /\ UNCHANGED <<older, totalBytes, ids, failures>>

Pumping(t) == clips[t] # Absent /\ ~clips[t].done

(* The pump reads a chunk and hands it to whoever listens.                 *)
PumpReads(t) ==
  /\ Pumping(t) /\ clips[t].chunks < MaxChunks
  /\ clips' = [clips EXCEPT ![t].chunks = @ + 1]
  /\ totalBytes' = totalBytes + 1
  /\ players' = [p \in Players |->
       IF p \notin clips[t].listeners THEN players[p]
       ELSE [players[p] EXCEPT !.heard = Append(@, clips[t].chunks + 1), !.whole = @ + 1]]
  /\ UNCHANGED <<older, ids, failures>>

(* finish(): every listener hears of the end.                              *)
Told(t, state) ==
  players' = [p \in Players |-> IF p \in clips[t].listeners
                                THEN [players[p] EXCEPT !.state = state] ELSE players[p]]

Bytes(cs, ts) == MapThenSumSet(LAMBDA t : cs[t].chunks, ts)

(* evict(): the finished entries nobody listens to, the least recently     *)
(* used first, for as long as the account is over the ceiling.             *)
Evicted(cs, total) ==
  LET idle == {t \in Texts : cs[t] # Absent /\ cs[t].done /\ cs[t].listeners = {}}
  IN  {t \in idle : total - Bytes(cs, {u \in idle : <<u, t>> \in older}) > MaxBytes}

PumpEnds(t) ==
  /\ Pumping(t) /\ clips[t].chunks > 0
  /\ Told(t, "ended")
  /\ LET cs == [clips EXCEPT ![t].done = TRUE, ![t].listeners = {}]
         gone == Evicted(cs, totalBytes)
     IN  /\ clips' = [u \in Texts |-> IF u \in gone THEN Absent ELSE cs[u]]
         /\ totalBytes' = totalBytes - Bytes(cs, gone)
         /\ older' = Without(gone)
  /\ UNCHANGED <<ids, failures>>

(* Fault: the bytes of a failed synthesis stay on the account.             *)
FailKeepsBytes(t) ==
  /\ Told(t, "cut") /\ clips' = [clips EXCEPT ![t] = Absent]
  /\ older' = Without({t})
  /\ UNCHANGED totalBytes

(* A failure is not cached; whoever listens keeps what it heard.           *)
Fail(t) ==
  /\ Told(t, "cut") /\ clips' = [clips EXCEPT ![t] = Absent]
  /\ older' = Without({t})
  /\ totalBytes' = totalBytes - clips[t].chunks

PumpFails(t) ==
  /\ Pumping(t) /\ failures < MaxFailures
  /\ Fail(t) /\ failures' = failures + 1
  /\ UNCHANGED ids

SpeechNext ==
  \/ \E i \in Audios : (\E t \in Texts : Announce(i, t)) \/ IdExpires(i)
  \/ \E p \in Players : \/ \E t \in Texts : SpeakText(p, t)
                        \/ \E i \in Audios : SpeakId(p, i) \/ UnknownAudio(p, i)
                        \/ ShopperStops(p)
  \/ \E t \in Texts : PumpReads(t) \/ PumpEnds(t) \/ PumpFails(t)

SpeechSpec == SpeechInit /\ [][SpeechNext]_speechVars

-----------------------------------------------------------------------------
(* Properties.                                                             *)

(* Whoever listens, from whenever on, hears the sentence from its first    *)
(* chunk without a gap or a repetition, and all of it unless the synthesis *)
(* failed or the shopper left; a clip that is kept is a whole one.         *)
AudioIsWhole ==
  \A p \in Players :
    LET q == players[p]
    IN  /\ q.heard = UpTo(Len(q.heard))
        /\ q.state \in {"playing", "ended"} => Len(q.heard) = q.whole
        /\ q.state = "playing" => /\ clips[q.text] # Absent /\ ~clips[q.text].done
                                  /\ p \in clips[q.text].listeners
                                  /\ q.whole = clips[q.text].chunks

(* The account of bytes is that of the entries, whatever failed or was     *)
(* evicted, and the finished ones alone are within the ceiling: what is    *)
(* over it is still being synthesised.                                     *)
BytesAreAccounted ==
  /\ totalBytes = Bytes(clips, Clips)
  /\ Bytes(clips, {t \in Clips : clips[t].done}) <= MaxBytes
=============================================================================
