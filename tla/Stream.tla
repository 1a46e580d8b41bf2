------------------------------- MODULE Stream -------------------------------
(***************************************************************************)
(* The model's answer on its way to the shopper: OpenAIModelClient.stream, *)
(* SseParser and ReplyExtractor (orchestrator/src/providers/openai.ts,     *)
(* streaming.ts).  The model writes a JSON document whose first property   *)
(* is the reply, in deltas of any length; each delta is the data line of   *)
(* an SSE record; the network hands the bytes over in reads of any length. *)
(* A symbol stands for what no cut can change: a delta's line is one, each *)
(* character of the document's text is one, and so is half of the key.     *)
(***************************************************************************)
EXTENDS Integers, Sequences, SequencesExt, FiniteSetsExt

CONSTANTS
  Replies,    \* bound: the replies, sequences of Chars
  MaxDelta,   \* bound: symbols of the document in one delta
  MaxRecords  \* bound: records between the model and the reader

Chars == {"a", "nl", "q", "uni"}

ASSUME StreamAssumption ==
  /\ Replies \subseteq Seq(Chars)
  /\ {MaxDelta, MaxRecords} \subseteq Nat \ {0}

VARIABLES
  reply,    \* the prose the document carries
  doc,      \* that document
  eol,      \* the line end the provider uses
  written,  \* the symbols of the document the model has written
  over,     \* "idle", "no", the terminal event the model has sent, or "cut" connection
  wire,     \* bytes sent and not read
  buf,      \* SseParser.buf
  text,     \* ReplyExtractor.buf
  scan,     \* ReplyExtractor: [state, cursor, pendingEscape]
  shown,    \* what onReplyDelta has been given
  result    \* of stream(): "idle", "running", "final" event seen, "response" or "error"

streamVars == <<reply, doc, eol, written, over, wire, buf, text, scan, shown, result>>

Encoded == [c \in Chars |->
  CASE c = "a" -> <<"a">>
    [] c = "nl" -> <<"\\", "n">>
    [] c = "q" -> <<"\\", "quote">>
    [] c = "uni" -> <<"\\", "u", "h", "h", "h", "h">>]

KEY == <<"re", "ply">>

JsonString(r) == FlattenSeq([i \in DOMAIN r |-> Encoded[r[i]]]) \o <<"quote">>

Document(r, blanks) ==
  <<"open">> \o KEY \o <<":">> \o blanks \o <<"quote">> \o JsonString(r) \o <<"claims">>

-----------------------------------------------------------------------------
(* ReplyExtractor                                                          *)

Symbol(s, i) == IF i \in DOMAIN s THEN s[i] ELSE "none"

(* decodeEscape: the text and length of the escape whose body starts at i, *)
(* or nothing when the buffer ends within it.                              *)
NoEscape == [text |-> <<>>, consumed |-> 0]
Escape(c, n) == [text |-> <<c>>, consumed |-> n]

(* A code unit of four hex digits, or nothing in its place.                *)
CodeUnit(s, i) ==
  IF \A j \in 1..4 : Symbol(s, i + j) = "h" THEN Escape("uni", 5) ELSE [text |-> <<>>, consumed |-> 5]

(* Fault: the fourth digit is not waited for.                              *)
DecodeInHaste(s, i) ==
  CASE Symbol(s, i) = "none" \/ (Symbol(s, i) = "u" /\ i + 3 > Len(s)) -> NoEscape
    [] Symbol(s, i) = "u" /\ i + 3 <= Len(s) -> CodeUnit(s, i)
    [] Symbol(s, i) = "n" -> Escape("nl", 1)
    [] OTHER -> Escape("q", 1)

decodeEscape(s, i) ==
  CASE Symbol(s, i) = "none" \/ (Symbol(s, i) = "u" /\ i + 4 > Len(s)) -> NoEscape
    [] Symbol(s, i) = "u" /\ i + 4 <= Len(s) -> CodeUnit(s, i)
    [] Symbol(s, i) = "n" -> Escape("nl", 1)
    [] OTHER -> Escape("q", 1)

ScanAt(state, i, waits) == [state |-> state, cursor |-> i, pendingEscape |-> waits]
Pause(state, i) == [out |-> <<>>, scan |-> ScanAt(state, i, FALSE)]

(* Once round the loop over the string's characters; an escape the buffer  *)
(* ends within is waited for.                                              *)
Advance(s, b) ==
  LET i == b.scan.cursor
      esc == decodeEscape(s, i)
      waits == b.scan.pendingEscape
      stays == b.scan.state # "in_string" \/ Symbol(s, i) = "none" \/ (waits /\ esc = NoEscape)
  IN  CASE stays -> b
        [] ~stays /\ waits ->
             [out |-> b.out \o esc.text, scan |-> ScanAt("in_string", i + esc.consumed, FALSE)]
        [] ~stays /\ ~waits /\ s[i] = "\\" -> [b EXCEPT !.scan = ScanAt("in_string", i + 1, TRUE)]
        [] ~stays /\ ~waits /\ s[i] = "quote" -> [b EXCEPT !.scan = ScanAt("done", i + 1, FALSE)]
        [] OTHER -> [out |-> Append(b.out, s[i]), scan |-> ScanAt("in_string", i + 1, FALSE)]

InString(s, sc) ==
  LET After[n \in 0..Len(s)] ==
        IF n = 0 THEN [out |-> <<>>, scan |-> sc] ELSE Advance(s, After[n - 1])
  IN  After[Len(s)]

SkipBlanks(s, i) == IF Symbol(s, i) = "blank" THEN i + 1 ELSE i

OpenQuote(s, i) ==
  LET j == SkipBlanks(s, i) IN
  CASE Symbol(s, j) = "none" -> Pause("seeking_open_quote", j)
    [] Symbol(s, j) = "quote" -> InString(s, ScanAt("in_string", j + 1, FALSE))
    [] OTHER -> Pause("seeking_key", j)

Colon(s, i) ==
  LET j == SkipBlanks(s, i) IN
  CASE Symbol(s, j) = "none" -> Pause("seeking_colon", j)
    [] Symbol(s, j) = ":" -> OpenQuote(s, j + 1)
    [] OTHER -> Pause("seeking_key", j)

(* Without the key, a tail of its length is searched again.                *)
Key(s, i) ==
  LET found == {j \in i..Len(s) - 1 : SubSeq(s, j, j + 1) = KEY} IN
  IF found = {} THEN Pause("seeking_key", Max({1, Len(s) + 1 - Len(KEY)}))
  ELSE Colon(s, Min(found) + Len(KEY))

(* ReplyExtractor.push over the buffer with the chunk appended.            *)
Extract(s, sc) ==
  CASE sc.state = "seeking_key" -> Key(s, sc.cursor)
    [] sc.state = "seeking_colon" -> Colon(s, sc.cursor)
    [] sc.state = "seeking_open_quote" -> OpenQuote(s, sc.cursor)
    [] sc.state = "in_string" -> InString(s, sc)
    [] OTHER -> [out |-> <<>>, scan |-> sc]

-----------------------------------------------------------------------------
(* SseParser                                                               *)

(* What travels is a line, whole, or one byte of a line's end.             *)
CR == <<"cr">>
LF == <<"lf">>
Ends == {CR, LF}
LineEnd == IF eol = "lf" THEN <<LF>> ELSE <<CR, LF>>

(* indexOfRecordEnd, and the length of the end found there.                *)
RecordEnds(s) ==
  {<<i, 2>> : i \in {i \in 1..Len(s) - 1 : SubSeq(s, i, i + 1) = <<LF, LF>>}}
    \cup
  {<<i, 4>> : i \in {i \in 1..Len(s) - 3 : SubSeq(s, i, i + 3) = <<CR, LF, CR, LF>>}}

(* Comments carry no data and yield no event.                              *)
DataLines(s) ==
  FlattenSeq([i \in DOMAIN s |-> IF s[i] \in Ends \cup {<<"comment">>} THEN <<>> ELSE <<s[i]>>])

(* push: the events of the whole records, and what is kept for next time.  *)
Records(s) ==
  IF RecordEnds(s) = {} THEN [events |-> <<>>, rest |-> s]
  ELSE LET end == CHOOSE e \in RecordEnds(s) : \A f \in RecordEnds(s) : e[1] <= f[1]
       IN  [events |-> DataLines(SubSeq(s, 1, end[1] - 1)),
            rest |-> SubSeq(s, end[1] + end[2], Len(s))]

ParserPush(s) ==
  LET Parse[n \in 0..MaxRecords + 1] ==
        LET before == IF n = 0 THEN [events |-> <<>>, rest |-> s] ELSE Parse[n - 1]
            r == Records(before.rest)
        IN  [events |-> before.events \o r.events, rest |-> r.rest]
  IN  Parse[MaxRecords + 1]

-----------------------------------------------------------------------------
NewScan == ScanAt("seeking_key", 1, FALSE)

StreamInit ==
  /\ reply = <<>> /\ doc = <<>> /\ eol = "lf"
  /\ written = 0 /\ over = "idle" /\ wire = <<>> /\ buf = <<>>
  /\ text = <<>> /\ scan = NewScan /\ shown = <<>> /\ result = "idle"

(* The request is answered with a body; a provider has its own line ends.  *)
Responds ==
  /\ result = "idle" /\ result' = "running" /\ over' = "no"
  /\ reply' \in Replies
  /\ \E blanks \in {<<>>, <<"blank">>} : doc' = Document(reply', blanks)
  /\ eol' \in {"lf", "crlf"}
  /\ UNCHANGED <<written, wire, buf, text, scan, shown>>

InFlight == Cardinality({i \in DOMAIN wire : wire[i] \notin Ends})

SendRecord(line) ==
  /\ over = "no" /\ InFlight < MaxRecords
  /\ wire' = wire \o <<line>> \o LineEnd \o LineEnd

Unchanged == UNCHANGED <<reply, doc, eol, buf, text, scan, shown, result>>

(* A delta names the part of the document it carries.                      *)
ModelWrites ==
  \E n \in 1..MaxDelta :
    /\ written + n <= Len(doc) /\ written' = written + n
    /\ SendRecord(<<"delta", written + 1, written + n>>)
    /\ UNCHANGED over /\ Unchanged

Heartbeat == SendRecord(<<"comment">>) /\ UNCHANGED <<written, over>> /\ Unchanged

(* A token limit or a failure may end the document anywhere.               *)
ModelEnds ==
  \E e \in {"completed", "incomplete", "failed"} :
    /\ e = "completed" => written = Len(doc)
    /\ SendRecord(<<e>>) /\ over' = e
    /\ UNCHANGED written /\ Unchanged

(* The connection breaks, the deadline passes or the caller aborts.        *)
ConnectionEnds ==
  /\ over = "no" /\ over' = "cut"
  /\ UNCHANGED <<written, wire>> /\ Unchanged

(* One event of a read after another; an error leaves the rest unread.     *)
Handled(events) ==
  LET Upto[n \in 0..Len(events)] ==
        IF n = 0 THEN [text |-> text, scan |-> scan, out |-> shown, result |-> result]
        ELSE LET h == Upto[n - 1]
                 e == events[n]
             IN  IF h.result = "error" THEN h
                 ELSE CASE e[1] = "failed" -> [h EXCEPT !.result = "error"]
                        [] e[1] \in {"completed", "incomplete"} -> [h EXCEPT !.result = "final"]
                        [] OTHER -> LET s == h.text \o SubSeq(doc, e[2], e[3])
                                        x == Extract(s, h.scan)
                                    IN  [h EXCEPT !.text = s, !.scan = x.scan, !.out = @ \o x.out]
  IN  Upto[Len(events)]

ReadBytes ==
  \E n \in 1..Len(wire) :
    LET p == ParserPush(buf \o SubSeq(wire, 1, n))
        h == Handled(p.events)
    IN  /\ result \in {"running", "final"}
        /\ buf' = p.rest /\ wire' = SubSeq(wire, n + 1, Len(wire))
        /\ text' = h.text /\ scan' = h.scan /\ shown' = h.out /\ result' = h.result
        /\ UNCHANGED <<reply, doc, eol, written, over>>

(* The body is over: only a terminal event makes it an answer.             *)
Done ==
  /\ result \in {"running", "final"} /\ wire = <<>> /\ over # "no"
  /\ result' = IF result = "final" THEN "response" ELSE "error"
  /\ UNCHANGED <<reply, doc, eol, written, over, wire, buf, text, scan, shown>>

StreamNext == Responds \/ ModelWrites \/ Heartbeat \/ ModelEnds \/ ConnectionEnds \/ ReadBytes \/ Done

StreamSpec == StreamInit /\ [][StreamNext]_streamVars

-----------------------------------------------------------------------------
(* However the model cuts its document and the network its bytes, in the   *)
(* middle of a key, an escape or a line end, the shopper reads the reply   *)
(* from its start and nothing else, and all of it once the stream is a     *)
(* completed response.                                                     *)
ReplyIsWhole ==
  /\ Len(shown) <= Len(reply) /\ shown = SubSeq(reply, 1, Len(shown))
  /\ result = "response" /\ over = "completed" => shown = reply
=============================================================================
