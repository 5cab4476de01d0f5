---------------------------- MODULE EventStream ----------------------------
(***************************************************************************)
(* Server-sent events: messages that a handler sends, itself or from the   *)
(* channel of a stream, with pings between them, and the events a client   *)
(* reads from the wire.  Encodings fail, and the connection breaks at any  *)
(* character.                                                              *)
(***************************************************************************)
EXTENDS Integers, Sequences

\* A text is a sequence of characters, the names of fields among them.  What the data of a
\* message is encoded to, by its own serializer (own), that of the stream's options (option)
\* and without one (plain), is a set: one text, or none when it fails.
CONSTANTS
  Chars,      \* the characters
  Messages,   \* records [id, event, retry, hasData, hasOwn, own, option, plain]
  Generated,  \* the id of a message without one
  MaxSends    \* how many sends and pings, for TLC

CR == "CR"
LF == "LF"

ASSUME EventAssumption ==
  /\ Generated \in Seq(Chars) \ {<<>>}
  /\ \A m \in Messages :
       /\ {m.id, m.event, m.retry} \subseteq Seq(Chars)
       /\ m.own \cup m.option \cup m.plain \subseteq Seq(Chars)

VARIABLES
  wire,       \* what was written
  sent,       \* the messages sent without an error, in order: [message, text, afterFailure]
  failed,     \* an encoding failed, and no message was sent since
  mode,       \* "handler", "stream", or "broken"
  withOption, \* the stream has a serializer of its own
  sends       \* how many sends and pings there were

eventVars == <<wire, sent, failed, mode, withOption, sends>>

EventInit ==
  /\ wire = <<>> /\ sent = <<>> /\ failed = FALSE /\ mode = "handler"
  /\ withOption = FALSE /\ sends = 0

-----------------------------------------------------------------------------
\* FoldLeft, as a recursive function of the position.
Folded(Step(_, _), start, text) ==
  LET state[n \in 0 .. Len(text)] ==
        IF n = 0 THEN start ELSE Step(state[n - 1], text[n])
  IN  state[Len(text)]

\* sanitizeSSEField
Keep(kept, c)   == IF c \in {CR, LF} THEN kept ELSE Append(kept, c)
Sanitized(text) == Folded(Keep, <<>>, text)

\* Bug: only LF ends a line.
NormalizedLF(text) == text

\* sseLineEnds: CR and CR LF become LF.
Convert(state, c) ==
  [text |-> IF c = LF /\ state.cr THEN state.text ELSE Append(state.text, IF c = CR THEN LF ELSE c),
   cr   |-> c = CR]
Normalized(text) == Folded(Convert, [text |-> <<>>, cr |-> FALSE], text).text

\* writeData: each line is a field.
DataLine(written, c) == written \o (IF c = LF THEN <<LF, "data: ">> ELSE <<c>>)
DataLines(text)      == Folded(DataLine, <<"data: ">>, Normalized(text)) \o <<LF, LF>>

\* writeID, writeEvent, writeRetry
FieldLine(name, text) == IF text = <<>> THEN <<>> ELSE <<name>> \o Sanitized(text) \o <<LF>>

IdOf(m) == IF m.id = <<>> THEN Generated ELSE m.id

FieldLines(m) ==
  FieldLine("id: ", IdOf(m)) \o FieldLine("event: ", m.event) \o FieldLine("retry: ", m.retry)

\* writeData: the message's serializer, then the stream's, or none.
Encoded(m, option) ==
  IF ~m.hasData THEN {<<>>} ELSE IF m.hasOwn THEN m.own ELSE IF option THEN m.option ELSE m.plain

\* Send writes the fields, encodes the data and writes its lines; or the connection breaks.
Send(m, option) ==
  /\ sends < MaxSends /\ sends' = sends + 1
  /\ \/ /\ Encoded(m, option) = {}
        /\ wire' = wire \o FieldLines(m) /\ failed' = TRUE /\ mode' = "handler"
        /\ UNCHANGED sent
     \/ \E text \in Encoded(m, option) :
          /\ wire' = wire \o FieldLines(m) \o DataLines(text)
          /\ sent' = Append(sent, [message |-> m, text |-> text, afterFailure |-> failed])
          /\ failed' = FALSE
          /\ UNCHANGED mode
     \/ \E text \in Encoded(m, option) :
          \E n \in 0 .. Len(FieldLines(m) \o DataLines(text)) - 1 :
            /\ wire' = wire \o SubSeq(FieldLines(m) \o DataLines(text), 1, n)
            /\ mode' = "broken"
            /\ UNCHANGED <<sent, failed>>
  /\ UNCHANGED withOption

\* SSEvent, SSESendEvent, SSESendData, SendSSECustom and the others, by the handler.
SendSSE(m) == mode = "handler" /\ Send(m, FALSE)

\* SSEStream, and SSEStreamWithOptions with a serializer or without.
SSEStream ==
  /\ mode = "handler" /\ mode' = "stream"
  /\ withOption' \in BOOLEAN
  /\ UNCHANGED <<wire, sent, failed, sends>>

StreamMessage(m) == mode = "stream" /\ Send(m, withOption)

Ping ==
  /\ mode = "stream" /\ sends < MaxSends /\ sends' = sends + 1
  /\ wire' = wire \o <<": ping", LF, LF>>
  /\ UNCHANGED <<sent, failed, mode, withOption>>

\* The channel is closed, the context ends or a shutdown begins: back to the handler.
StreamStops ==
  /\ mode = "stream" /\ mode' = "handler"
  /\ UNCHANGED <<wire, sent, failed, withOption, sends>>

EventNext ==
  \/ \E m \in Messages : SendSSE(m) \/ StreamMessage(m)
  \/ SSEStream \/ Ping \/ StreamStops

EventSpec == EventInit /\ [][EventNext]_eventVars

-----------------------------------------------------------------------------
(* The client, by the standard: lines end with CR, LF or both; an empty line *)
(* dispatches what has data; what follows the last empty line is dropped.    *)

AddTo(state, c) ==
  IF c = LF /\ state.cr THEN [state EXCEPT !.cr = FALSE]
  ELSE IF c \in {CR, LF}
  THEN [lines |-> Append(state.lines, state.line), line |-> <<>>, cr |-> c = CR]
  ELSE [lines |-> state.lines, line |-> Append(state.line, c), cr |-> FALSE]

\* Those of a text, the last one included.
TextLines(text) ==
  LET end == Folded(AddTo, [lines |-> <<>>, line |-> <<>>, cr |-> FALSE], text)
  IN  Append(end.lines, end.line)

ReadLine(client) ==
  LET l == client.line
  IN  IF l = <<>>
      THEN [client EXCEPT !.type = <<>>, !.data = <<>>,
                          !.events = IF client.data = <<>> THEN @
                                     ELSE Append(@, [id |-> client.id, type |-> client.type,
                                                     data |-> client.data])]
      ELSE CASE l[1] = "id: "    -> [client EXCEPT !.id = Tail(l)]
             [] l[1] = "event: " -> [client EXCEPT !.type = Tail(l)]
             [] l[1] = "data: "  -> [client EXCEPT !.data = Append(@, Tail(l))]
             [] OTHER            -> client

ReadChar(client, c) ==
  IF c = LF /\ client.cr THEN [client EXCEPT !.cr = FALSE]
  ELSE IF c \in {CR, LF} THEN [ReadLine(client) EXCEPT !.line = <<>>, !.cr = c = CR]
  ELSE [client EXCEPT !.line = Append(@, c), !.cr = FALSE]

Fresh == [line |-> <<>>, cr |-> FALSE, id |-> <<>>, type |-> <<>>, data |-> <<>>, events |-> <<>>]

Received == Folded(ReadChar, Fresh, wire).events

\* Clients receive the messages that were sent without an error, each once, whole and in
\* order, under its own id and type: whatever their texts hold, whichever encodings failed
\* between them and wherever the connection broke.  Only the type of a message whose encoding
\* failed, which was written before its data, may stay for a next one that has none.
EventsAsSent ==
  /\ Len(Received) = Len(sent)
  /\ \A k \in DOMAIN sent :
       LET m == sent[k].message
       IN  /\ Received[k].data = TextLines(sent[k].text)
           /\ Received[k].id = Sanitized(IdOf(m))
           /\ (m.event = <<>> /\ sent[k].afterFailure)
              \/ Received[k].type = Sanitized(m.event)
=============================================================================
