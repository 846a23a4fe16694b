--------------------------- MODULE HttpConnection ---------------------------
(***************************************************************************)
(* One HTTP connection of osrm-routed: reading and parsing a request that  *)
(* arrives in pieces (Server/Connection.cpp, Server/RequestParser.cpp),    *)
(* answering it (Server/RequestHandler.cpp, Server/Http/Reply.cpp) and     *)
(* writing the answer.  Connections share no state with each other; the    *)
(* locks around a query are the subject of SharedData.                     *)
(*                                                                         *)
(* A request is a sequence of symbols.  Single characters that the parser  *)
(* tells apart stand for themselves ("sp", "cr", "lf" for space and line   *)
(* ends, "ctl" for other control characters, "hi" for bytes above 127);    *)
(* header names, values and words of the URI are one symbol each.          *)
(***************************************************************************)
EXTENDS Integers, Sequences, FiniteSets

CONSTANTS
    Requests,       \* what clients send: the bytes, and what they are meant to say,
                    \* [bytes, jsonp, valid, uri, referrer, agent, encoding]
    BufferSize,     \* symbols that one read may deliver (8192 bytes in the code)
    SocketBuffer,   \* units of the answer that the socket takes at once
    MaxErrors       \* bound on failing reads and writes

ASSUME SizesAssumption ==
    BufferSize \in Nat \ {0} /\ SocketBuffer \in Nat \ {0} /\ MaxErrors \in Nat
ASSUME RequestsAssumption == \A r \in Requests : r.bytes \in Seq(STRING)

VARIABLES
    request,        \* the client's request
    unread,         \* symbols the server has not read yet
    parser,         \* RequestParser and the Request it fills
    phase,          \* "waiting" for a client, "reading", "writing", "closed", "terminated"
    asked,          \* compression_type, a local of handle_read
    reply,          \* [status, headers, content]
    output,         \* what the pending write still has to send
    alive,          \* the memory behind output still exists
    sent,           \* what the client received
    errors

vars == <<request, unread, parser, phase, asked, reply, output, alive, sent, errors>>

Units(seq) == {seq[i] : i \in 1 .. Len(seq)}

-----------------------------------------------------------------------------
(* RequestParser *)
CTL == {"cr", "lf", "ctl"}
TSpecial == {"sp", ":", "/"}
isTokenChar(c) == c \notin CTL \cup TSpecial \cup {"hi"}
isDigit(c) == c = "1"

EmptyRequest == [state |-> "method_start", name |-> <<>>, value |-> <<>>,
                 uri |-> <<>>, referrer |-> <<>>, agent |-> <<>>]

\* States that wait for one particular character.
Expected == [http_version_h |-> <<"H", "http_version_t_1">>,
             http_version_t_1 |-> <<"T", "http_version_t_2">>,
             http_version_t_2 |-> <<"T", "http_version_p">>,
             http_version_p |-> <<"P", "http_version_slash">>,
             http_version_slash |-> <<"/", "http_version_major_start">>,
             expecting_newline_1 |-> <<"lf", "header_line_start">>,
             expecting_newline_2 |-> <<"lf", "header_line_start">>,
             space_before_header_value |-> <<"sp", "header_value">>,
             expecting_newline_3 |-> <<"lf", "complete">>]

\* The header that ended with the previous line is evaluated.
Evaluated(p) ==
    [p EXCEPT !.referrer = IF p.name = <<"Referer">> THEN p.value ELSE @,
              !.agent = IF p.name = <<"User-Agent">> THEN p.value ELSE @]

Compression(p, before) ==
    IF p.state # "header_line_start" \/ p.name # <<"Accept-Encoding">> THEN before
    ELSE IF "gzip" \in Units(p.value) THEN "gzip"
    ELSE IF "deflate" \in Units(p.value) THEN "deflate" ELSE before

\* Mutant: the header is kept when the next line begins.
ConsumeHeaderStartKeeping(p, c) ==
    IF c = "cr" THEN [Evaluated(p) EXCEPT !.state = "expecting_newline_3"]
    ELSE IF isTokenChar(c)
         THEN [Evaluated(p) EXCEPT !.state = "header_name", !.name = Append(@, c)]
         ELSE [p EXCEPT !.state = "bad"]

\* Mutant: the empty line is taken for one more header.
ConsumeHeaderStartForever(p, c) ==
    IF c = "cr" THEN [Evaluated(p) EXCEPT !.state = "expecting_newline_2"]
    ELSE IF isTokenChar(c)
         THEN [Evaluated(p) EXCEPT !.state = "header_name", !.name = <<c>>, !.value = <<>>]
         ELSE [p EXCEPT !.state = "bad"]

ConsumeHeaderStart(p, c) ==
    IF c = "cr" THEN [Evaluated(p) EXCEPT !.state = "expecting_newline_3"]
    ELSE IF isTokenChar(c)
         THEN [Evaluated(p) EXCEPT !.state = "header_name", !.name = <<c>>, !.value = <<>>]
         ELSE [p EXCEPT !.state = "bad"]

\* consume(): the parser after one more character; "complete" and "bad" end it.
consume(p, c) ==
    LET Goto(state) == [p EXCEPT !.state = state]
        bad == Goto("bad")
    IN  CASE p.state \in DOMAIN Expected ->
               IF c = Expected[p.state][1] THEN Goto(Expected[p.state][2]) ELSE bad
          [] p.state = "method_start" -> IF isTokenChar(c) THEN Goto("method") ELSE bad
          [] p.state = "method" ->
               IF c = "sp" THEN Goto("uri") ELSE IF isTokenChar(c) THEN p ELSE bad
          [] p.state = "uri" ->
               IF c = "sp" THEN Goto("http_version_h")
               ELSE IF c \in CTL THEN bad ELSE [p EXCEPT !.uri = Append(@, c)]
          [] p.state = "http_version_major_start" ->
               IF isDigit(c) THEN Goto("http_version_major") ELSE bad
          [] p.state = "http_version_major" ->
               IF c = "." THEN Goto("http_version_minor_start")
               ELSE IF isDigit(c) THEN p ELSE bad
          [] p.state = "http_version_minor_start" ->
               IF isDigit(c) THEN Goto("http_version_minor") ELSE bad
          [] p.state = "http_version_minor" ->
               IF c = "cr" THEN Goto("expecting_newline_1") ELSE IF isDigit(c) THEN p ELSE bad
          [] p.state = "header_line_start" -> ConsumeHeaderStart(p, c)
          [] p.state = "header_name" ->
               IF c = ":" THEN Goto("space_before_header_value")
               ELSE IF isTokenChar(c) THEN [p EXCEPT !.name = Append(@, c)] ELSE bad
          [] p.state = "header_value" ->
               IF c = "cr" THEN Goto("expecting_newline_2")
               ELSE IF c \in CTL THEN bad ELSE [p EXCEPT !.value = Append(@, c)]

\* One turn of the loop of Parse(): the header that a line ended is looked at for the
\* compression, and the character is consumed unless a result is known.
Consumed(s, c) ==
    IF s.parser.state \in {"complete", "bad"} THEN s
    ELSE [parser |-> consume(s.parser, c), compression |-> Compression(s.parser, s.compression)]

\* Parse(): consumes until a result is known; bytes behind it are ignored.
Parse(p, chunk, compression_type) ==
    LET after[i \in 0 .. Len(chunk)] ==
          IF i = 0 THEN [parser |-> p, compression |-> compression_type]
          ELSE Consumed(after[i - 1], chunk[i])
    IN  after[Len(chunk)]

-----------------------------------------------------------------------------
(* RequestHandler and Reply *)
Header(name, value) == [name |-> name, value |-> value]

StockReply(status) ==
    [status |-> status, content |-> <<"html">>,
     headers |-> <<Header("Content-Length", 1), Header("Content-Type", 0)>>]

\* RunQuery: a plugin renders a result into the reply or replaces the reply by a
\* stock reply; an unknown service replaces it as well.
RunQuery(r, outcome) ==
    IF outcome = "rejected" THEN StockReply(400)
    ELSE [r EXCEPT !.status = 200, !.content = @ \o <<"json", "json">>]

\* handle_request for the outcomes of the URI grammar and of the query.
HandleRequest(jsonp, outcome) ==
    LET prefixed == [status |-> 200, headers |-> <<>>,
                     content |-> IF jsonp THEN <<"(">> ELSE <<>>]
        result == RunQuery(prefixed, outcome)
        content == IF jsonp THEN Append(result.content, ")") ELSE result.content
    IN  CASE outcome = "malformed" -> [StockReply(400) EXCEPT !.content = <<"error">>]
          [] outcome = "exception" -> StockReply(500)
          [] OTHER ->
               [result EXCEPT !.content = content,
                  !.headers = @ \o <<Header("Content-Length", Len(content)),
                                     Header("Content-Type", 0)>>]

\* Mutant: only the last Content-Length is set.
SetLastSize(headers, size) ==
    [headers EXCEPT ![Len(headers) - 1].value = size]

SetSize(headers, size) ==
    [i \in DOMAIN headers |->
       IF headers[i].name = "Content-Length" THEN [headers[i] EXCEPT !.value = size]
       ELSE headers[i]]

\* Compressed data is as long as its header, and every unit depends on all of content.
Compressed(content) == <<"z">> \o content

-----------------------------------------------------------------------------
(* Connection *)

\* async_write: what the socket takes at once is sent before the call returns; the
\* vector compressed_output is destroyed right after it.
StartWrite(body, compressed) ==
    /\ sent' = SubSeq(body, 1, IF Len(body) < SocketBuffer THEN Len(body) ELSE SocketBuffer)
    /\ output' = SubSeq(body, Len(sent') + 1, Len(body))
    /\ alive' = ~compressed
    /\ phase' = "writing"

HandleRead ==
    /\ phase = "reading" /\ unread # <<>>
    /\ \E k \in 1 .. BufferSize :
         /\ k <= Len(unread)
         /\ LET parsed == Parse(parser, SubSeq(unread, 1, k), "none") IN
            /\ parser' = parsed.parser
            /\ asked' = parsed.compression
            /\ unread' = SubSeq(unread, k + 1, Len(unread))
            /\ \/ /\ parser'.state = "complete"
                  /\ \E outcome \in {"malformed", "exception", "rejected", "answered"} :
                       LET made == HandleRequest(request.jsonp, outcome)
                           body == IF asked' = "none" THEN made.content
                                   ELSE Compressed(made.content)
                           sized == SetSize(made.headers, Len(body))
                       IN  /\ reply' = [made EXCEPT !.headers =
                                          IF asked' = "none" THEN sized
                                          ELSE <<Header("Content-Encoding", 0)>> \o sized]
                           /\ StartWrite(body, asked' # "none")
               \/ /\ parser'.state = "bad"
                  /\ reply' = StockReply(400)
                  /\ StartWrite(StockReply(400).content, FALSE)
               \/ /\ parser'.state \notin {"complete", "bad"}
                  /\ UNCHANGED <<reply, output, alive, sent, phase>>
    /\ UNCHANGED <<request, errors>>

\* remote_endpoint() throws when the client of a complete request is gone; nothing
\* catches it in the thread of the io_service, and the process ends.
RemoteEndpointThrows ==
    /\ phase = "reading" /\ unread # <<>> /\ errors < MaxErrors
    /\ Len(unread) <= BufferSize /\ Parse(parser, unread, "none").parser.state = "complete"
    /\ phase' = "terminated" /\ errors' = errors + 1
    /\ UNCHANGED <<request, unread, parser, asked, reply, output, alive, sent>>

\* A failed read ends the connection.
ReadFails ==
    /\ phase = "reading" /\ errors < MaxErrors
    /\ phase' = "closed" /\ errors' = errors + 1
    /\ UNCHANGED <<request, unread, parser, asked, reply, output, alive, sent>>

\* The rest of a long answer: buffers that were destroyed hold anything.
WriteMore ==
    /\ phase = "writing" /\ output # <<>>
    /\ LET n == IF Len(output) < SocketBuffer THEN Len(output) ELSE SocketBuffer
       IN  /\ output' = SubSeq(output, n + 1, Len(output))
           /\ \/ sent' = sent \o SubSeq(output, 1, n)
              \/ ~alive /\ sent' = sent \o [i \in 1 .. n |-> "garbage"]
    /\ UNCHANGED <<request, unread, parser, phase, asked, reply, alive, errors>>

\* handle_write: graceful shutdown.
HandleWrite ==
    /\ phase = "writing" /\ output = <<>>
    /\ phase' = "closed"
    /\ UNCHANGED <<request, unread, parser, asked, reply, output, alive, sent, errors>>

WriteFails ==
    /\ phase = "writing" /\ errors < MaxErrors
    /\ phase' = "closed" /\ errors' = errors + 1
    /\ UNCHANGED <<request, unread, parser, asked, reply, output, alive, sent>>

ConnectionInit ==
    /\ request \in Requests
    /\ unread = request.bytes
    /\ parser = EmptyRequest
    /\ phase = "waiting" /\ asked = "none"
    /\ reply = [status |-> 200, headers |-> <<>>, content |-> <<>>]
    /\ output = <<>> /\ alive = TRUE /\ sent = <<>> /\ errors = 0

\* start(): the first read.
Start ==
    /\ phase = "waiting"
    /\ phase' = "reading"
    /\ UNCHANGED <<request, unread, parser, asked, reply, output, alive, sent, errors>>

\* The handlers, and the two faults that end the connection.
Handle == HandleRead \/ WriteMore \/ HandleWrite
Fail == ReadFails \/ WriteFails

-----------------------------------------------------------------------------
(* Properties *)

Answered == phase \notin {"waiting", "reading"} /\ reply.headers # <<>>

\* The pieces in which a request arrives make no difference: it is accepted exactly
\* when it is well-formed, and the URI, the referrer and the agent that the handler
\* sees are those the client sent (RequestParser keeps its state between reads).
ParsedAsSent ==
    Answered =>
      /\ (parser.state = "complete") <=> request.valid
      /\ request.valid =>
           /\ parser.uri = request.uri /\ parser.referrer = request.referrer
           /\ parser.agent = request.agent

\* Every Content-Length header of an answer states the length of the body that is
\* sent, also for replaced and compressed replies, which carry the header twice.
LengthMatchesBody ==
    Answered =>
      \A i \in DOMAIN reply.headers :
        reply.headers[i].name = "Content-Length" =>
          reply.headers[i].value = Len(sent) + Len(output)

\* "compress the result w/ gzip/deflate if requested" (handle_read): the encoding of
\* an answer is the one the client asked for.
CompressedIfRequested ==
    Answered /\ parser.state = "complete" => asked = request.encoding

\* "write result to stream" (handle_read): what the client receives is the reply.
ResultIsWritten == "garbage" \notin Units(sent)
=============================================================================
