------------------------ MODULE HttpConnectionProofs ------------------------
(***************************************************************************)
(* Proofs about a connection of osrm-routed: an answer is as long as its   *)
(* headers say, and a request is parsed the same way in whatever pieces    *)
(* it arrives.                                                             *)
(***************************************************************************)
EXTENDS Server, DataInduction

-----------------------------------------------------------------------------
(* Parsing in pieces *)

\* The loop of Parse(): s[i] is what it has after i characters of chunk.
IsParse(s, first, chunk, n) ==
    s = [i \in 0 .. n |-> IF i = 0 THEN first ELSE Consumed(s[i - 1], chunk[i])]

\* The loop runs through every chunk.
LEMMA LoopExists ==
    ASSUME NEW first, NEW chunk, NEW n \in Nat
    PROVE  \E s : IsParse(s, first, chunk, n)
<1> DEFINE Done == {m \in Nat : \E s : IsParse(s, first, chunk, m)}
<1>1. 0 \in Done
  <2> DEFINE s == [i \in 0 .. 0 |-> first]
  <2>1. s = [i \in 0 .. 0 |-> IF i = 0 THEN first ELSE Consumed(s[i - 1], chunk[i])]
    OBVIOUS
  <2> QED
    BY <2>1 DEF IsParse
<1>2. ASSUME NEW m \in Nat, m \in Done PROVE m + 1 \in Done
  <2>1. PICK s : IsParse(s, first, chunk, m)
    BY <1>2
  <2> DEFINE t == [i \in 0 .. m + 1 |-> IF i = m + 1 THEN Consumed(s[m], chunk[m + 1]) ELSE s[i]]
  <2>2. \A i \in 0 .. m : t[i] = s[i]
    OBVIOUS
  <2>3. \A i \in 0 .. m + 1 : t[i] = IF i = 0 THEN first ELSE Consumed(t[i - 1], chunk[i])
    <3> TAKE i \in 0 .. m + 1
    <3>1. CASE i = m + 1
      BY <3>1, <2>2
    <3>2. CASE i \in 0 .. m
      <4>1. t[i] = s[i] /\ (i # 0 => i - 1 \in 0 .. m /\ t[i - 1] = s[i - 1])
        BY <3>2, <2>2
      <4>2. s[i] = IF i = 0 THEN first ELSE Consumed(s[i - 1], chunk[i])
        BY <3>2, <2>1 DEF IsParse
      <4> QED
        BY <4>1, <4>2
    <3> QED
      BY <3>1, <3>2
  <2>4. IsParse(t, first, chunk, m + 1)
    BY <2>3 DEF IsParse
  <2> QED
    BY <2>4
<1>3. Nat \subseteq Done
  BY <1>1, <1>2, Induction
<1> QED
  BY <1>3

\* Parse returns what its loop has at the end of the chunk.
LEMMA ParseIsLoop ==
    ASSUME NEW p, NEW chunk, NEW c, Len(chunk) \in Nat
    PROVE  \E s : /\ IsParse(s, [parser |-> p, compression |-> c], chunk, Len(chunk))
                  /\ Parse(p, chunk, c) = s[Len(chunk)]
<1> DEFINE s == CHOOSE f : IsParse(f, [parser |-> p, compression |-> c], chunk, Len(chunk))
<1>1. IsParse(s, [parser |-> p, compression |-> c], chunk, Len(chunk))
  BY LoopExists
<1>2. Parse(p, chunk, c) = s[Len(chunk)]
  BY DEF Parse, IsParse
<1> QED
  BY <1>1, <1>2

\* A known result stays.
LEMMA ResultStays ==
    ASSUME NEW s, NEW first, NEW chunk, NEW n \in Nat, IsParse(s, first, chunk, n),
           NEW i \in 0 .. n, s[i].parser.state \in {"complete", "bad"}
    PROVE  s[n] = s[i]
<1> DEFINE Same == {d \in Nat : i + d <= n => s[i + d] = s[i]}
<1>1. 0 \in Same
  OBVIOUS
<1>2. ASSUME NEW d \in Nat, d \in Same PROVE d + 1 \in Same
  <2> SUFFICES ASSUME i + d + 1 <= n PROVE s[i + d + 1] = s[i]
    OBVIOUS
  <2>1. s[i + d] = s[i]
    BY <1>2
  <2>2. i + d + 1 \in 0 .. n /\ i + d + 1 # 0 /\ (i + d + 1) - 1 = i + d
    OBVIOUS
  <2>3. s[i + d + 1] = Consumed(s[i + d], chunk[i + d + 1])
    BY <2>2 DEF IsParse
  <2> QED
    BY <2>1, <2>3 DEF Consumed
<1>3. Nat \subseteq Same
  BY <1>1, <1>2, Induction
<1>4. n - i \in Nat /\ i + (n - i) = n
  OBVIOUS
<1> QED
  BY <1>3, <1>4

\* A parser that has read the first k characters of a request and goes on with a piece
\* of it is where it would be had it never been interrupted.  What compression it found
\* on the way makes no difference.
LEMMA PieceContinues ==
    ASSUME NEW s, NEW first, NEW piece, NEW m \in Nat, IsParse(s, first, piece, m),
           NEW w, NEW start, NEW whole, NEW n \in Nat, IsParse(w, start, whole, n),
           NEW k \in Nat, k + m <= n,
           s[0].parser = w[k].parser,
           \A i \in 1 .. m : piece[i] = whole[k + i]
    PROVE  s[m].parser = w[k + m].parser
<1> DEFINE Agree == {i \in Nat : i <= m => s[i].parser = w[k + i].parser}
<1>1. 0 \in Agree
  OBVIOUS
<1>2. ASSUME NEW i \in Nat, i \in Agree PROVE i + 1 \in Agree
  <2> SUFFICES ASSUME i + 1 <= m PROVE s[i + 1].parser = w[k + i + 1].parser
    OBVIOUS
  <2>1. i + 1 \in 1 .. m /\ i + 1 \in 0 .. m /\ (i + 1) - 1 = i /\ i + 1 # 0
    OBVIOUS
  <2>2. k + i + 1 \in 0 .. n /\ (k + i + 1) - 1 = k + i /\ k + i + 1 # 0 /\ k + (i + 1) = k + i + 1
    OBVIOUS
  <2>3. s[i + 1] = Consumed(s[i], piece[i + 1])
    BY <2>1 DEF IsParse
  <2>4. w[k + i + 1] = Consumed(w[k + i], whole[k + i + 1])
    BY <2>2 DEF IsParse
  <2>5. piece[i + 1] = whole[k + i + 1]
    BY <2>1, <2>2
  <2>6. s[i].parser = w[k + i].parser
    BY <1>2, <2>1
  <2> QED
    BY <2>3, <2>4, <2>5, <2>6 DEF Consumed
<1>3. Nat \subseteq Agree
  BY <1>1, <1>2, Induction
<1> QED
  BY <1>3

-----------------------------------------------------------------------------
(* The connection while it reads, and its answer *)

\* The parser after each prefix of a request that arrives in one piece.
Whole(r) ==
    CHOOSE s : IsParse(s, [parser |-> EmptyRequest, compression |-> "none"], r.bytes, Len(r.bytes))

Known == parser.state \in {"complete", "bad"}
ReadSoFar == Len(request.bytes) - Len(unread)

\* The parser is where an uninterrupted one would be, and nothing is answered before a
\* result is known.
ReadInv ==
    /\ request \in Requests
    /\ unread \in Seq(STRING) /\ Len(unread) <= Len(request.bytes)
    /\ \A i \in 1 .. Len(unread) : unread[i] = request.bytes[ReadSoFar + i]
    /\ parser = Whole(request)[ReadSoFar].parser
    /\ reply.headers # <<>> => Known /\ phase \notin {"waiting", "reading"}

\* An uninterrupted parser exists for every request.
LEMMA WholeIsLoop ==
    ASSUME NEW r \in Requests
    PROVE  /\ IsParse(Whole(r), [parser |-> EmptyRequest, compression |-> "none"],
                      r.bytes, Len(r.bytes))
           /\ Len(r.bytes) \in Nat
           /\ Whole(r)[0].parser = EmptyRequest
           /\ Parse(EmptyRequest, r.bytes, "none") = Whole(r)[Len(r.bytes)]
<1>1. Len(r.bytes) \in Nat
  BY RequestsAssumption
<1>2. IsParse(Whole(r), [parser |-> EmptyRequest, compression |-> "none"], r.bytes, Len(r.bytes))
  BY <1>1, LoopExists DEF Whole
<1>3. Whole(r)[0].parser = EmptyRequest
  BY <1>1, <1>2 DEF IsParse
<1>4. Parse(EmptyRequest, r.bytes, "none") = Whole(r)[Len(r.bytes)]
  BY DEF Parse, IsParse, Whole
<1> QED
  BY <1>1, <1>2, <1>3, <1>4

\* Reading the next piece of the request.
LEMMA ReadPiece ==
    ASSUME ReadInv, NEW k \in 1 .. Len(unread),
           parser' = Parse(parser, SubSeq(unread, 1, k), "none").parser,
           unread' = SubSeq(unread, k + 1, Len(unread)), request' = request
    PROVE  /\ unread' \in Seq(STRING) /\ Len(unread') <= Len(request'.bytes)
           /\ \A i \in 1 .. Len(unread') : unread'[i] = request'.bytes[ReadSoFar' + i]
           /\ parser' = Whole(request')[ReadSoFar'].parser
<1> DEFINE piece == SubSeq(unread, 1, k)
           whole == request.bytes
<1>0. request \in Requests /\ whole \in Seq(STRING) /\ unread \in Seq(STRING)
  BY RequestsAssumption DEF ReadInv
<1>1. /\ Len(whole) \in Nat /\ Len(unread) \in Nat /\ Len(piece) = k /\ Len(piece) \in Nat
      /\ \A i \in 1 .. k : piece[i] = unread[i]
  BY <1>0
<1>2. unread' \in Seq(STRING) /\ Len(unread') = Len(unread) - k
  BY <1>0
<1>3. \A i \in 1 .. Len(unread') : unread'[i] = unread[k + i]
  BY <1>0, <1>2
<1>4. ReadSoFar \in Nat /\ ReadSoFar' = ReadSoFar + k /\ ReadSoFar + k <= Len(whole)
  <2>1. Len(unread) <= Len(whole)
    BY DEF ReadInv
  <2>2. ReadSoFar = Len(whole) - Len(unread) /\ ReadSoFar' = Len(whole) - Len(unread')
    BY DEF ReadSoFar
  <2> QED
    BY <1>1, <1>2, <2>1, <2>2
<1>5. \A i \in 1 .. Len(unread') : unread'[i] = whole[ReadSoFar' + i]
  <2> TAKE i \in 1 .. Len(unread')
  <2>1. k + i \in 1 .. Len(unread) /\ ReadSoFar + (k + i) = ReadSoFar' + i
    BY <1>1, <1>2, <1>4
  <2> QED
    BY <1>3, <2>1 DEF ReadInv
<1>a. parser' = Parse(parser, piece, "none").parser
  OBVIOUS
<1> HIDE DEF piece, whole
<1>6. PICK s : /\ IsParse(s, [parser |-> parser, compression |-> "none"], piece, Len(piece))
               /\ Parse(parser, piece, "none") = s[Len(piece)]
  BY <1>1, ParseIsLoop
<1>7. \A i \in 1 .. k : piece[i] = whole[ReadSoFar + i]
  <2> TAKE i \in 1 .. k
  <2>1. i \in 1 .. Len(unread)
    BY <1>1
  <2> QED
    BY <1>1, <2>1 DEF ReadInv, whole
<1>8. parser = Whole(request)[ReadSoFar].parser
  BY DEF ReadInv
<1>9. s[k].parser = Whole(request)[ReadSoFar + k].parser
  <2>1. IsParse(Whole(request), [parser |-> EmptyRequest, compression |-> "none"],
               whole, Len(whole))
    BY <1>0, WholeIsLoop DEF whole
  <2>2. IsParse(s, [parser |-> parser, compression |-> "none"], piece, k)
    BY <1>1, <1>6
  <2>3. s[0].parser = Whole(request)[ReadSoFar].parser
    BY <1>1, <1>6, <1>8 DEF IsParse
  <2>4. k \in Nat
    OBVIOUS
  <2> DEFINE first == [parser |-> parser, compression |-> "none"]
             start == [parser |-> EmptyRequest, compression |-> "none"]
             w == Whole(request)
             n == Len(whole)
             r == ReadSoFar
  <2>5. /\ IsParse(s, first, piece, k) /\ IsParse(w, start, whole, n) /\ s[0].parser = w[r].parser
        /\ n \in Nat /\ k \in Nat /\ r \in Nat /\ r + k <= n
        /\ \A i \in 1 .. k : piece[i] = whole[r + i]
    BY <1>1, <1>4, <1>7, <2>1, <2>2, <2>3, <2>4
  <2> HIDE DEF first, start, w, n, r
  <2>6. s[k].parser = w[r + k].parser
    BY <2>5, PieceContinues
  <2> QED
    BY <2>6 DEF w, r
<1>10. parser' = Whole(request')[ReadSoFar'].parser
  BY <1>1, <1>4, <1>6, <1>9, <1>a
<1>11. Len(unread') <= Len(request'.bytes)
  BY <1>1, <1>2, <1>4 DEF whole, ReadSoFar
<1> QED
  BY <1>2, <1>5, <1>10, <1>11 DEF whole

-----------------------------------------------------------------------------
(* Replies *)

Symbols == {"html", "json", "error", "(", ")", "z", "garbage"}
Headers == [name : {"Content-Length", "Content-Type", "Content-Encoding"}, value : Int]

\* Every Content-Length of the headers says size.
AllSay(headers, size) ==
    \A i \in DOMAIN headers : headers[i].name = "Content-Length" => headers[i].value = size

\* The lengths of what was sent and of what is still to be sent add up to what every
\* Content-Length says.
LengthInv ==
    /\ sent \in Seq(Symbols) /\ output \in Seq(Symbols)
    /\ AllSay(reply.headers, Len(sent) + Len(output))

\* Joined sequences.
LEMMA Joined ==
    ASSUME NEW S, NEW s \in Seq(S), NEW t \in Seq(S)
    PROVE  s \o t \in Seq(S) /\ Len(s \o t) = Len(s) + Len(t)
  OBVIOUS

\* Short sequences.
LEMMA ShortSequences ==
    ASSUME NEW S
    PROVE  /\ <<>> \in Seq(S)
           /\ \A x \in S : <<x>> \in Seq(S)
           /\ \A x, y \in S : <<x, y>> \in Seq(S)
  OBVIOUS

Replies == [status : Int, content : Seq(Symbols), headers : Seq(Headers)]

\* Stock replies are replies.
LEMMA StockTypes ==
    ASSUME NEW status \in Int
    PROVE  StockReply(status) \in Replies
<1>1. Header("Content-Length", 1) \in Headers /\ Header("Content-Type", 0) \in Headers
  BY DEF Header, Headers
<1>2. <<Header("Content-Length", 1), Header("Content-Type", 0)>> \in Seq(Headers)
  BY <1>1, ShortSequences
<1>3. <<"html">> \in Seq(Symbols)
  BY ShortSequences DEF Symbols
<1> QED
  BY <1>2, <1>3 DEF StockReply, Replies

\* RunQuery makes a reply of a reply.
LEMMA QueryTypes ==
    ASSUME NEW r \in Replies, NEW outcome
    PROVE  RunQuery(r, outcome) \in Replies
<1> DEFINE answer == <<"json", "json">>
<1>1. answer \in Seq(Symbols) /\ r.content \in Seq(Symbols)
  BY ShortSequences DEF Symbols, Replies
<1> HIDE DEF answer
<1>2. r.content \o answer \in Seq(Symbols)
  BY <1>1
<1> DEFINE c == r.content \o answer
<1>3. CASE outcome = "rejected"
  BY <1>3, StockTypes DEF RunQuery
<1>4. CASE outcome # "rejected"
  <2>1. RunQuery(r, outcome) = [r EXCEPT !.status = 200, !.content = c]
    BY <1>4 DEF RunQuery, answer
  <2>2. c \in Seq(Symbols)
    BY <1>2
  <2> HIDE DEF c
  <2>3. [r EXCEPT !.status = 200] \in Replies
    BY DEF Replies
  <2>4. [[r EXCEPT !.status = 200] EXCEPT !.content = c] \in Replies
    BY <2>2, <2>3 DEF Replies
  <2> QED
    BY <2>1, <2>4
<1> QED
  BY <1>3, <1>4

\* A reply has a content and headers, whatever the outcome of the query was.
LEMMA ReplyTypes ==
    ASSUME NEW jsonp, NEW outcome
    PROVE  HandleRequest(jsonp, outcome) \in Replies /\ HandleRequest(jsonp, outcome).headers # <<>>
<1> DEFINE opening == IF jsonp THEN <<"(">> ELSE <<>>
           prefixed == [status |-> 200, headers |-> <<>>, content |-> opening]
           result == RunQuery(prefixed, outcome)
           content == IF jsonp THEN Append(result.content, ")") ELSE result.content
           more == <<Header("Content-Length", Len(content)), Header("Content-Type", 0)>>
           headers == result.headers \o more
<1>1. HandleRequest(jsonp, outcome) =
        CASE outcome = "malformed" -> [StockReply(400) EXCEPT !.content = <<"error">>]
          [] outcome = "exception" -> StockReply(500)
          [] OTHER -> [result EXCEPT !.content = content, !.headers = headers]
  BY DEF HandleRequest
<1>2. opening \in Seq(Symbols)
  BY ShortSequences DEF Symbols
<1>3. prefixed \in Replies
  BY <1>2, ShortSequences DEF Replies
<1> HIDE DEF opening, prefixed
<1>4. result \in Replies
  BY <1>3, QueryTypes
<1> HIDE DEF result
<1>5. content \in Seq(Symbols) /\ Len(content) \in Int
  <2>1. result.content \in Seq(Symbols) /\ ")" \in Symbols
    BY <1>4 DEF Replies, Symbols
  <2> QED
    BY <2>1
<1> HIDE DEF content
<1>6. more \in Seq(Headers) /\ Len(more) = 2
  <2>1. Header("Content-Length", Len(content)) \in Headers /\ Header("Content-Type", 0) \in Headers
    BY <1>5 DEF Header, Headers
  <2> QED
    BY <2>1, ShortSequences
<1> HIDE DEF more
<1>7. headers \in Seq(Headers) /\ headers # <<>>
  <2>1. result.headers \in Seq(Headers)
    BY <1>4 DEF Replies
  <2> DEFINE before == result.headers
  <2> HIDE DEF before
  <2>2. before \in Seq(Headers) /\ Len(before) \in Nat
    BY <2>1 DEF before
  <2>3. before \o more \in Seq(Headers) /\ Len(before \o more) = Len(before) + 2
    BY <1>6, <2>2, Joined
  <2> QED
    BY <2>2, <2>3 DEF before
<1> HIDE DEF headers
<1>8. CASE outcome = "malformed"
  <2>1. HandleRequest(jsonp, outcome) = [StockReply(400) EXCEPT !.content = <<"error">>]
    BY <1>1, <1>8
  <2>2. <<"error">> \in Seq(Symbols)
    BY ShortSequences DEF Symbols
  <2> DEFINE error == <<"error">>
  <2> HIDE DEF error
  <2>3. StockReply(400) \in Replies
    BY StockTypes
  <2>4. [StockReply(400) EXCEPT !.content = error] \in Replies
    BY <2>2, <2>3, ZenonT(60) DEF Replies, error
  <2>5. HandleRequest(jsonp, outcome) \in Replies
    BY <2>1, <2>4 DEF error
  <2> QED
    BY <2>1, <2>5 DEF StockReply
<1>9. CASE outcome = "exception"
  <2>1. HandleRequest(jsonp, outcome) = StockReply(500)
    BY <1>1, <1>9
  <2> QED
    BY <2>1, StockTypes DEF StockReply
<1>10. CASE outcome \notin {"malformed", "exception"}
  <2>1. HandleRequest(jsonp, outcome) = [result EXCEPT !.content = content, !.headers = headers]
    BY <1>1, <1>10
  <2> QED
    BY <1>4, <1>5, <1>7, <2>1 DEF Replies
<1> QED
  BY <1>8, <1>9, <1>10

\* SetSize puts the size into every Content-Length, however many there are.
LEMMA SetSizeSays ==
    ASSUME NEW headers \in Seq(Headers), NEW size \in Int
    PROVE  SetSize(headers, size) \in Seq(Headers) /\ AllSay(SetSize(headers, size), size)
<1> DEFINE sized == SetSize(headers, size)
<1>1. DOMAIN sized = 1 .. Len(headers) /\ Len(headers) \in Nat
  BY DEF SetSize
<1>2. ASSUME NEW i \in 1 .. Len(headers)
      PROVE  sized[i] \in Headers /\ (sized[i].name = "Content-Length" => sized[i].value = size)
  <2>1. headers[i] \in Headers
    OBVIOUS
  <2>2. sized[i] = IF headers[i].name = "Content-Length" THEN [headers[i] EXCEPT !.value = size]
                   ELSE headers[i]
    BY DEF SetSize
  <2> QED
    BY <2>1, <2>2 DEF Headers
<1>3. sized = [i \in 1 .. Len(headers) |-> sized[i]]
  BY <1>1 DEF SetSize
<1>4. sized \in Seq(Headers)
  BY <1>1, <1>2, <1>3
<1> QED
  BY <1>1, <1>2, <1>4 DEF AllSay

\* A write leaves as much to send as it did not send at once.
LEMMA WriteSplits ==
    ASSUME NEW body \in Seq(Symbols), NEW c, StartWrite(body, c)
    PROVE  /\ sent' \in Seq(Symbols) /\ output' \in Seq(Symbols)
           /\ Len(sent') + Len(output') = Len(body)
<1> DEFINE n == IF Len(body) < SocketBuffer THEN Len(body) ELSE SocketBuffer
<1>1. n \in 0 .. Len(body) /\ Len(body) \in Nat
  BY SizesAssumption
<1>2. sent' = SubSeq(body, 1, n) /\ output' = SubSeq(body, Len(sent') + 1, Len(body))
  BY DEF StartWrite
<1> HIDE DEF n
<1>3. sent' \in Seq(Symbols) /\ Len(sent') = n
  BY <1>1, <1>2
<1>4. output' \in Seq(Symbols) /\ Len(output') = Len(body) - n
  BY <1>1, <1>2, <1>3
<1> QED
  BY <1>1, <1>3, <1>4

\* The answer to a complete request: the headers, also the ones that HandleRequest or a
\* stock reply wrote earlier, say how long the body is, compressed or not.
LEMMA AnswerSays ==
    ASSUME NEW made \in Replies, NEW compressed \in BOOLEAN, NEW body,
           body = IF compressed THEN Compressed(made.content) ELSE made.content,
           NEW headers,
           headers = IF compressed
                     THEN <<Header("Content-Encoding", 0)>> \o SetSize(made.headers, Len(body))
                     ELSE SetSize(made.headers, Len(body)),
           NEW c, StartWrite(body, c)
    PROVE  /\ sent' \in Seq(Symbols) /\ output' \in Seq(Symbols)
           /\ AllSay(headers, Len(sent') + Len(output'))
<1>1. made.content \in Seq(Symbols) /\ made.headers \in Seq(Headers)
  BY DEF Replies
<1>2. body \in Seq(Symbols)
  <2>1. <<"z">> \in Seq(Symbols)
    BY ShortSequences DEF Symbols
  <2>2. Compressed(made.content) \in Seq(Symbols)
    BY <1>1, <2>1, Joined DEF Compressed
  <2> QED
    BY <1>1, <2>2
<1>3. Len(body) \in Int
  BY <1>2
<1> DEFINE sized == SetSize(made.headers, Len(body))
<1>4. sized \in Seq(Headers) /\ AllSay(sized, Len(body))
  BY <1>1, <1>3, SetSizeSays
<1> HIDE DEF sized
<1>5. AllSay(headers, Len(body))
  <2>1. CASE ~compressed
    BY <1>4, <2>1 DEF sized
  <2>2. CASE compressed
    <3> DEFINE first == Header("Content-Encoding", 0)
    <3>1. headers = <<first>> \o sized
      BY <2>2 DEF sized
    <3>2. first \in Headers /\ first.name # "Content-Length"
      BY DEF Header, Headers
    <3> HIDE DEF first
    <3>3. <<first>> \in Seq(Headers) /\ Len(<<first>>) = 1
      BY <3>2
    <3>4. ASSUME NEW i \in DOMAIN headers PROVE headers[i] = first \/ \E j \in DOMAIN sized : headers[i] = sized[j]
      <4>1. i \in 1 .. 1 + Len(sized) /\ Len(sized) \in Nat
        BY <1>4, <3>1, <3>3
      <4>2. headers[i] = IF i <= 1 THEN <<first>>[i] ELSE sized[i - 1]
        BY <1>4, <3>1, <3>3, <4>1
      <4> QED
        BY <1>4, <4>1, <4>2
    <3> QED
      BY <1>4, <3>2, <3>4 DEF AllSay
  <2> QED
    BY <2>1, <2>2
<1>6. /\ sent' \in Seq(Symbols) /\ output' \in Seq(Symbols)
      /\ Len(sent') + Len(output') = Len(body)
  BY <1>2, WriteSplits
<1> QED
  BY <1>5, <1>6

\* The whole state.
Inv == ReadInv /\ LengthInv

\* Nothing has been read.
LEMMA InitInv == Init => Inv
<1> SUFFICES ASSUME Init PROVE Inv
  OBVIOUS
<1> USE DEF Init, ConnectionInit
<1>1. request \in Requests /\ unread = request.bytes /\ unread \in Seq(STRING) /\ Len(unread) \in Nat
  BY RequestsAssumption
<1>2. ReadSoFar = 0
  BY <1>1 DEF ReadSoFar
<1>3. parser = Whole(request)[ReadSoFar].parser
  BY <1>1, <1>2, WholeIsLoop
<1>4. \A i \in 1 .. Len(unread) : unread[i] = request.bytes[ReadSoFar + i]
  BY <1>1, <1>2
<1>5. ReadInv
  BY <1>1, <1>3, <1>4 DEF ReadInv
<1>6. LengthInv
  <2>1. sent = <<>> /\ output = <<>> /\ reply.headers = <<>>
    OBVIOUS
  <2> QED
    BY <2>1, ShortSequences DEF LengthInv, AllSay
<1> QED
  BY <1>5, <1>6 DEF Inv

\* handle_read: a piece is read and, if a result is known, the answer is begun.
LEMMA HandleReadInv ==
    ASSUME Inv, HandleRead
    PROVE  Inv'
<1>1. PICK k \in 1 .. BufferSize : HandleRead!2!(k)
  BY DEF HandleRead
<1> DEFINE parsed == Parse(parser, SubSeq(unread, 1, k), "none")
<1>2. /\ k \in 1 .. Len(unread) /\ phase = "reading" /\ request' = request
      /\ parser' = parsed.parser /\ asked' = parsed.compression
      /\ unread' = SubSeq(unread, k + 1, Len(unread))
  <2>1. k <= Len(unread) /\ unread \in Seq(STRING)
    BY <1>1 DEF Inv, ReadInv
  <2>2. k \in 1 .. Len(unread)
    BY <2>1, SizesAssumption
  <2> QED
    BY <1>1, <2>2 DEF HandleRead
<1>3. /\ unread' \in Seq(STRING) /\ Len(unread') <= Len(request'.bytes)
      /\ \A i \in 1 .. Len(unread') : unread'[i] = request'.bytes[ReadSoFar' + i]
      /\ parser' = Whole(request')[ReadSoFar'].parser
  BY <1>2, ReadPiece DEF Inv
<1> HIDE DEF parsed
<1>4. reply.headers = <<>> /\ request' \in Requests
  BY <1>2 DEF Inv, ReadInv
<1>5. CASE /\ parser'.state = "complete"
           /\ \E outcome \in {"malformed", "exception", "rejected", "answered"} :
                LET made == HandleRequest(request.jsonp, outcome)
                    body == IF asked' = "none" THEN made.content
                            ELSE Compressed(made.content)
                    sized == SetSize(made.headers, Len(body))
                IN  /\ reply' = [made EXCEPT !.headers =
                                   IF asked' = "none" THEN sized
                                   ELSE <<Header("Content-Encoding", 0)>> \o sized]
                    /\ StartWrite(body, asked' # "none")
  <2>1. PICK outcome \in {"malformed", "exception", "rejected", "answered"} :
                LET made == HandleRequest(request.jsonp, outcome)
                    body == IF asked' = "none" THEN made.content
                            ELSE Compressed(made.content)
                    sized == SetSize(made.headers, Len(body))
                IN  /\ reply' = [made EXCEPT !.headers =
                                   IF asked' = "none" THEN sized
                                   ELSE <<Header("Content-Encoding", 0)>> \o sized]
                    /\ StartWrite(body, asked' # "none")
    BY <1>5
  <2> DEFINE made == HandleRequest(request.jsonp, outcome)
             compressed == asked' # "none"
             body == IF compressed THEN Compressed(made.content) ELSE made.content
             sized == SetSize(made.headers, Len(body))
             headers == IF compressed THEN <<Header("Content-Encoding", 0)>> \o sized ELSE sized
  <2>2. made \in Replies
    BY ReplyTypes
  <2>3. reply' = [made EXCEPT !.headers = headers] /\ StartWrite(body, compressed)
    BY <2>1
  <2> HIDE DEF made
  <2>4. reply'.headers = headers
    <3> HIDE DEF headers
    <3> QED
      BY <2>2, <2>3 DEF Replies
  <2>5. compressed \in BOOLEAN
    OBVIOUS
  <2> HIDE DEF compressed
  <2>6. /\ sent' \in Seq(Symbols) /\ output' \in Seq(Symbols)
        /\ AllSay(headers, Len(sent') + Len(output'))
    BY <2>2, <2>3, <2>5, AnswerSays
  <2> HIDE DEF headers
  <2>7. LengthInv'
    BY <2>4, <2>6 DEF LengthInv
  <2>8. phase' = "writing"
    BY <2>3 DEF StartWrite
  <2>9. ReadInv'
    BY <1>3, <1>4, <1>5, <2>8 DEF ReadInv, Known
  <2> QED
    BY <2>7, <2>9 DEF Inv
<1>6. CASE /\ parser'.state = "bad"
           /\ reply' = StockReply(400)
           /\ StartWrite(StockReply(400).content, FALSE)
  <2>1. StockReply(400).content = <<"html">> /\ Len(<<"html">>) = 1 /\ <<"html">> \in Seq(Symbols)
    BY ShortSequences DEF StockReply, Symbols
  <2>2. /\ sent' \in Seq(Symbols) /\ output' \in Seq(Symbols)
        /\ Len(sent') + Len(output') = 1
    BY <1>6, <2>1, WriteSplits, ZenonT(60)
  <2>3. AllSay(reply'.headers, 1)
    BY <1>6 DEF StockReply, Header, AllSay
  <2>4. LengthInv'
    BY <2>2, <2>3 DEF LengthInv
  <2>5. phase' = "writing"
    BY <1>6 DEF StartWrite
  <2>6. ReadInv'
    BY <1>3, <1>4, <1>6, <2>5 DEF ReadInv, Known
  <2> QED
    BY <2>4, <2>6 DEF Inv
<1>7. CASE parser'.state \notin {"complete", "bad"} /\ UNCHANGED <<reply, output, alive, sent, phase>>
  BY <1>3, <1>4, <1>7 DEF Inv, ReadInv, LengthInv
<1> QED
  BY <1>1, <1>5, <1>6, <1>7

\* The rest of an answer moves from output to sent.
LEMMA WriteMoreInv ==
    ASSUME Inv, WriteMore
    PROVE  Inv'
<1> DEFINE n == IF Len(output) < SocketBuffer THEN Len(output) ELSE SocketBuffer
           taken == SubSeq(output, 1, n)
           garbage == [i \in 1 .. n |-> "garbage"]
<1>1. sent \in Seq(Symbols) /\ output \in Seq(Symbols) /\ Len(output) \in Nat
  BY DEF Inv, LengthInv
<1>2. n \in 0 .. Len(output)
  BY <1>1, SizesAssumption
<1>3. output' = SubSeq(output, n + 1, Len(output)) /\ sent' \in {sent \o taken, sent \o garbage}
  BY DEF WriteMore
<1> HIDE DEF n
<1>4. taken \in Seq(Symbols) /\ Len(taken) = n
  BY <1>1, <1>2
<1>5. garbage \in Seq(Symbols) /\ Len(garbage) = n
  BY <1>2 DEF Symbols
<1>6. output' \in Seq(Symbols) /\ Len(output') = Len(output) - n
  BY <1>1, <1>2, <1>3
<1> HIDE DEF taken, garbage
<1>7. sent' \in Seq(Symbols) /\ Len(sent') = Len(sent) + n
  BY <1>1, <1>3, <1>4, <1>5, Joined, ZenonT(60)
<1>8. Len(sent') + Len(output') = Len(sent) + Len(output)
  BY <1>1, <1>2, <1>6, <1>7
<1>9. LengthInv'
  BY <1>6, <1>7, <1>8 DEF Inv, LengthInv, WriteMore
<1>10. ReadInv'
  BY DEF Inv, ReadInv, Known, ReadSoFar, WriteMore
<1> QED
  BY <1>9, <1>10 DEF Inv

\* Every step keeps the invariant.
LEMMA NextInv == Inv /\ [Next]_serverVars => Inv'
<1> SUFFICES ASSUME Inv, [Next]_serverVars PROVE Inv'
  OBVIOUS
<1>0. ASSUME UNCHANGED <<request, unread, parser, reply, output, sent>>,
             phase' = phase \/ phase' \notin {"waiting", "reading"} \/ phase = "waiting"
      PROVE  Inv'
  BY <1>0 DEF Inv, ReadInv, LengthInv, Known, ReadSoFar
<1>1. CASE HandleAccept
  BY <1>0, <1>1 DEF HandleAccept, Start
<1>2. CASE AcceptFails
  BY <1>0, <1>2 DEF AcceptFails
<1>3. CASE RunHandler
  <2>1. CASE HandleRead
    BY <2>1, HandleReadInv
  <2>2. CASE WriteMore
    BY <2>2, WriteMoreInv
  <2>3. CASE HandleWrite
    BY <1>0, <2>3 DEF HandleWrite
  <2>4. CASE ReadFails
    BY <1>0, <2>4 DEF ReadFails
  <2>5. CASE WriteFails
    BY <1>0, <2>5 DEF WriteFails
  <2> QED
    BY <1>3, <2>1, <2>2, <2>3, <2>4, <2>5 DEF RunHandler, Handle, Fail
<1>4. CASE HandlerThrows
  BY <1>0, <1>4 DEF HandlerThrows, RemoteEndpointThrows
<1>5. CASE Stop
  BY <1>0, <1>5 DEF Stop, vars
<1>6. CASE Shutdown
  BY <1>0, <1>6 DEF Shutdown, vars
<1>7. CASE UNCHANGED serverVars
  BY <1>0, <1>7 DEF serverVars, vars
<1> QED
  BY <1>1, <1>2, <1>3, <1>4, <1>5, <1>6, <1>7 DEF Next

-----------------------------------------------------------------------------
\* Every Content-Length of an answer states the length of what is sent, for all requests,
\* reads, outcomes of the query and sizes of the socket's buffer (RequestHandler, Reply and
\* Connection::handle_read).
THEOREM LengthsMatch == Spec => []LengthMatchesBody
<1>1. Inv => LengthMatchesBody
  BY DEF Inv, LengthInv, AllSay, LengthMatchesBody
<1> QED
  BY InitInv, NextInv, <1>1, PTL DEF Spec

\* What the requests say: each one, parsed in one piece, is accepted if it is well-formed
\* and has the URI, the referrer and the agent that the client meant.
RequestsMeanWhatTheySay ==
    \A r \in Requests :
      LET p == Parse(EmptyRequest, r.bytes, "none").parser
      IN  /\ (p.state = "complete") <=> r.valid
          /\ r.valid => p.uri = r.uri /\ p.referrer = r.referrer /\ p.agent = r.agent

\* The pieces in which a request arrives make no difference: what holds of requests that
\* arrive at once holds for every division into reads (RequestParser keeps its state).
THEOREM PiecesMakeNoDifference ==
    ASSUME RequestsMeanWhatTheySay
    PROVE  Spec => []ParsedAsSent
<1>1. Inv => ParsedAsSent
  <2> SUFFICES ASSUME Inv, Answered
               PROVE  /\ (parser.state = "complete") <=> request.valid
                      /\ request.valid =>
                           /\ parser.uri = request.uri /\ parser.referrer = request.referrer
                           /\ parser.agent = request.agent
    BY DEF ParsedAsSent
  <2> DEFINE w == Whole(request)
             n == Len(request.bytes)
             k == ReadSoFar
  <2>1. request \in Requests /\ Known /\ parser = w[k].parser
    BY DEF Inv, ReadInv, Answered
  <2>2. n \in Nat /\ k \in 0 .. n
    <3>1. n \in Nat
      BY <2>1, WholeIsLoop
    <3>2. Len(unread) \in Nat /\ Len(unread) <= n
      BY DEF Inv, ReadInv
    <3> QED
      BY <3>1, <3>2 DEF ReadSoFar
  <2>3. IsParse(w, [parser |-> EmptyRequest, compression |-> "none"], request.bytes, n)
    BY <2>1, WholeIsLoop
  <2>4. w[k].parser.state \in {"complete", "bad"}
    BY <2>1 DEF Known
  <2>5. Parse(EmptyRequest, request.bytes, "none") = w[n]
    BY <2>1, WholeIsLoop
  <2> HIDE DEF w, n, k
  <2>6. w[n] = w[k]
    BY <2>2, <2>3, <2>4, ResultStays
  <2>7. parser = Parse(EmptyRequest, request.bytes, "none").parser
    BY <2>1, <2>5, <2>6
  <2> QED
    BY <2>1, <2>7 DEF RequestsMeanWhatTheySay
<1> QED
  BY InitInv, NextInv, <1>1, PTL DEF Spec
=============================================================================
