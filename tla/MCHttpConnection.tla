-------------------------- MODULE MCHttpConnection --------------------------
EXTENDS Server

Line(name, value) == name \o <<":", "sp">> \o value \o <<"cr", "lf">>

HeaderLines ==
    [none |-> <<>>,
     agent |-> Line(<<"User-Agent">>, <<"word", "sp", "word">>),
     gzip |-> Line(<<"Accept-Encoding">>, <<"deflate", "sp", "gzip">>)
              \o Line(<<"User-Agent">>, <<"word">>),
     deflate |-> Line(<<"Referer">>, <<"hi", "/">>)
                 \o Line(<<"Accept-Encoding">>, <<"deflate">>)]

Valid(headers, jsonp) ==
    [bytes |-> <<"word", "word", "sp", "/", "word", "sp", "H", "T", "T", "P", "/",
                 "1", ".", "1", "cr", "lf">> \o HeaderLines[headers] \o <<"cr", "lf">>,
     jsonp |-> jsonp, valid |-> TRUE, uri |-> <<"/", "word">>,
     referrer |-> IF headers = "deflate" THEN <<"hi", "/">> ELSE <<>>,
     agent |-> CASE headers = "agent" -> <<"word", "sp", "word">>
                 [] headers = "gzip" -> <<"word">> [] OTHER -> <<>>,
     encoding |-> IF headers \in {"gzip", "deflate"} THEN headers ELSE "none"]

ValidRequests == {Valid(h, j) : h \in DOMAIN HeaderLines, j \in BOOLEAN}

\* One symbol of a valid request is replaced by one that may not be there.
Broken(at, symbol) ==
    [Valid("agent", FALSE) EXCEPT !.bytes[at] = symbol, !.valid = FALSE]

BrokenRequests ==
    {Broken(1, "/"), Broken(2, "hi"), Broken(4, "ctl"), Broken(6, "lf"), Broken(7, "word"),
     Broken(9, "/"), Broken(12, "."), Broken(14, "cr"), Broken(13, "word"), Broken(15, "lf"),
     Broken(16, "cr"), Broken(17, ":"), Broken(18, "sp"), Broken(19, "word"),
     Broken(21, "ctl"), Broken(24, "word"), Broken(26, "word")}

\* The client stops in the middle.
Truncated ==
    {[Valid("agent", FALSE) EXCEPT !.bytes = SubSeq(@, 1, n), !.valid = FALSE] : n \in {5, 20}}

AllRequests == ValidRequests \cup BrokenRequests \cup Truncated
=============================================================================
