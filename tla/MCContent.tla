----------------------------- MODULE MCContent -----------------------------
(* The content that the components of Content are fed. *)
EXTENDS Content

\* Payloads of up to four pieces, each a whole line ending, a dot or a byte:
\* what a client that keeps to RFC 5321 sends.
MCPayloads == {FlattenSeq(s) : s \in BoundedSeq({<<"CR", "LF">>, <<".">>, <<"x">>}, 4)}

Header(lines) == Append(lines, L("blank", ""))
Field(name, value) == [L("field", name) EXCEPT !.start = value]
Valid == <<Field("Date", ""), Field("From", ""), Field("MIME-Version", "")>>

MCHeads ==
    {Header(Valid \o <<L("mixed", "b")>>),
     Header(<<L("alternative", "b"), L("base64", ""), Field("From", "two"), Field("To", "utf8"), Field("To", "")>>),
     Header(<<[L("related", "b") EXCEPT !.start = "id"], Field("From", "group"), Field("Sender", "group"),
              Field("Message-ID", "bad"), Field("References", "bad")>>),
     Header(<<L("digest", "b"), Field("Date", "bad"), Field("From", "raw8"), Field("Sender", "two")>>),
     Header(<<Field("From", ""), L("text", ""), L("mixed", "")>>),
     <<>>}

Inner == <<L("mixed", "c"), L("blank", ""), L("delim", "c"), L("blank", ""), L("text", ""), L("close", "c")>>
Part(head, body) == <<L("delim", "b")>> \o head \o <<L("blank", "")>> \o body

MCPieces ==
    {Part(<<L("plain", "")>>, <<L("text", "url"), L("blank", "")>>),
     Part(<<L("html", ""), L("cid", "id")>>, <<L("text", "big")>>),
     Part(<<L("image", ""), L("filename", "f")>>, <<L("text", "LF"), L("text", "LF"), L("text", "long")>>),
     Part(<<L("badtype", ""), L("calendar", "")>>, <<L("plain", ""), L("blank", ""), L("text", "")>>),
     Part(<<L("alternative", "c"), Field("X", "raw8")>>, <<L("delim", "c"), L("html", ""), L("blank", ""), L("text", "other")>>),
     Part(<<L("rfc822", "")>>, <<>>),
     Part(<<L("rfc822", ""), L("base64", "")>>, <<Coded(Inner)>>),
     Part(<<L("rfc822", ""), L("base64", "")>>, <<Coded(<<L("text", "")>>)>>),
     Part(<<L("mixed", "c")>>, <<L("delim", "c"), L("html", ""), L("blank", ""), L("text", "other")>>),
     <<L("delim", "c"), L("calendar", ""), L("filename", "invite.ics"), L("blank", ""), L("text", "over"), L("close", "c")>>,
     <<L("close", "b")>>, <<L("text", ""), L("delim", "b")>>}

MCLimits ==
    {[Unlimited EXCEPT !.lines = 60], [Unlimited EXCEPT !.lines = 11], [Unlimited EXCEPT !.parts = 4, !.raw = 20],
     [Unlimited EXCEPT !.fields = 5], [Unlimited EXCEPT !.depth = 2, !.hbytes = 12]}

Text(name, value) == [Line(name) EXCEPT !.text = value]
Number(name, n) == [Line(name) EXCEPT !.num = n]
Damaged(name) == [Line(name) EXCEPT !.ok = FALSE]
Dtstart == Number("DTSTART", 1)

MCCalendarLines ==
    {<<Begin("VEVENT"), Text("UID", "u"), Dtstart>>, <<Begin("VALARM")>>, <<Begin("VCALENDAR")>>,
     <<End("VEVENT")>>, <<End("VALARM")>>, <<End("VCALENDAR")>>, <<End("VEVENT"), End("VCALENDAR")>>,
     <<Begin("VEVENT"), Text("UID", "v"), [Dtstart EXCEPT !.date = TRUE], End("VEVENT")>>,
     <<Text("UID", "w"), Damaged("DTSTART")>>, <<Number("SEQUENCE", -1), Text("METHOD", "REPLY")>>,
     <<Begin("VEVENT"), Text("UID", ""), Damaged("DTSTART")>>, <<Number("DURATION", 8)>>,
     <<Number("SEQUENCE", 2), Number("DURATION", 3)>>, <<Damaged("DTEND")>>}

MCNumbers == {0, 1, 8, 31, 63}
MCStarts == {0, 5, -60, 60}

Attending(a, b) == [x \in {"a", "b"} |-> IF x = "a" THEN a ELSE b]
Event(method, seq, status, attendees) ==
    [method |-> method, uid |-> "u", seq |-> seq, status |-> status, attendees |-> attendees, details |-> 0]
MCCalendarEvents ==
    {Event("REQUEST", seq, status, Attending("NEEDS-ACTION", Absent)) : seq \in 0..2, status \in {NoStatus, "TENTATIVE"}}
    \cup {Event("CANCEL", seq, NoStatus, Attending("NEEDS-ACTION", "NEEDS-ACTION")) : seq \in 0..2}
    \cup {Event("REPLY", 1, NoStatus, Attending(a, b)) : a, b \in {Absent, "ACCEPTED"}}

MCTokens ==
    {Html!Token(t, n) : t \in {"start", "end"}, n \in {"form", "script", "div"}}
    \cup {Html!Token("text", "x"), Html!Token("self", "embed")}

Query == [length |-> 1, special |-> 0, cid |-> FALSE, download |-> FALSE]
Queries == {Query, [Query EXCEPT !.special = 3], [Query EXCEPT !.cid = TRUE],
            [Query EXCEPT !.cid = TRUE, !.download = TRUE]}
Body == [valid |-> TRUE, ids |-> <<>>, action |-> "", to |-> "", kind |-> ""]
Paths ==
    {<<Http!W("api"), Http!W(name)>> : name \in {"mailboxes", "events", "reset", "send-test", "other"}}
    \cup {<<Http!W("api"), Http!W(name), Http!Num(1)>> : name \in {"mailboxes", "messages", "attachments"}}
    \cup {<<Http!W("api"), Http!W(name), s>> : name \in {"mailboxes", "messages", "attachments"}, s \in {Http!Num(2), Http!W("x")}}
    \cup {<<Http!W("api"), Http!W("mailboxes"), Http!Num(1), Http!W(name)>> : name \in {"messages", "events"}}
    \cup {<<Http!W("api"), Http!W("messages"), s, Http!W(name)>> : s \in {Http!Num(1), Http!Num(9)}, name \in {"source", "inspect"}}
    \cup {<<Http!W("api"), Http!W("messages"), Http!W("source")>>, <<Http!W("openapi.json")>>, <<Http!W("api")>>, <<>>}
IDs == {<<>>, <<Http!Num(1)>>, <<Http!Num(1), Http!W("x"), Http!Num(1), Http!Num(2)>>,
        <<Http!Num(3), Http!Num(2), Http!Num(1)>>, <<Http!Num(1), Http!Num(2), Http!Num(3), Http!Num(2)>>}
MCRequests ==
    {[method |-> method, path |-> path, query |-> query, body |-> Body] :
        method \in {"GET", "POST", "DELETE"}, path \in Paths, query \in Queries}
    \cup {[method |-> "POST", path |-> <<Http!W("api"), Http!W("messages"), Http!W("actions")>>, query |-> Query,
           body |-> [Body EXCEPT !.ids = ids, !.action = action, !.valid = valid]] :
            ids \in IDs, action \in {"delete", "read", "unread", "other"}, valid \in BOOLEAN}
    \cup {[method |-> "POST", path |-> <<Http!W("api"), Http!W("send-test")>>, query |-> Query,
           body |-> [Body EXCEPT !.to = to, !.valid = valid]] : to \in {"", "malformed", "to"}, valid \in BOOLEAN}

MCInitialRows ==
    [boxes |-> {1, 2},
     messages |-> [m \in 1..3 |-> [box |-> IF m = 3 THEN 2 ELSE 1, read |-> FALSE, sound |-> m # 2]],
     attachments |-> [a \in 1..2 |-> [message |-> a, type |-> IF a = 1 THEN "svg" ELSE "inert", safe |-> FALSE]]]
=============================================================================
