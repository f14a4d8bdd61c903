------------------------------- MODULE Feeds -------------------------------
(***************************************************************************)
(* What the program makes of content that others chose: the bytes of a     *)
(* DATA command, an iCalendar object, a history of calendar events, an     *)
(* HTML body, requests of the API and the bytes of a message on their way  *)
(* to a POP3 client.  Content adds the raw message.                        *)
(*                                                                         *)
(* A behaviour feeds one of these components piece by piece; `fed` is what *)
(* it was given and `kept` what a component keeps between two pieces.      *)
(* The components that keep nothing are operators of `fed`.  DataReader    *)
(* pulls its bytes itself and has its own variables.                       *)
(***************************************************************************)
EXTENDS IcsParser, CalendarRows

CONSTANTS
    Payloads, BufferSizes,           \* of a DATA command
    MaxBytes,
    CalendarLines, MaxLines,         \* of an iCalendar object
    Numbers, Starts,                 \* of a DURATION
    CalendarEvents, MaxHistory,      \* of one mailbox and UID
    Tokens, MaxTokens,               \* of an HTML body
    Requests, InitialRows,           \* of the API
    MaxMessageActionIDs, MaxSearchPatternBytes,
    MaxWireBytes                     \* of a message sent by POP3

Bytes == {"CR", "LF", ".", "x"}

\* Clients keep to RFC 5321: a CR is part of a line ending.
ASSUME DataAssumption ==
    /\ MaxBytes \in Nat /\ BufferSizes \subseteq Nat \ {0}
    /\ \A p \in Payloads :
         /\ p \in Seq(Bytes)
         /\ \A i \in 1..Len(p) : p[i] = "CR" => i < Len(p) /\ p[i + 1] = "LF"

ASSUME CalendarAssumption == CalendarLines \cup {<<Begin("VCALENDAR")>>} \subseteq Seq(ContentLines)

\* The events of a mailbox and UID have one shape.
ASSUME HistoryAssumption ==
    \A c \in CalendarEvents :
        CalendarEvents \subseteq
            [method : STRING, uid : {c.uid}, seq : Int, status : STRING,
             attendees : [DOMAIN c.attendees -> STRING], details : {0}]

\* The numbers of a DURATION have no sign of their own.
ASSUME DurationAssumption == Numbers \subseteq Nat /\ Starts \subseteq Int

VARIABLES job, fed, kept,
          payload, input, state, left, out, verdict, phase, seen   \* of DataReader

feedVars == <<job, fed, kept>>
dataVars == <<payload, input, state, left, out, verdict, phase, seen>>
vars == <<feedVars, dataVars>>

Data == INSTANCE DataReader

Html == INSTANCE HtmlSanitizer
Http == INSTANCE HttpApi
Wire == INSTANCE Pop3Wire

\* Requests as net/http and the JSON decoder give them, and rows that the foreign
\* keys of the store allow.
Segments == {s \in [num : BOOLEAN, id : Nat, w : STRING] : s.num => s.w = Http!NoWord}
Tables(db) ==
    /\ db = [boxes |-> db.boxes, messages |-> db.messages, attachments |-> db.attachments]
    /\ db.messages \in [DOMAIN db.messages -> [box : Nat, read : BOOLEAN, sound : BOOLEAN]]
    /\ db.attachments \in [DOMAIN db.attachments ->
                              [message : DOMAIN db.messages, type : STRING, safe : BOOLEAN]]

ASSUME HttpAssumption ==
    /\ MaxMessageActionIDs \in Nat
    /\ \A req \in Requests : req.path \in Seq(Segments) /\ req.body.ids \in Seq(Segments)
    /\ Tables(InitialRows)

Durations ==
    [sign : {1, -1}, weeks : Numbers, days : Numbers, hours : Numbers, minutes : Numbers, seconds : Numbers]

\* No DATA command.
NoData ==
    /\ payload = <<>> /\ input = <<>> /\ out = <<>> /\ seen = <<>>
    /\ state = "none" /\ left = 0 /\ verdict = "none" /\ phase = "none"

InitFeed ==
    \/ job = "calendar" /\ fed = <<Begin("VCALENDAR")>> /\ kept = 0
    \/ job = "duration" /\ fed = <<>> /\ kept \in Durations
    \/ job = "history" /\ fed = <<>> /\ kept = {}
    \/ job = "html" /\ fed = <<>> /\ kept = Html!InitialSanitizer
    \/ job = "http" /\ fed = <<>> /\ kept = InitialRows
    \/ job = "wire" /\ fed = <<>> /\ kept = 0

FeedsInit ==
    \/ job = "data" /\ fed = <<>> /\ kept = 0 /\ Data!Init
    \/ InitFeed /\ NoData

\* kept counts the pieces of an iCalendar object.
FeedCalendar(piece) ==
    /\ job = "calendar" /\ kept < MaxLines
    /\ fed' = fed \o piece
    /\ kept' = kept + 1
    /\ UNCHANGED <<job, dataVars>>

\* applyCalendarEvents for the event of one more message.
FeedHistory(ev) ==
    LET n == Len(fed) + 1
        event == [ev EXCEPT !.details = n]
    IN  /\ job = "history" /\ Len(fed) < MaxHistory
        /\ fed' = Append(fed, event)
        /\ kept' = ApplyCalendarEvent(kept, 1, [id |-> n, serial |-> n], event)
        /\ UNCHANGED <<job, dataVars>>

FeedHtml(token) ==
    /\ job = "html" /\ Len(fed) < MaxTokens
    /\ fed' = Append(fed, token)
    /\ kept' = Html!Rewrite(kept, token)
    /\ UNCHANGED <<job, dataVars>>

FeedHttp(req, fails) ==
    /\ job = "http"
    /\ kept' = Http!Handle(req, kept, fails).db
    /\ UNCHANGED <<job, fed, dataVars>>

FeedWire(byte) ==
    /\ job = "wire" /\ Len(fed) < MaxWireBytes
    /\ fed' = Append(fed, byte)
    /\ UNCHANGED <<job, kept, dataVars>>

\* One step of DataReader.
DataStep == job = "data" /\ Data!Next /\ UNCHANGED feedVars

FeedsNext ==
    \/ DataStep
    \/ \E piece \in CalendarLines : FeedCalendar(piece)
    \/ \E ev \in CalendarEvents : FeedHistory(ev)
    \/ \E token \in Tokens : FeedHtml(token)
    \/ \E req \in Requests, fails \in BOOLEAN : FeedHttp(req, fails)
    \/ \E byte \in Bytes : FeedWire(byte)

FeedsSpec == FeedsInit /\ [][FeedsNext]_vars

-----------------------------------------------------------------------------
\* What is stored is what the client sent (DataReader's Faithful).
Faithful == job = "data" => Data!Faithful

\* The size limit is exact (DataReader's LimitExact).
LimitExact == job = "data" => Data!LimitExact

\* After DATA the connection is at the next command (DataReader's InSync).
InSync == job = "data" => Data!InSync

\* iCalendar parsing fails closed (CalendarRead).
CalendarsRead == job = "calendar" => CalendarRead(fed)

\* Durations are exact (DurationExact).
DurationsExact == job = "duration" => \A start \in Starts : DurationExact(kept, start)

\* The events of a history that are not replies, and those of them that no earlier
\* one outranks.
Told(h) == {i \in 1..Len(h) : h[i].method # "REPLY"}
Accepted(h) ==
    {i \in Told(h) : h[i].method # "CANCEL" /\ \A j \in Told(h) : j < i => h[i].seq >= h[j].seq}

\* The event that gives a row its details, and what came after it.
Base(h) == IF Accepted(h) = {} THEN Min(Told(h)) ELSE Max(Accepted(h))
Cancels(h) == {i \in Told(h) : i >= Base(h) /\ h[i].method = "CANCEL"}
Replies(h, a) == {i \in Base(h)..Len(h) : h[i].method = "REPLY" /\ h[i].attendees[a] # Absent}
People(h) == DOMAIN h[Base(h)].attendees
Used(h) == {Base(h)} \cup Cancels(h) \cup UNION {Replies(h, a) : a \in People(h)}

Seqs(h) == {h[i].seq : i \in Told(h)}
Answer(h, a) == h[Max(Replies(h, a) \cup {Base(h)})].attendees[a]
Attendees(h) == [a \in People(h) |-> Answer(h, a)]

RowOf(h) ==
    [mbox |-> 1, uid |-> h[Base(h)].uid, details |-> Base(h), seq |-> Max(Seqs(h)),
     status |-> IF Cancels(h) # {} THEN Cancelled ELSE EventStatus(h[Base(h)]),
     attendees |-> Attendees(h), last |-> Max(Used(h)), serial |-> Max(Used(h))]

\* A calendar row is a function of the events that made it, in whatever order and
\* however often they came: the last update that no earlier one outranks, or else
\* the first cancellation, gives its details; it is cancelled if a cancellation
\* came after that; replies count from then on; its sequence number never falls.
HistoryExact == job = "history" => kept = IF Told(fed) = {} THEN {} ELSE {RowOf(fed)}

\* No active content reaches the page (Sanitized).
BodiesSanitized == job = "html" => Html!Sanitized(fed, kept)

\* The API does what it answers (AnswerExact).
AnswersExact ==
    job = "http" => \A req \in Requests, fails \in BOOLEAN : Http!AnswerExact(req, kept, fails)

\* A POP3 client reads back the message (Retrieved).
MessagesRetrieved == job = "wire" => \A n \in 0..2 : Wire!Retrieved(fed, n)
=============================================================================
