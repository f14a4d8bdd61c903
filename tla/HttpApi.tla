------------------------------ MODULE HttpApi ------------------------------
(***************************************************************************)
(* httpserver: routing, validation and the store call of every request of  *)
(* the API.  A request is [method, path, query, body]; the path is its     *)
(* segments.  The store is its rows: boxes, messages (id to [box, read,    *)
(* sound]) and attachments (id to [message, type, safe]); `sound` says     *)
(* that the JSON columns of a row are valid, `safe` that SanitizeSVG takes *)
(* an SVG.  A store call is one step here (MailStore has its interleaving) *)
(* and fails without a change when `fails` says so, as does the sender.    *)
(* Left out: the rendering of responses, and the SSE stream (EventHub).    *)
(***************************************************************************)
EXTENDS Naturals, Sequences, FiniteSets, SequencesExt

CONSTANTS MaxMessageActionIDs, MaxSearchPatternBytes

API == "api"
Reply(status, db) == [status |-> status, db |-> db, shows |-> "json", sent |-> <<>>]
Showing(what, db) == [Reply(200, db) EXCEPT !.shows = what]

\* parseID of what is left of a path once its prefix and suffix are cut off.
ParsedID(segments) == IF Len(segments) = 1 /\ segments[1].num THEN {segments[1].id} ELSE {}

\* A segment is a number or a word.
NoWord == ""
Num(n) == [num |-> TRUE, id |-> n, w |-> NoWord]
W(word) == [num |-> FALSE, id |-> 0, w |-> word]

-----------------------------------------------------------------------------
(* The rows that a call of the store leaves. *)

WithoutMessages(db, ids) ==
    [db EXCEPT
        !.messages = [m \in DOMAIN @ \ ids |-> @[m]],
        !.attachments = [a \in {x \in DOMAIN @ : @[x].message \notin ids} |-> @[a]]]

WithoutMailbox(db, id) ==
    [WithoutMessages(db, {m \in DOMAIN db.messages : db.messages[m].box = id}) EXCEPT
        !.boxes = @ \ {id}]

WithRead(db, ids, read) ==
    [db EXCEPT !.messages = [m \in DOMAIN @ |-> IF m \in ids THEN [@[m] EXCEPT !.read = read] ELSE @[m]]]

Empty == [boxes |-> {}, messages |-> <<>>, attachments |-> <<>>]

-----------------------------------------------------------------------------
(* The handlers. *)

DeleteMailbox(req, db, fails, raw) ==
    IF ParsedID(raw) = {} THEN Reply(400, db)
    ELSE IF fails THEN Reply(500, db)
    ELSE IF ~ParsedID(raw) \subseteq db.boxes THEN Reply(404, db)
    ELSE Reply(200, WithoutMailbox(db, CHOOSE id \in ParsedID(raw) : TRUE))

\* searchPatternBytes: an escaped character counts twice.
SearchPatternBytes(query) == query.length + query.special

ListMessages(req, db, fails, raw) ==
    IF ParsedID(raw) = {} \/ SearchPatternBytes(req.query) > MaxSearchPatternBytes THEN Reply(400, db)
    ELSE Reply(IF fails THEN 500 ELSE 200, db)

ListCalendarEvents(req, db, fails, raw) ==
    Reply(IF ParsedID(raw) = {} THEN 400 ELSE IF fails THEN 500 ELSE 200, db)

\* getMessage: MarkReadDetail is the last thing that can fail.
GetMessage(req, db, fails, raw) ==
    IF ParsedID(raw) = {} THEN Reply(400, db)
    ELSE IF fails THEN Reply(500, db)
    ELSE IF ~ParsedID(raw) \subseteq DOMAIN db.messages THEN Reply(404, db)
    ELSE LET id == CHOOSE m \in ParsedID(raw) : TRUE
         IN  IF ~db.messages[id].sound THEN Reply(500, db)
             ELSE Showing("message", WithRead(db, {id}, TRUE))

GetMessageSource(req, db, fails, raw) ==
    IF ParsedID(raw) = {} THEN Reply(400, db)
    ELSE IF fails THEN Reply(500, db)
    ELSE IF ~ParsedID(raw) \subseteq DOMAIN db.messages THEN Reply(404, db)
    ELSE Showing("source", db)

InspectMessage(req, db, fails, raw) ==
    IF ParsedID(raw) = {} THEN Reply(400, db)
    ELSE IF fails THEN Reply(500, db)
    ELSE IF ~ParsedID(raw) \subseteq DOMAIN db.messages THEN Reply(404, db)
    ELSE IF ~db.messages[CHOOSE m \in ParsedID(raw) : TRUE].sound THEN Reply(500, db)
    ELSE Showing("report", db)

\* getAttachment: an SVG is shown inline only when asked for and sanitized.
GetAttachment(req, db, fails, raw) ==
    IF ParsedID(raw) = {} THEN Reply(400, db)
    ELSE IF fails THEN Reply(500, db)
    ELSE IF ~ParsedID(raw) \subseteq DOMAIN db.attachments THEN Reply(404, db)
    ELSE LET attachment == db.attachments[CHOOSE a \in ParsedID(raw) : TRUE]
             download == req.query.download
         IN  IF req.query.cid /\ attachment.type = "svg" /\ ~download
             THEN IF attachment.safe THEN Showing("inline", db) ELSE Reply(422, db)
             ELSE Showing(IF ~download /\ attachment.type = "inert" THEN "inline" ELSE "attachment", db)

\* Mutant: the ids after the limit are cut off and the others acted on.
ValidIDsCut(values) ==
    FoldLeft(LAMBDA ids, v :
                IF ~v.num \/ v.id \in ToSet(ids) \/ Len(ids) >= MaxMessageActionIDs THEN ids
                ELSE Append(ids, v.id),
             <<>>, values)

\* validIDs: the distinct integers, in order, one more than the limit at most.
WithID(ids, v) ==
    IF ~v.num \/ v.id \in ToSet(ids) \/ Len(ids) > MaxMessageActionIDs THEN ids
    ELSE Append(ids, v.id)

ValidIDs(values) ==
    LET ids[i \in 0..Len(values)] == IF i = 0 THEN <<>> ELSE WithID(ids[i - 1], values[i])
    IN  ids[Len(values)]

\* messageActions
MessageActions(req, db, fails) ==
    LET ids == ValidIDs(req.body.ids)
    IN  IF ~req.body.valid \/ ids = <<>> \/ Len(ids) > MaxMessageActionIDs
           \/ req.body.action \notin {"delete", "read", "unread"}
        THEN Reply(400, db)
        ELSE IF fails THEN Reply(500, db)
        ELSE Reply(200, IF req.body.action = "delete" THEN WithoutMessages(db, ToSet(ids))
                        ELSE WithRead(db, ToSet(ids), req.body.action = "read"))

WipeAll(db, fails) == IF fails THEN Reply(500, db) ELSE Reply(200, Empty)

\* sendTest: a body that does not decode asks for the defaults.
SendTest(req, db, fails) ==
    LET to == IF req.body.valid /\ req.body.to # "" THEN req.body.to ELSE "default"
        kind == IF req.body.valid /\ req.body.kind \in {"invite", "update", "cancellation"}
                THEN req.body.kind ELSE "plain"
    IN  IF to = "malformed" THEN Reply(400, db)
        ELSE [Reply(IF fails THEN 502 ELSE 200, db) EXCEPT !.sent = <<[to |-> to, kind |-> kind]>>]

\* serveStatic
ServeStatic(req, db) ==
    IF req.method \in {"GET", "HEAD"} THEN Showing("page", db) ELSE Reply(404, db)

\* ServeHTTP: the first case that fits.
Handle(req, db, fails) ==
    LET p == req.path
        words == [i \in 1..Len(p) |-> p[i].w]
        under(name) == Len(p) >= 3 /\ words[1] = API /\ words[2] = name
        ends(name) == Last(words) = name
        rest == SubSeq(p, 3, Len(p))
        inner == IF Len(p) > 3 THEN Front(rest) ELSE rest
    IN  IF words = <<"openapi.json">>
        THEN IF req.method \in {"GET", "HEAD"} THEN Showing("openapi", db) ELSE Reply(405, db)
        ELSE IF req.method = "GET" /\ words = <<API, "mailboxes">> THEN Reply(IF fails THEN 500 ELSE 200, db)
        ELSE IF req.method = "DELETE" /\ under("mailboxes") /\ Len(p) = 3 THEN DeleteMailbox(req, db, fails, rest)
        ELSE IF req.method = "GET" /\ under("mailboxes") /\ ends("messages") THEN ListMessages(req, db, fails, inner)
        ELSE IF req.method = "GET" /\ under("mailboxes") /\ ends("events") THEN ListCalendarEvents(req, db, fails, inner)
        ELSE IF req.method = "POST" /\ words = <<API, "messages", "actions">> THEN MessageActions(req, db, fails)
        ELSE IF req.method = "GET" /\ under("messages") /\ ends("source") THEN GetMessageSource(req, db, fails, inner)
        ELSE IF req.method = "GET" /\ under("messages") /\ ends("inspect") THEN InspectMessage(req, db, fails, inner)
        ELSE IF req.method = "GET" /\ under("messages") /\ Len(p) = 3 THEN GetMessage(req, db, fails, rest)
        ELSE IF req.method = "GET" /\ under("attachments") /\ Len(p) = 3 THEN GetAttachment(req, db, fails, rest)
        ELSE IF req.method = "GET" /\ words = <<API, "events">> THEN Showing("stream", db)
        ELSE IF req.method = "POST" /\ words = <<API, "reset">> THEN WipeAll(db, fails)
        ELSE IF req.method = "POST" /\ words = <<API, "send-test">> THEN SendTest(req, db, fails)
        ELSE IF Len(p) >= 2 /\ words[1] = API THEN Reply(404, db)
        ELSE ServeStatic(req, db)

-----------------------------------------------------------------------------
\* The messages that an action names, without the code's loop.
Named(req) == {v.id : v \in {x \in ToSet(req.body.ids) : x.num}}

\* A request by its method and the words of its path; a number has no word.
Asks(req, method, words) ==
    req.method = method /\ [i \in 1..Len(req.path) |-> req.path[i].w] = words

\* The rows e are those of db without these boxes and messages (and what hangs on
\* them), with the marked messages read or unread, and all else as it was.
Outcome(db, e, boxes, gone, marked, read) ==
    /\ e.boxes = db.boxes \ boxes
    /\ DOMAIN e.messages = DOMAIN db.messages \ gone
    /\ \A m \in DOMAIN e.messages :
         e.messages[m] = IF m \in marked THEN [db.messages[m] EXCEPT !.read = read] ELSE db.messages[m]
    /\ DOMAIN e.attachments = {a \in DOMAIN db.attachments : db.attachments[a].message \notin gone}
    /\ \A a \in DOMAIN e.attachments : e.attachments[a] = db.attachments[a]

\* What a request that succeeded has done to the rows.
Done(req, db, e) ==
    LET target == ParsedID(SubSeq(req.path, 3, Len(req.path)))
        deletes == req.body.action = "delete"
        reads == Asks(req, "GET", <<API, "messages", NoWord>>)
        acts == Asks(req, "POST", <<API, "messages", "actions">>)
        drops == Asks(req, "DELETE", <<API, "mailboxes", NoWord>>)
        wipes == Asks(req, "POST", <<API, "reset">>)
    IN  /\ reads => /\ target # {} /\ target \subseteq DOMAIN db.messages
                    /\ Outcome(db, e, {}, {}, target, TRUE)
        /\ acts => /\ Cardinality(Named(req)) \in 1..MaxMessageActionIDs
                   /\ Outcome(db, e, {}, IF deletes THEN Named(req) ELSE {},
                              IF deletes THEN {} ELSE Named(req), req.body.action = "read")
        /\ drops => /\ target # {} /\ target \subseteq db.boxes
                    /\ Outcome(db, e, target, {m \in DOMAIN db.messages : db.messages[m].box \in target}, {}, FALSE)
        /\ wipes => e.boxes = {} /\ DOMAIN e.messages = {} /\ DOMAIN e.attachments = {}
        /\ ~(reads \/ acts \/ drops \/ wipes) => e = db

\* The API does what it answers: a request that is refused or fails leaves the
\* rows as they were.  Of those that succeed the GET of a message marks that
\* message read and no other; an action has deleted or marked every message it
\* names and no other, however many, repeated or malformed its ids are; the DELETE
\* of a mailbox has removed it with its messages and their attachments, a reset
\* everything; every other request changes nothing.  No path of the API falls
\* through to the page, and an attachment is shown inline only when it is inert
\* or was sanitized.
AnswerExact(req, db, fails) ==
    LET r == Handle(req, db, fails)
    IN  /\ r.status # 200 => r.db = db
        /\ r.status = 200 => Done(req, db, r.db)
        /\ r.shows = "page" => Len(req.path) < 2 \/ req.path[1] # W(API)
        /\ r.shows = "inline" => \E a \in ParsedID(SubSeq(req.path, 3, Len(req.path))) :
             \/ db.attachments[a].type = "inert"
             \/ db.attachments[a].type = "svg" /\ db.attachments[a].safe
=============================================================================
