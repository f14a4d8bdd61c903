---------------------------- MODULE CalendarRows ----------------------------
(***************************************************************************)
(* applyCalendarEvents: how one parsed iCalendar component changes the     *)
(* calendar_events rows of a mailbox.  The table is a set of rows, at most *)
(* one per (mailbox, uid).                                                 *)
(*                                                                         *)
(* A parsed event is [method, uid, seq, status, attendees, details]; a row *)
(* has mbox, uid, seq, status, attendees, details and last, the            *)
(* last_message_id column.  Abstractions: `details` stands for the columns *)
(* that are always written together (summary, description, location,       *)
(* organizer, dtstart, dtend, all_day); an attendee list is a function     *)
(* from case-folded addresses to a participation status, Absent for an     *)
(* address that is not on the list; updated_at is left out.  `serial` is a *)
(* ghost: the identity of the message `last` meant when it was written.    *)
(***************************************************************************)
EXTENDS Naturals

Absent == "absent"          \* an address that is not an attendee
NoStatus == ""              \* a component without a STATUS property
Cancelled == "CANCELLED"
Confirmed == "CONFIRMED"

RowsFor(rows, mbox, uid) == {r \in rows : r.mbox = mbox /\ r.uid = uid}

\* insertCalendarEvent
NewRow(mbox, msg, ev, status) ==
    [mbox |-> mbox, uid |-> ev.uid, seq |-> ev.seq, status |-> status,
     attendees |-> ev.attendees, details |-> ev.details,
     last |-> msg.id, serial |-> msg.serial]

\* METHOD:CANCEL applies whatever its sequence number is, and leaves a
\* cancelled row behind when the invitation has not arrived yet.
CancelRows(old, mbox, msg, ev) ==
    IF old = {}
    THEN {NewRow(mbox, msg, ev, Cancelled)}
    ELSE {[r EXCEPT !.status = Cancelled,
                    !.seq = IF ev.seq > r.seq THEN ev.seq ELSE r.seq,
                    !.last = msg.id,
                    !.serial = msg.serial] : r \in old}

\* METHOD:REPLY only merges participation statuses into an existing row.
ReplyRows(old, msg, ev) ==
    IF \A a \in DOMAIN ev.attendees : ev.attendees[a] = Absent
    THEN old
    ELSE {[r EXCEPT !.attendees =
                        [a \in DOMAIN r.attendees |->
                            IF ev.attendees[a] = Absent THEN r.attendees[a]
                                                        ELSE ev.attendees[a]],
                    !.last = msg.id,
                    !.serial = msg.serial] : r \in old}

EventStatus(ev) == IF ev.status = NoStatus THEN Confirmed ELSE ev.status

\* Mutant: an update with the sequence number of the row is dropped.
UpdateRowsNewer(old, mbox, msg, ev) ==
    IF old = {}
    THEN {NewRow(mbox, msg, ev, EventStatus(ev))}
    ELSE {IF ev.seq > r.seq THEN NewRow(mbox, msg, ev, EventStatus(ev)) ELSE r : r \in old}

\* Every other method replaces the row unless it is older than the row.
UpdateRows(old, mbox, msg, ev) ==
    IF old = {}
    THEN {NewRow(mbox, msg, ev, EventStatus(ev))}
    ELSE {IF ev.seq >= r.seq THEN NewRow(mbox, msg, ev, EventStatus(ev))
                             ELSE r : r \in old}

\* One turn of the loop of applyCalendarEvents.
ApplyCalendarEvent(rows, mbox, msg, ev) ==
    LET old == RowsFor(rows, mbox, ev.uid)
        new == CASE ev.method = "CANCEL" -> CancelRows(old, mbox, msg, ev)
                 [] ev.method = "REPLY"  -> ReplyRows(old, msg, ev)
                 [] OTHER                -> UpdateRows(old, mbox, msg, ev)
    IN  (rows \ old) \cup new
=============================================================================
