----------------------------- MODULE IcsParser -----------------------------
(***************************************************************************)
(* calendar.ParseICS: the state of the loop over the unfolded content      *)
(* lines, one operator per kind of line, the eventBuilder, and the         *)
(* arithmetic of DURATION.                                                 *)
(*                                                                         *)
(* A content line is [name, text, num, ok, date]: ok says whether its      *)
(* value decodes, num is its number or instant, date that it is a date     *)
(* without a time.  Unfolding, quoting, parameters and the address and     *)
(* text values of an event are left out; time zones are folded into num.   *)
(***************************************************************************)
EXTENDS Integers, Sequences, FiniteSets, FiniteSetsExt, SequencesExt

CONSTANTS MaxEvents,    \* maxEventsPerCalendar
          Width,        \* the width of Go's int and int64
          DayMillis,    \* milliseconds of a day
          Second, Minute, Hour,  \* nanoseconds
          Milli

MaxInt == 2 ^ (Width - 1) - 1

ASSUME IcsAssumption ==
    /\ {MaxEvents, Width, DayMillis, Second, Minute, Hour, Milli} \subseteq Nat \ {0}
    /\ MaxInt \in Nat
    /\ \A unit \in {Second, Minute, Hour} : unit % Milli = 0

\* The lines there are: numbers and instants have the width of an int, and a
\* DURATION has no sign of its own.
ContentLines ==
    {l \in [name : STRING, text : STRING, num : -(MaxInt + 1)..MaxInt, ok : BOOLEAN, date : BOOLEAN] :
        l.name = "DURATION" => l.num >= 0}

Line(name) == [name |-> name, text |-> "", num |-> 0, ok |-> TRUE, date |-> FALSE]
Begin(component) == [Line("BEGIN") EXCEPT !.text = component]
End(component) == [Line("END") EXCEPT !.text = component]

NoBuilder == [properties |-> <<>>, attendees |-> <<>>, open |-> FALSE]

InitialParser ==
    [failed |-> FALSE, method |-> "PUBLISH", stack |-> <<>>, events |-> <<>>, current |-> NoBuilder,
     seenCalendar |-> FALSE, closedCalendar |-> FALSE, seenComponent |-> FALSE, eventCount |-> 0]

\* return []ParsedCalendarEvent{}
Reject(p) == [p EXCEPT !.failed = TRUE, !.events = <<>>]

-----------------------------------------------------------------------------
(* eventBuilder *)

\* eventBuilder.add
Add(b, l) ==
    IF l.name = "ATTENDEE" THEN [b EXCEPT !.attendees = Append(@, l)]
    ELSE IF \E i \in 1..Len(b.properties) : b.properties[i].name = l.name THEN b
    ELSE [b EXCEPT !.properties = Append(@, l)]

Has(b, name) == \E i \in 1..Len(b.properties) : b.properties[i].name = name
Property(b, name) ==
    IF Has(b, name) THEN b.properties[Min({i \in 1..Len(b.properties) : b.properties[i].name = name})]
    ELSE Line(name)

\* A result in Go's int: two's complement, of 2 ^ Width values.
Wrap(x) == ((x + MaxInt + 1) % (2 * (MaxInt + 1))) - MaxInt - 1

\* Mutant: the days are not bounded before they are multiplied.
DaysFitUnchecked(d) == TRUE

\* The first check of addTo.
DaysFit(d) ==
    LET maxDays == MaxInt \div DayMillis
    IN  d.weeks <= maxDays \div 7 /\ d.days <= maxDays - Wrap(d.weeks * 7)

\* One turn of the loop of addTo, -1 when the clock part does not fit.
ClockStep(clock, count, unit) ==
    IF clock < 0 \/ count > (MaxInt - clock) \div unit THEN -1
    ELSE Wrap(clock + Wrap(count * unit))

\* The loop of addTo: the clock part.
Clock(d) == ClockStep(ClockStep(ClockStep(0, d.hours, Hour), d.minutes, Minute), d.seconds, Second)

\* calendarDuration.addTo: an instant is a number of milliseconds.
AddTo(d, start) ==
    LET days == Wrap(d.sign * Wrap(Wrap(d.weeks * 7) + d.days))
        end == start + days * DayMillis + Wrap(d.sign * Clock(d)) \div Milli
    IN  IF DaysFit(d) /\ Clock(d) >= 0 /\ Wrap(end) = end
        THEN [valid |-> TRUE, end |-> end] ELSE [valid |-> FALSE, end |-> 0]

\* parseSequence
ParseSequence(l) == IF ~l.ok \/ l.num < 0 THEN 0 ELSE l.num

NoEvent == [include |-> FALSE, valid |-> TRUE]
Invalid == [include |-> FALSE, valid |-> FALSE]

\* A DURATION line's num counts days, so that it is added like any other.
Days(n) == [sign |-> 1, weeks |-> 0, days |-> n, hours |-> 0, minutes |-> 0, seconds |-> 0]

\* eventBuilder.build
Build(b, method) ==
    LET uid == Property(b, "UID")
        start == Property(b, "DTSTART")
        end == Property(b, "DTEND")
        duration == Property(b, "DURATION")
        sum == AddTo(Days(duration.num), start.num)
        ends == IF Has(b, "DTEND") THEN {end.num}
                ELSE IF Has(b, "DURATION") THEN {sum.end}
                ELSE IF start.date THEN {start.num + DayMillis} ELSE {}
    IN  IF ~Has(b, "UID") \/ ~Has(b, "DTSTART") THEN NoEvent
        ELSE IF ~uid.ok THEN Invalid
        ELSE IF uid.text = "" THEN NoEvent
        ELSE IF ~start.ok THEN Invalid
        ELSE IF Has(b, "DTEND") /\ ~end.ok THEN Invalid
        ELSE IF ~Has(b, "DTEND") /\ Has(b, "DURATION") /\ ~(duration.ok /\ sum.valid) THEN Invalid
        ELSE IF ~Property(b, "SUMMARY").ok THEN Invalid
        ELSE [include |-> TRUE, valid |-> TRUE,
              event |-> [method |-> method, uid |-> uid.text,
                         seq |-> ParseSequence(Property(b, "SEQUENCE")),
                         status |-> Property(b, "STATUS").text,
                         attendees |-> [i \in 1..Len(b.attendees) |-> b.attendees[i].text],
                         start |-> start.num, end |-> ends, allDay |-> start.date]]

-----------------------------------------------------------------------------
(* The loop of ParseICS. *)

\* case "BEGIN"
OnBegin(p, l) ==
    LET depth == Len(p.stack)
        event == depth > 0 /\ l.text = "VEVENT"
        refused == \/ depth = 0 /\ (l.text # "VCALENDAR" \/ p.seenCalendar)
                   \/ depth > 0 /\ l.text = "VCALENDAR"
                   \/ event /\ (p.stack # <<"VCALENDAR">> \/ p.eventCount + 1 > MaxEvents)
    IN  IF refused THEN Reject(p)
        ELSE [p EXCEPT !.stack = Append(@, l.text),
                       !.seenCalendar = @ \/ depth = 0,
                       !.seenComponent = @ \/ depth > 0,
                       !.eventCount = IF event THEN @ + 1 ELSE @,
                       !.current = IF event THEN [NoBuilder EXCEPT !.open = TRUE] ELSE @]

\* Mutant: the component named by END is not compared with the open one.
OnEndUnmatched(p, l) ==
    IF p.stack = <<>> THEN Reject(p)
    ELSE LET built == Build(p.current, p.method)
             event == l.text = "VEVENT" /\ p.current.open
         IN  IF event /\ ~built.valid THEN Reject(p)
             ELSE [p EXCEPT !.stack = Front(@),
                            !.events = IF event /\ built.include THEN Append(@, built.event) ELSE @,
                            !.current = IF event THEN NoBuilder ELSE @,
                            !.closedCalendar = @ \/ l.text = "VCALENDAR"]

\* case "END"
OnEnd(p, l) ==
    LET built == Build(p.current, p.method)
        event == l.text = "VEVENT" /\ p.current.open
    IN  IF p.stack = <<>> \/ Last(p.stack) # l.text THEN Reject(p)
        ELSE IF event /\ ~built.valid THEN Reject(p)
        ELSE [p EXCEPT !.stack = Front(@),
                       !.events = IF event /\ built.include THEN Append(@, built.event) ELSE @,
                       !.current = IF event THEN NoBuilder ELSE @,
                       !.closedCalendar = @ \/ l.text = "VCALENDAR"]

\* Every other line.
OnProperty(p, l) ==
    IF p.stack = <<>> THEN Reject(p)
    ELSE IF p.stack = <<"VCALENDAR">> /\ l.name = "METHOD"
         THEN IF p.seenComponent THEN Reject(p)
              ELSE IF l.text = "" THEN p ELSE [p EXCEPT !.method = l.text]
    ELSE IF p.current.open /\ Last(p.stack) = "VEVENT" THEN [p EXCEPT !.current = Add(@, l)]
    ELSE p

\* One turn of the loop; a line that does not parse ends it.
Turn(p, l) ==
    IF p.failed THEN p
    ELSE IF l.name = "" THEN Reject(p)
    ELSE IF l.name = "BEGIN" THEN OnBegin(p, l)
    ELSE IF l.name = "END" THEN OnEnd(p, l)
    ELSE OnProperty(p, l)

\* What ParseICS returns after these lines.
Events(p) ==
    IF p.failed \/ ~p.seenCalendar \/ ~p.closedCalendar \/ p.stack # <<>> THEN <<>> ELSE p.events

\* The parser after each line.
Parsed(lines) ==
    LET p[i \in 0..Len(lines)] == IF i = 0 THEN InitialParser ELSE Turn(p[i - 1], lines[i])
    IN  p

ParseICS(lines) == Events(Parsed(lines)[Len(lines)])

-----------------------------------------------------------------------------
(* What the lines say, without a parser: the tree they draw. *)

Level(lines, i) ==
    Cardinality({k \in 1..i : lines[k].name = "BEGIN"})
    - Cardinality({k \in 1..i : lines[k].name = "END"})

\* The line that closes the component opened at i, 0 when none does.
Closing(lines, i) ==
    LET at == {j \in (i + 1)..Len(lines) : Level(lines, j) < Level(lines, i)}
    IN  IF at = {} THEN 0 ELSE Min(at)

Begins(lines) == {i \in 1..Len(lines) : lines[i].name = "BEGIN"}

\* The component line i stands in directly, 0 outside of all.
Owner(lines, i) ==
    LET around == {b \in Begins(lines) : b < i /\ (Closing(lines, b) > i \/ Closing(lines, b) = 0)}
    IN  IF around = {} THEN 0 ELSE Max(around)

EventsAt(lines) == {b \in Begins(lines) : lines[b].text = "VEVENT" /\ Owner(lines, b) = 1}

\* One VCALENDAR around everything, components that close by their own name,
\* VEVENTs only directly inside, and METHOD before the first component.
WellFormed(lines) ==
    /\ lines # <<>> /\ lines[1].name = "BEGIN" /\ lines[1].text = "VCALENDAR"
    /\ Closing(lines, 1) = Len(lines)
    /\ \A b \in Begins(lines) :
         /\ Closing(lines, b) > 0 /\ lines[Closing(lines, b)].text = lines[b].text
         /\ b > 1 => lines[b].text # "VCALENDAR"
         /\ lines[b].text = "VEVENT" => b \in EventsAt(lines)
    /\ Cardinality(EventsAt(lines)) <= MaxEvents
    /\ \A i \in 1..Len(lines) :
         /\ lines[i].name # ""
         /\ lines[i].name = "METHOD" /\ Owner(lines, i) = 1 => \A b \in Begins(lines) : b = 1 \/ b > i

\* The first line of a name directly inside the component at b.
Said(lines, b, name) ==
    LET at == {i \in b..Len(lines) : lines[i].name = name /\ Owner(lines, i) = b}
    IN  IF at = {} THEN {} ELSE {lines[Min(at)]}

\* The event a VEVENT is kept as, and the ones that are dropped or spoil it all.
Kept(lines, b) ==
    /\ \A name \in {"UID", "DTSTART"} : Said(lines, b, name) # {}
    /\ \A l \in Said(lines, b, "UID") : l.text # "" \/ ~l.ok

Spoiled(lines, b) ==
    /\ Kept(lines, b)
    /\ \/ \E name \in {"UID", "DTSTART", "DTEND", "SUMMARY"} : \E l \in Said(lines, b, name) : ~l.ok
       \/ /\ Said(lines, b, "DTEND") = {}
          /\ \E l \in Said(lines, b, "DURATION"), s \in Said(lines, b, "DTSTART") :
               ~l.ok \/ l.num * DayMillis > MaxInt \/ s.num + l.num * DayMillis > MaxInt

\* When the event at b ends: DTEND, else DTSTART and DURATION, else a day for a date.
EndSaid(lines, b) ==
    LET starts == Said(lines, b, "DTSTART")
        ends == Said(lines, b, "DTEND")
        durations == Said(lines, b, "DURATION")
    IN  IF ends # {} THEN {l.num : l \in ends}
        ELSE IF durations # {} THEN {s.num + l.num * DayMillis : s \in starts, l \in durations}
        ELSE {s.num + DayMillis : s \in {x \in starts : x.date}}

Methods(lines) ==
    LET at == {i \in 1..Len(lines) : lines[i].name = "METHOD" /\ Owner(lines, i) = 1 /\ lines[i].text # ""}
    IN  IF at = {} THEN "PUBLISH" ELSE lines[Max(at)].text

\* What is kept of the event at b is what its lines say.
ReadAs(lines, b, event) ==
    /\ \A l \in Said(lines, b, "UID") : event.uid = l.text
    /\ \A l \in Said(lines, b, "DTSTART") : event.start = l.num
    /\ \A l \in Said(lines, b, "SEQUENCE") : event.seq = ParseSequence(l)
    /\ Said(lines, b, "SEQUENCE") = {} => event.seq = 0
    /\ event.end = EndSaid(lines, b)

\* ParseICS fails closed: it keeps the events of a calendar that is well formed,
\* in order, with the method of the calendar and their own first properties, and
\* none at all of any other.
CalendarRead(lines) ==
    LET parsed == ParseICS(lines)
        kept == {b \in EventsAt(lines) : Kept(lines, b)}
    IN  IF ~WellFormed(lines) \/ \E b \in EventsAt(lines) : Spoiled(lines, b)
        THEN parsed = <<>>
        ELSE /\ Len(parsed) = Cardinality(kept)
             /\ \A b \in kept :
                  LET event == parsed[Cardinality({c \in kept : c <= b})]
                  IN  event.method = Methods(lines) /\ ReadAs(lines, b, event)

\* The end of an event that is stored is the exact instant, whatever DURATION
\* says: no step of its arithmetic overflows.
DurationExact(d, start) ==
    AddTo(d, start).valid =>
        AddTo(d, start).end =
            start + d.sign * ((7 * d.weeks + d.days) * DayMillis
                              + (d.hours * Hour + d.minutes * Minute + d.seconds * Second) \div Milli)
=============================================================================
