------------------------------ MODULE EventHub ------------------------------
(***************************************************************************)
(* events.Hub, the SSE handler that drains one subscription into an HTTP   *)
(* response, and the page at the other end, which refetches the resource   *)
(* an event names, refetches everything on the greeting, and reconnects    *)
(* when the stream ends (EventSource).                                     *)
(*                                                                         *)
(* Broadcasts are numbered; 0 on the wire is the handler's "connected"     *)
(* greeting.  Every hub operation runs under hub.mu and is one step.  What *)
(* a page knows of a resource is the number of broadcasts that had         *)
(* happened when it last read it: MailStore shows that every commit is     *)
(* followed by a broadcast that names what it changed.                     *)
(***************************************************************************)
EXTENDS Naturals, Sequences

CONSTANTS Pages,       \* browser pages, each with one EventSource
          Resources,   \* what a page shows and an event invalidates
          Capacity,    \* subscriberBuffer (64 in the code)
          MaxEvents,   \* bound: broadcasts
          MaxFaults    \* bound: connections that break

ASSUME CapacityAssumption == Capacity \in Nat \ {0}
ASSUME EventBounds == MaxEvents \in Nat /\ MaxFaults \in Nat

VARIABLES
    log,       \* the broadcasts so far: the resource each one names
    closed,    \* Hub.closed
    channel,   \* each stream's channel: "none", "open" (in Hub.subscribers), "closed"
    buf,       \* its buffered events
    conn,      \* the handler: "down", "greeting", "streaming", "ended"
    wire,      \* frames written and not yet read by the page
    fetched,   \* what the page knows: broadcasts before its last refetch
    faults     \* broken connections so far

hubVars == <<log, closed, channel, buf, conn, wire, fetched, faults>>

Greeting == 0
total == Len(log)

Init ==
    /\ log = <<>>
    /\ closed = FALSE
    /\ channel = [s \in Pages |-> "none"]
    /\ buf = [s \in Pages |-> <<>>]
    /\ conn = [s \in Pages |-> "down"]
    /\ wire = [s \in Pages |-> <<>>]
    /\ fetched = [s \in Pages |-> [r \in Resources |-> 0]]
    /\ faults = 0

-----------------------------------------------------------------------------
\* The page connects and the handler subscribes; a closed hub hands out a
\* closed channel.
Connect(s) ==
    /\ conn[s] = "down"
    /\ channel' = [channel EXCEPT ![s] = IF closed THEN "closed" ELSE "open"]
    /\ conn' = [conn EXCEPT ![s] = "greeting"]
    /\ UNCHANGED <<log, closed, buf, wire, fetched, faults>>

\* Mutant: the handler subscribes only after the page has read the greeting.
GreetBeforeSubscribing(s) ==
    /\ conn[s] = "greeting"
    /\ buf' = [buf EXCEPT ![s] = <<>>]
    /\ fetched' = [fetched EXCEPT ![s] = [r \in Resources |-> total - Len(buf[s])]]
    /\ conn' = [conn EXCEPT ![s] = "streaming"]
    /\ UNCHANGED <<log, closed, channel, wire, faults>>

\* The "connected" frame is written and flushed.
Greet(s) ==
    /\ conn[s] = "greeting"
    /\ wire' = [wire EXCEPT ![s] = Append(@, Greeting)]
    /\ conn' = [conn EXCEPT ![s] = "streaming"]
    /\ UNCHANGED <<log, closed, channel, buf, fetched, faults>>

Full(s) == Len(buf[s]) >= Capacity

\* Mutant: the event is dropped for a subscriber whose buffer is full.
BroadcastDrops ==
    /\ total < MaxEvents
    /\ \E r \in Resources : log' = Append(log, r)
    /\ buf' = [s \in Pages |-> IF channel[s] = "open" /\ ~Full(s)
                               THEN Append(buf[s], total + 1) ELSE buf[s]]
    /\ UNCHANGED <<closed, channel, conn, wire, fetched, faults>>

\* Hub.Broadcast: a subscriber that cannot take the event is removed and its
\* channel closed, what it has buffered stays readable.  A closed hub has no
\* subscribers, and does nothing.
Broadcast ==
    /\ total < MaxEvents
    /\ \E r \in Resources : log' = Append(log, r)
    /\ buf' = [s \in Pages |-> IF channel[s] = "open" /\ ~Full(s)
                               THEN Append(buf[s], total + 1) ELSE buf[s]]
    /\ channel' = [s \in Pages |-> IF channel[s] = "open" /\ Full(s)
                                   THEN "closed" ELSE channel[s]]
    /\ UNCHANGED <<closed, conn, wire, fetched, faults>>

\* Mutant: the newest buffered event goes first.
ForwardNewest(s) ==
    /\ conn[s] = "streaming"
    /\ buf[s] # <<>>
    /\ wire' = [wire EXCEPT ![s] = Append(@, buf[s][Len(buf[s])])]
    /\ buf' = [buf EXCEPT ![s] = SubSeq(@, 1, Len(@) - 1)]
    /\ UNCHANGED <<log, closed, channel, conn, fetched, faults>>

\* The handler takes an event off the channel, writes and flushes it.
Forward(s) ==
    /\ conn[s] = "streaming"
    /\ buf[s] # <<>>
    /\ wire' = [wire EXCEPT ![s] = Append(@, Head(buf[s]))]
    /\ buf' = [buf EXCEPT ![s] = Tail(@)]
    /\ UNCHANGED <<log, closed, channel, conn, fetched, faults>>

\* Mutant: the handler waits on for events on a closed channel.
StreamHangs(s) ==
    /\ conn[s] = "streaming"
    /\ channel[s] = "closed"
    /\ buf[s] = <<>>
    /\ UNCHANGED hubVars

\* if !open { return }: the closed channel is drained first.
StreamEnds(s) ==
    /\ conn[s] = "streaming"
    /\ channel[s] = "closed"
    /\ buf[s] = <<>>
    /\ conn' = [conn EXCEPT ![s] = "ended"]
    /\ channel' = [channel EXCEPT ![s] = "none"]
    /\ UNCHANGED <<log, closed, buf, wire, fetched, faults>>

\* The request's context ends or a write fails: the handler returns and
\* unsubscribes, frames in flight are lost, the page will reconnect.
Disconnect(s) ==
    /\ conn[s] \in {"greeting", "streaming"}
    /\ faults < MaxFaults
    /\ faults' = faults + 1
    /\ conn' = [conn EXCEPT ![s] = "down"]
    /\ channel' = [channel EXCEPT ![s] = "none"]
    /\ buf' = [buf EXCEPT ![s] = <<>>]
    /\ wire' = [wire EXCEPT ![s] = <<>>]
    /\ UNCHANGED <<log, closed, fetched>>

\* What the page refetches when a frame arrives (useRealtime).
Refetched(frame) == IF frame = Greeting THEN Resources ELSE {log[frame]}

\* The page handles a frame.
Receive(s) ==
    /\ wire[s] # <<>>
    /\ wire' = [wire EXCEPT ![s] = Tail(@)]
    /\ fetched' = [fetched EXCEPT ![s] =
            [r \in Resources |-> IF r \in Refetched(Head(wire[s])) THEN total ELSE @[r]]]
    /\ UNCHANGED <<log, closed, channel, buf, conn, faults>>

\* The page has read the end of the response; EventSource will reconnect.
NoticeEnd(s) ==
    /\ conn[s] = "ended"
    /\ wire[s] = <<>>
    /\ conn' = [conn EXCEPT ![s] = "down"]
    /\ UNCHANGED <<log, closed, channel, buf, wire, fetched, faults>>

\* Hub.Close, at shutdown.
Close ==
    /\ ~closed
    /\ closed' = TRUE
    /\ channel' = [s \in Pages |-> IF channel[s] = "open" THEN "closed" ELSE channel[s]]
    /\ UNCHANGED <<log, buf, conn, wire, fetched, faults>>

Stream(s) == Greet(s) \/ Forward(s) \/ StreamEnds(s)
Page(s) == Connect(s) \/ Receive(s) \/ NoticeEnd(s)

Next ==
    \/ \E s \in Pages : Stream(s) \/ Page(s) \/ Disconnect(s)
    \/ Broadcast
    \/ Close

Spec == Init /\ [][Next]_hubVars

(* A handler goroutine that can write goes on, and a page reads its stream *)
(* and reconnects; broadcasts, faults and the shutdown come as they may.   *)
Fairness == \A s \in Pages : WF_hubVars(Stream(s)) /\ WF_hubVars(Page(s))

FairSpec == Spec /\ Fairness

-----------------------------------------------------------------------------
\* Every variable keeps its type, and no channel holds more than its capacity.
TypeOK ==
    /\ log \in Seq(Resources)
    /\ total <= MaxEvents
    /\ closed \in BOOLEAN
    /\ channel \in [Pages -> {"none", "open", "closed"}]
    /\ buf \in [Pages -> Seq(Nat)]
    /\ \A s \in Pages : Len(buf[s]) <= Capacity
    /\ conn \in [Pages -> {"down", "greeting", "streaming", "ended"}]
    /\ wire \in [Pages -> Seq(Nat)]
    /\ fetched \in [Pages -> [Resources -> 0..MaxEvents]]
    /\ faults \in 0..MaxFaults

\* The page has read every resource since the last broadcast that names it.
Fresh(s) == \A n \in 1..total : fetched[s][log[n]] >= n

\* No silent gap: a page whose stream is open, with nothing buffered and
\* nothing in flight, has read every resource since it last changed.  Overflow,
\* disconnection and the window before the subscription all leave something
\* behind that makes the page refetch.
NoSilentGap ==
    \A s \in Pages :
        /\ conn[s] = "streaming"
        /\ channel[s] = "open"
        /\ buf[s] = <<>>
        /\ wire[s] = <<>>
        => Fresh(s)

\* What is on its way to a page, after the greeting that begins a stream.
InTransit(s) ==
    LET q == wire[s] \o buf[s]
    IN  IF q # <<>> /\ q[1] = Greeting THEN Tail(q) ELSE q

\* "Broadcasts preserve enqueue order": what is on its way to a page is a run of
\* consecutive broadcasts, none of them before the greeting of its stream, and on
\* an open channel it reaches to the last one.
OrderedDelivery ==
    \A s \in Pages :
        LET q == InTransit(s)
        IN  /\ \A i \in 1..(Len(q) - 1) : q[i + 1] = q[i] + 1
            /\ channel[s] = "open" /\ q # <<>> => q[Len(q)] = total

\* A stream whose channel was closed, by overflow or by Hub.Close, ends.
ClosedStreamEnds ==
    \A s \in Pages : channel[s] = "closed" ~> conn[s] \in {"ended", "down"}

\* Unless the hub is closed, every page comes to know of every broadcast and
\* stays so once the broadcasts have stopped, through overflow and reconnection.
EventuallyFresh ==
    \A s \in Pages : []~closed => <>[]Fresh(s)
=============================================================================
