-------------------------- MODULE ClientCacheProofs --------------------------
(***************************************************************************)
(* The hub never lets a page fall behind unnoticed, and what a page holds  *)
(* of the server's resources: for any number of pages, message lists and   *)
(* broadcasts, any buffer capacity and any limit on inactive entries.      *)
(***************************************************************************)
EXTENDS ClientCache, SequenceTheorems, TLAPS

-----------------------------------------------------------------------------
(* The hub. *)

\* Something on its way to page s makes it refetch what broadcast n named, or
\* it has done so already.
Covered(s, n) ==
    \/ fetched[s][log[n]] >= n
    \/ \E i \in 1..Len(wire[s]) : wire[s][i] \in {n, Greeting}
    \/ \E i \in 1..Len(buf[s]) : buf[s][i] = n

\* The strengthening of NoSilentGap: every broadcast is covered, not only when
\* the buffer and the wire happen to be empty.
AllCovered ==
    \A s \in Pages : conn[s] = "streaming" /\ channel[s] = "open" =>
        \A n \in 1..Len(log) : Covered(s, n)

HubInv == TypeOK /\ AllCovered

\* A stream begins empty: what the page has not read of the stream before is gone
\* when it connects, and a handler that has ended leaves nothing buffered.
Restarted(s) ==
    /\ conn[s] \in {"down", "greeting"} => wire[s] = <<>>
    /\ conn[s] \in {"down", "ended"} => buf[s] = <<>> /\ channel[s] = "none"

\* A queue of frames is a run of broadcasts, after a greeting perhaps, and when
\* open it reaches to broadcast n.
Run(q, open, n) ==
    /\ \A i \in 1..(Len(q) - 1) : q[i + 1] = q[i] + 1 \/ (i = 1 /\ q[1] = Greeting)
    /\ open /\ q # <<>> => q[Len(q)] = n \/ (Len(q) = 1 /\ q[1] = Greeting)

\* The strengthening of OrderedDelivery: wire and buffer together are a run, and
\* no greeting is ever buffered.
InOrder(s) ==
    /\ Run(wire[s] \o buf[s], channel[s] = "open", Len(log))
    /\ \A i \in 1..Len(buf[s]) : buf[s][i] # Greeting

OrderInv == \A s \in Pages : Restarted(s) /\ InOrder(s)

-----------------------------------------------------------------------------
\* The hub starts with no broadcast and no stream.
LEMMA HubInitInv == Init => HubInv
<1> USE CapacityAssumption, EventBounds
<1>1. Init => TypeOK
  <2>1. <<>> \in Seq(Nat) /\ <<>> \in Seq(Resources) /\ Len(<<>>) = 0
    OBVIOUS
  <2> SUFFICES ASSUME Init PROVE TypeOK
    OBVIOUS
  <2>2. buf \in [Pages -> Seq(Nat)] /\ \A s \in Pages : Len(buf[s]) <= Capacity
    BY <2>1 DEF Init
  <2>3. wire \in [Pages -> Seq(Nat)]
    BY <2>1 DEF Init
  <2>4. fetched \in [Pages -> [Resources -> 0..MaxEvents]]
    BY DEF Init
  <2>5. log \in Seq(Resources) /\ total <= MaxEvents
    BY <2>1 DEF Init, total
  <2>6. /\ channel \in [Pages -> {"none", "open", "closed"}]
        /\ conn \in [Pages -> {"down", "greeting", "streaming", "ended"}]
        /\ faults \in 0..MaxFaults
    BY DEF Init
  <2>7. closed \in BOOLEAN
    BY DEF Init
  <2> QED BY <2>2, <2>3, <2>4, <2>5, <2>6, <2>7 DEF TypeOK
<1>2. Init => AllCovered
    BY DEF Init, AllCovered
<1> QED BY <1>1, <1>2 DEF HubInv

\* Every step of the hub, a stream or a page keeps the types, and no channel
\* ever holds more than its capacity.
LEMMA HubStepType == TypeOK /\ [Next]_hubVars => TypeOK'
<1> SUFFICES ASSUME TypeOK, [Next]_hubVars PROVE TypeOK'
    OBVIOUS
<1> USE CapacityAssumption, EventBounds DEF TypeOK, total
<1>1. CASE UNCHANGED hubVars
    BY <1>1 DEF hubVars
<1>2. ASSUME NEW s \in Pages, Connect(s) PROVE TypeOK'
    BY <1>2 DEF Connect
<1>3. ASSUME NEW s \in Pages, Greet(s) PROVE TypeOK'
    BY <1>3 DEF Greet, Greeting
<1>4. ASSUME NEW s \in Pages, Forward(s) PROVE TypeOK'
    BY <1>4 DEF Forward
<1>5. ASSUME NEW s \in Pages, StreamEnds(s) PROVE TypeOK'
    BY <1>5 DEF StreamEnds
<1>6. ASSUME NEW s \in Pages, Disconnect(s) PROVE TypeOK'
    BY <1>6 DEF Disconnect
<1>7. ASSUME NEW s \in Pages, Receive(s) PROVE TypeOK'
  <2>1. fetched' \in [Pages -> [Resources -> 0..MaxEvents]]
    BY <1>7 DEF Receive
  <2>2. wire' \in [Pages -> Seq(Nat)]
    BY <1>7 DEF Receive
  <2> QED BY <1>7, <2>1, <2>2 DEF Receive
<1>8. ASSUME NEW s \in Pages, NoticeEnd(s) PROVE TypeOK'
    BY <1>8 DEF NoticeEnd
<1>9. CASE Broadcast
  <2>1. log' \in Seq(Resources) /\ Len(log') <= MaxEvents
    BY <1>9 DEF Broadcast
  <2>2. buf' \in [Pages -> Seq(Nat)] /\ \A s \in Pages : Len(buf'[s]) <= Capacity
    BY <1>9 DEF Broadcast, Full
  <2> QED BY <1>9, <2>1, <2>2 DEF Broadcast
<1>10. CASE Close
    BY <1>10 DEF Close
<1> QED
    BY <1>1, <1>2, <1>3, <1>4, <1>5, <1>6, <1>7, <1>8, <1>9, <1>10
    DEF Next, Stream, Page

-----------------------------------------------------------------------------
\* A page that refetches on a frame knows at least what it knew, and knows
\* what the frame named as of now.
LEMMA ReceiveCovers ==
    ASSUME TypeOK, NEW s \in Pages, Receive(s), NEW n \in 1..Len(log), Covered(s, n)
    PROVE  Covered(s, n)'
<1> USE DEF TypeOK, total
<1> DEFINE frame == Head(wire[s])
<1>1. /\ log' = log /\ buf' = buf
      /\ wire'[s] = Tail(wire[s])
      /\ wire[s] # <<>> /\ wire[s] \in Seq(Nat)
    BY DEF Receive
<1>2. log[n] \in Resources
    OBVIOUS
<1>3. fetched'[s][log[n]] = IF log[n] \in Refetched(frame) THEN Len(log)
                                                           ELSE fetched[s][log[n]]
    BY <1>2 DEF Receive
<1>4. CASE fetched[s][log[n]] >= n
    BY <1>1, <1>3, <1>4 DEF Covered
<1>5. CASE frame \in {n, Greeting}
    BY <1>1, <1>2, <1>3, <1>5 DEF Covered, Refetched
<1>6. ASSUME NEW i \in 1..Len(wire[s]), wire[s][i] \in {n, Greeting},
             frame \notin {n, Greeting}
      PROVE  Covered(s, n)'
  <2> DEFINE q == wire[s]
  <2>1. q \in Seq(Nat) /\ q # <<>> /\ wire'[s] = Tail(q) /\ i \in 1..Len(q)
    BY <1>1
  <2>2. i # 1
    <3>1. frame = q[1]
      BY <2>1
    <3> QED BY <1>6, <3>1
  <2> HIDE DEF q
  <2>3. i - 1 \in 1..Len(Tail(q)) /\ Tail(q)[i - 1] = q[i]
    BY <2>1, <2>2
  <2>4. i - 1 \in 1..Len(wire'[s]) /\ wire'[s][i - 1] = wire[s][i]
    BY <2>1, <2>3 DEF q
  <2> QED BY <2>4, <1>6 DEF Covered, Greeting
<1>7. CASE \E i \in 1..Len(buf[s]) : buf[s][i] = n
    BY <1>1, <1>7 DEF Covered
<1> QED BY <1>4, <1>5, <1>6, <1>7 DEF Covered

\* What follows the head of a queue stays in it, one place further on.
LEMMA TailElement ==
    ASSUME NEW S, NEW q \in Seq(S), NEW i \in 1..Len(q), i # 1
    PROVE  i - 1 \in 1..Len(Tail(q)) /\ Tail(q)[i - 1] = q[i]
OBVIOUS

\* An event that leaves the channel is on the wire.
LEMMA ForwardCovers ==
    ASSUME TypeOK, NEW s \in Pages, Forward(s), NEW n \in 1..Len(log), Covered(s, n)
    PROVE  Covered(s, n)'
<1> USE DEF TypeOK, total
<1>1. /\ log' = log /\ fetched' = fetched
      /\ wire'[s] = Append(wire[s], Head(buf[s]))
      /\ buf'[s] = Tail(buf[s])
      /\ buf[s] # <<>> /\ buf[s] \in Seq(Nat) /\ wire[s] \in Seq(Nat)
    BY DEF Forward
<1>2. CASE fetched[s][log[n]] >= n
    BY <1>1, <1>2 DEF Covered
<1>3. ASSUME NEW i \in 1..Len(wire[s]), wire[s][i] \in {n, Greeting}
      PROVE  Covered(s, n)'
  <2>1. i \in 1..Len(wire'[s]) /\ wire'[s][i] = wire[s][i]
    BY <1>1
  <2> QED BY <2>1, <1>3 DEF Covered, Greeting
<1>4. ASSUME NEW i \in 1..Len(buf[s]), buf[s][i] = n PROVE Covered(s, n)'
  <2>1. CASE i = 1
    <3>1. Len(wire[s]) + 1 \in 1..Len(wire'[s]) /\ wire'[s][Len(wire[s]) + 1] = n
      BY <1>1, <1>4, <2>1
    <3> QED BY <3>1 DEF Covered
  <2>2. CASE i # 1
    <3>1. i - 1 \in 1..Len(buf'[s]) /\ buf'[s][i - 1] = n
      BY <1>1, <1>4, <2>2, TailElement
    <3> QED BY <3>1 DEF Covered
  <2> QED BY <2>1, <2>2
<1> QED BY <1>2, <1>3, <1>4 DEF Covered

\* A broadcast is queued for every subscriber that stays subscribed, and
\* disturbs nothing that is on its way.
LEMMA BroadcastCovers ==
    ASSUME TypeOK, Broadcast, NEW s \in Pages, channel'[s] = "open",
           \A n \in 1..Len(log) : Covered(s, n)
    PROVE  \A n \in 1..Len(log') : Covered(s, n)'
<1> USE DEF TypeOK, total
<1>1. channel[s] = "open" /\ ~Full(s)
    BY DEF Broadcast
<1>2. /\ buf'[s] = Append(buf[s], Len(log) + 1) /\ buf[s] \in Seq(Nat)
      /\ wire' = wire /\ fetched' = fetched
    BY <1>1 DEF Broadcast
<1>3. PICK r \in Resources : log' = Append(log, r)
    BY DEF Broadcast
<1> TAKE n \in 1..Len(log')
<1>4. CASE n = Len(log) + 1
  <2>1. Len(buf[s]) + 1 \in 1..Len(buf'[s]) /\ buf'[s][Len(buf[s]) + 1] = n
    BY <1>2, <1>4
  <2> QED BY <2>1 DEF Covered
<1>5. CASE n \in 1..Len(log)
  <2>1. log'[n] = log[n] /\ Covered(s, n)
    BY <1>3, <1>5
  <2>2. ASSUME NEW i \in 1..Len(buf[s]), buf[s][i] = n PROVE Covered(s, n)'
    <3>1. i \in 1..Len(buf'[s]) /\ buf'[s][i] = n
      BY <1>2, <2>2
    <3> QED BY <3>1 DEF Covered
  <2> QED BY <1>2, <2>1, <2>2 DEF Covered, Greeting
<1> QED BY <1>3, <1>4, <1>5

\* Every step keeps every broadcast covered.
LEMMA HubStepCovered == HubInv /\ [Next]_hubVars => AllCovered'
<1> SUFFICES ASSUME HubInv, [Next]_hubVars,
                    NEW s \in Pages, conn'[s] = "streaming", channel'[s] = "open",
                    NEW n \in 1..Len(log')
             PROVE  Covered(s, n)'
    BY DEF AllCovered
<1> USE DEF HubInv, TypeOK
<1>1. CASE UNCHANGED <<log, conn, channel, buf, wire, fetched>>
    BY <1>1 DEF AllCovered, Covered, Greeting
<1>2. ASSUME NEW t \in Pages, Connect(t) PROVE Covered(s, n)'
  <2>1. s # t
    BY <1>2 DEF Connect
  <2> QED BY <1>2, <2>1 DEF Connect, AllCovered, Covered, Greeting
<1>3. ASSUME NEW t \in Pages, Greet(t) PROVE Covered(s, n)'
  <2>1. CASE s = t
    <3>1. wire'[s] = Append(wire[s], Greeting) /\ wire[s] \in Seq(Nat)
      BY <1>3, <2>1 DEF Greet
    <3>2. Len(wire[s]) + 1 \in 1..Len(wire'[s]) /\ wire'[s][Len(wire[s]) + 1] = Greeting
      BY <3>1 DEF Greeting
    <3> QED BY <3>2 DEF Covered, Greeting
  <2>2. CASE s # t
    BY <1>3, <2>2 DEF Greet, AllCovered, Covered, Greeting
  <2> QED BY <2>1, <2>2
<1>4. ASSUME NEW t \in Pages, Forward(t) PROVE Covered(s, n)'
  <2>1. n \in 1..Len(log) /\ Covered(s, n)
    BY <1>4 DEF Forward, AllCovered
  <2>2. CASE s = t
    BY <1>4, <2>1, <2>2, ForwardCovers
  <2>3. CASE s # t
    BY <1>4, <2>1, <2>3 DEF Forward, Covered, Greeting
  <2> QED BY <2>2, <2>3
<1>5. ASSUME NEW t \in Pages, StreamEnds(t) \/ NoticeEnd(t) \/ Disconnect(t)
      PROVE  Covered(s, n)'
  <2>1. s # t
    BY <1>5 DEF StreamEnds, NoticeEnd, Disconnect
  <2>2. /\ log' = log /\ conn'[s] = conn[s] /\ channel'[s] = channel[s]
        /\ buf'[s] = buf[s] /\ wire'[s] = wire[s] /\ fetched'[s] = fetched[s]
    BY <1>5, <2>1 DEF StreamEnds, NoticeEnd, Disconnect
  <2>3. Covered(s, n)
    BY <2>2 DEF AllCovered
  <2> QED BY <2>2, <2>3 DEF Covered, Greeting
<1>6. ASSUME NEW t \in Pages, Receive(t) PROVE Covered(s, n)'
  <2>1. n \in 1..Len(log) /\ Covered(s, n)
    BY <1>6 DEF Receive, AllCovered
  <2>2. CASE s = t
    BY <1>6, <2>1, <2>2, ReceiveCovers
  <2>3. CASE s # t
    BY <1>6, <2>1, <2>3 DEF Receive, Covered, Greeting
  <2> QED BY <2>2, <2>3
<1>7. CASE Broadcast
  <2>1. conn[s] = "streaming" /\ channel[s] = "open"
    BY <1>7 DEF Broadcast
  <2> QED BY <1>7, <2>1, BroadcastCovers DEF AllCovered
<1>8. CASE Close
  <2>1. channel'[s] # "open"
    BY <1>8 DEF Close
  <2> QED BY <2>1
<1> QED
    BY <1>1, <1>2, <1>3, <1>4, <1>5, <1>6, <1>7, <1>8 DEF Next, Stream, Page, hubVars

\* Every state of the hub satisfies the inductive invariant.
THEOREM HubInvariant == Spec => []HubInv
<1>1. HubInv /\ [Next]_hubVars => HubInv'
    BY HubStepType, HubStepCovered DEF HubInv
<1> QED BY HubInitInv, <1>1, PTL DEF Spec

\* Hub, streams and pages keep their types; in particular no subscriber's
\* channel ever holds more than subscriberBuffer events.
THEOREM HubTypeCorrect == Spec => []TypeOK
BY HubInvariant, PTL DEF HubInv

\* A page whose stream is open, with nothing buffered and nothing in flight,
\* has refetched everything any Broadcast ever named: overflow, lost
\* connections and the window before Subscribe leave no silent gap.
THEOREM HubNoSilentGap == Spec => []NoSilentGap
<1>1. HubInv => NoSilentGap
  <2> SUFFICES ASSUME HubInv, NEW s \in Pages,
                      conn[s] = "streaming", channel[s] = "open",
                      buf[s] = <<>>, wire[s] = <<>>,
                      NEW n \in 1..total
               PROVE  fetched[s][log[n]] >= n
    BY DEF NoSilentGap, Fresh
  <2>1. Covered(s, n)
    BY DEF HubInv, AllCovered, total
  <2> QED BY <2>1 DEF Covered
<1> QED BY <1>1, HubInvariant, PTL

-----------------------------------------------------------------------------
(* The order of delivery. *)

\* A run stays one when it is closed, ...
LEMMA RunCloses ==
    ASSUME NEW q, NEW open, NEW n, NEW m, Run(q, open, n) PROVE Run(q, FALSE, m)
BY DEF Run

\* ... when its first frame is read, ...
LEMMA RunTail ==
    ASSUME NEW q \in Seq(Nat), q # <<>>, NEW open \in BOOLEAN, NEW n \in Nat, Run(q, open, n)
    PROVE  /\ Run(Tail(q), open, n)
           /\ \A i \in 1..(Len(Tail(q)) - 1) : Tail(q)[i + 1] = Tail(q)[i] + 1
           /\ open /\ Tail(q) # <<>> => Tail(q)[Len(Tail(q))] = n
<1>1. /\ Len(q) \in Nat \ {0} /\ Tail(q) \in Seq(Nat) /\ Len(Tail(q)) = Len(q) - 1
      /\ \A i \in 1..(Len(q) - 1) : Tail(q)[i] = q[i + 1]
    BY HeadTailProperties, EmptySeq
<1>2. \A i \in 1..(Len(q) - 2) : Tail(q)[i + 1] = Tail(q)[i] + 1
  <2> TAKE i \in 1..(Len(q) - 2)
  <2>1. i \in 1..(Len(q) - 1) /\ i + 1 \in 1..(Len(q) - 1) /\ i + 1 # 1
    BY <1>1
  <2>2. q[(i + 1) + 1] = q[i + 1] + 1
    BY <2>1 DEF Run
  <2> QED BY <1>1, <2>1, <2>2
<1>3. open /\ Tail(q) # <<>> => Tail(q)[Len(q) - 1] = n
  <2> SUFFICES ASSUME open, Tail(q) # <<>> PROVE Tail(q)[Len(q) - 1] = n
    OBVIOUS
  <2>1. Len(Tail(q)) \in Nat \ {0}
    BY <1>1, EmptySeq
  <2>2. Len(q) - 1 \in 1..(Len(q) - 1) /\ Len(q) # 1 /\ (Len(q) - 1) + 1 = Len(q)
    BY <1>1, <2>1
  <2>3. q[Len(q)] = n
    BY <2>2 DEF Run
  <2> QED BY <1>1, <2>2, <2>3
<1>4. Len(Tail(q)) - 1 = Len(q) - 2
    BY <1>1
<1> QED BY <1>1, <1>2, <1>3, <1>4 DEF Run

\* ... when the next broadcast is added, ...
LEMMA RunGrows ==
    ASSUME NEW q \in Seq(Nat), NEW n \in Nat, Run(q, TRUE, n)
    PROVE  Run(Append(q, n + 1), TRUE, n + 1)
<1> DEFINE r == Append(q, n + 1)
<1>1. /\ Len(q) \in Nat /\ Len(r) = Len(q) + 1
      /\ r[Len(q) + 1] = n + 1
      /\ \A i \in 1..Len(q) : r[i] = q[i]
    BY AppendProperties, LenProperties
<1> HIDE DEF r
<1>2. ASSUME NEW i \in 1..Len(q) PROVE r[i + 1] = r[i] + 1 \/ (i = 1 /\ r[1] = Greeting)
  <2>1. CASE i < Len(q)
    <3>1. i \in 1..(Len(q) - 1) /\ i + 1 \in 1..Len(q) /\ 1 \in 1..Len(q)
      BY <1>1, <2>1
    <3>2. q[i + 1] = q[i] + 1 \/ (i = 1 /\ q[1] = Greeting)
      BY <3>1 DEF Run
    <3> QED BY <1>1, <3>1, <3>2
  <2>2. CASE i = Len(q)
    <3>1. q # <<>> /\ 1 \in 1..Len(q)
      BY <1>1, <2>2, EmptySeq
    <3>2. q[i] = n \/ (i = 1 /\ q[1] = Greeting)
      BY <2>2, <3>1 DEF Run
    <3> QED BY <1>1, <2>2, <3>1, <3>2
  <2> QED BY <1>1, <2>1, <2>2
<1>3. Len(r) - 1 = Len(q)
    BY <1>1
<1>4. Run(r, TRUE, n + 1)
    BY <1>1, <1>2, <1>3 DEF Run
<1> QED BY <1>4 DEF r

\* ... and when a greeting comes before its broadcasts.
LEMMA RunGreeted ==
    ASSUME NEW q \in Seq(Nat), NEW open \in BOOLEAN, NEW n \in Nat, Run(q, open, n),
           \A i \in 1..Len(q) : q[i] # Greeting
    PROVE  Run(<<Greeting>> \o q, open, n)
<1> DEFINE r == <<Greeting>> \o q
<1>1. <<Greeting>> \in Seq(Nat) /\ Len(<<Greeting>>) = 1 /\ <<Greeting>>[1] = Greeting
    BY DEF Greeting
<1>2. /\ Len(q) \in Nat /\ Len(r) = Len(q) + 1 /\ r[1] = Greeting
      /\ \A i \in 1..Len(q) : r[i + 1] = q[i]
  <2>1. /\ Len(r) = 1 + Len(q) /\ Len(q) \in Nat
        /\ \A i \in 1..(1 + Len(q)) : r[i] = IF i <= 1 THEN <<Greeting>>[i] ELSE q[i - 1]
    BY <1>1, ConcatProperties, LenProperties
  <2>2. r[1] = Greeting
    BY <1>1, <2>1
  <2>3. ASSUME NEW i \in 1..Len(q) PROVE r[i + 1] = q[i]
    <3>1. i + 1 \in 1..(1 + Len(q)) /\ ~(i + 1 <= 1) /\ (i + 1) - 1 = i
      BY <2>1
    <3>2. r[i + 1] = q[(i + 1) - 1]
      BY <2>1, <3>1
    <3> QED BY <3>1, <3>2
  <2> QED BY <2>1, <2>2, <2>3
<1> HIDE DEF r
<1>3. ASSUME NEW i \in 1..Len(q), i # 1 PROVE r[i + 1] = r[i] + 1
  <2>1. i - 1 \in 1..(Len(q) - 1) /\ (i - 1) + 1 = i /\ i - 1 \in 1..Len(q) /\ 1 \in 1..Len(q)
    BY <1>2, <1>3
  <2>2. q[i] = q[i - 1] + 1
    BY <2>1 DEF Run
  <2> QED BY <1>2, <2>1, <2>2
<1>4. open => r[Len(r)] = n \/ (Len(r) = 1 /\ r[1] = Greeting)
  <2>1. CASE Len(q) = 0
    BY <1>2, <2>1
  <2>2. CASE Len(q) # 0
    <3>1. Len(q) \in 1..Len(q) /\ q # <<>> /\ 1 \in 1..Len(q)
      BY <1>2, <2>2, EmptySeq
    <3> QED BY <1>2, <3>1 DEF Run
  <2> QED BY <2>1, <2>2
<1>5. Len(r) - 1 = Len(q)
    BY <1>2
<1>6. Run(r, open, n)
    BY <1>2, <1>3, <1>4, <1>5 DEF Run
<1> QED BY <1>6 DEF r

\* A frame that moves from the head of one queue to the end of the queue before it
\* leaves the two together as they were.
LEMMA MoveKeeps ==
    ASSUME NEW w \in Seq(Nat), NEW b \in Seq(Nat), b # <<>>
    PROVE  Append(w, Head(b)) \o Tail(b) = w \o b
<1>1. /\ Head(b) \in Nat /\ Tail(b) \in Seq(Nat) /\ <<Head(b)>> \in Seq(Nat)
      /\ Append(w, Head(b)) = w \o <<Head(b)>>
    BY HeadTailProperties, AppendIsConcat
<1>2. <<Head(b)>> \o Tail(b) = b
    OBVIOUS
<1>3. (w \o <<Head(b)>>) \o Tail(b) = w \o (<<Head(b)>> \o Tail(b))
    BY <1>1, ConcatAssociative
<1> QED BY <1>1, <1>2, <1>3

\* What is read from the first of two queues is read from the two together, ...
LEMMA ReadTogether ==
    ASSUME NEW w \in Seq(Nat), NEW b \in Seq(Nat), w # <<>>
    PROVE  w \o b # <<>> /\ Tail(w) \o b = Tail(w \o b)
OBVIOUS

\* ... and what is added to the second is added to the two.
LEMMA AddTogether ==
    ASSUME NEW w \in Seq(Nat), NEW b \in Seq(Nat), NEW e \in Nat
    PROVE  w \o Append(b, e) = Append(w \o b, e)
<1>1. <<e>> \in Seq(Nat) /\ Append(b, e) = b \o <<e>> /\ w \o b \in Seq(Nat)
    BY AppendIsConcat, ConcatProperties
<1>2. Append(w \o b, e) = (w \o b) \o <<e>>
    BY <1>1, AppendIsConcat
<1> QED BY <1>1, <1>2, ConcatAssociative

\* A stream that the step does not touch stays in order, a broadcast that it does
\* not get included: it is no longer subscribed.
LEMMA OrderKept ==
    ASSUME TypeOK, NEW s \in Pages, InOrder(s), wire'[s] = wire[s], buf'[s] = buf[s],
           \/ channel'[s] # "open"
           \/ channel'[s] = channel[s] /\ Len(log') = Len(log)
    PROVE  InOrder(s)'
<1>1. CASE channel'[s] # "open"
  <2>1. (channel'[s] = "open") = FALSE
    BY <1>1
  <2> QED BY <2>1, RunCloses DEF InOrder
<1>2. CASE channel'[s] = channel[s] /\ Len(log') = Len(log)
    BY <1>2 DEF InOrder
<1> QED BY <1>1, <1>2

\* The first event of the buffer goes to the end of the wire.
LEMMA ForwardOrder ==
    ASSUME TypeOK, NEW s \in Pages, Forward(s), InOrder(s) PROVE InOrder(s)'
<1>1. /\ wire[s] \in Seq(Nat) /\ buf[s] \in Seq(Nat) /\ buf[s] # <<>>
      /\ wire'[s] = Append(wire[s], Head(buf[s])) /\ buf'[s] = Tail(buf[s])
      /\ channel' = channel /\ log' = log
    BY DEF TypeOK, Forward
<1>2. wire'[s] \o buf'[s] = wire[s] \o buf[s]
    BY <1>1, MoveKeeps
<1>3. \A i \in 1..Len(buf'[s]) : buf'[s][i] # Greeting
  <2>1. /\ Len(Tail(buf[s])) = Len(buf[s]) - 1 /\ Len(buf[s]) \in Nat
        /\ \A i \in 1..Len(Tail(buf[s])) : Tail(buf[s])[i] = buf[s][i + 1]
    BY <1>1, HeadTailProperties, LenProperties
  <2>2. \A i \in 1..Len(Tail(buf[s])) : i + 1 \in 1..Len(buf[s])
    BY <2>1
  <2> QED BY <1>1, <2>1, <2>2 DEF InOrder
<1> QED BY <1>1, <1>2, <1>3 DEF InOrder

\* The page reads the first frame.
LEMMA ReceiveOrder ==
    ASSUME TypeOK, NEW s \in Pages, Receive(s), InOrder(s) PROVE InOrder(s)'
<1>1. /\ wire[s] \in Seq(Nat) /\ buf[s] \in Seq(Nat) /\ wire[s] # <<>>
      /\ wire'[s] = Tail(wire[s]) /\ buf' = buf /\ channel' = channel /\ log' = log
      /\ Len(log) \in Nat
    BY DEF TypeOK, Receive
<1>2. /\ wire[s] \o buf[s] \in Seq(Nat) /\ wire[s] \o buf[s] # <<>>
      /\ wire'[s] \o buf'[s] = Tail(wire[s] \o buf[s])
    BY <1>1, ReadTogether, ConcatProperties
<1>3. Run(Tail(wire[s] \o buf[s]), channel[s] = "open", Len(log))
    BY <1>1, <1>2, RunTail DEF InOrder
<1> QED BY <1>1, <1>2, <1>3 DEF InOrder

\* A subscriber with room gets the broadcast behind what it has.
LEMMA BroadcastOrder ==
    ASSUME TypeOK, NEW s \in Pages, Broadcast, InOrder(s) PROVE InOrder(s)'
<1>1. /\ wire[s] \in Seq(Nat) /\ buf[s] \in Seq(Nat) /\ wire' = wire
      /\ Len(log) \in Nat /\ Len(log') = Len(log) + 1
    BY DEF TypeOK, Broadcast
<1>2. CASE channel[s] = "open" /\ ~Full(s)
  <2>1. buf'[s] = Append(buf[s], Len(log) + 1) /\ channel'[s] = "open"
    BY <1>2 DEF Broadcast, total, TypeOK
  <2>2. wire'[s] \o buf'[s] = Append(wire[s] \o buf[s], Len(log) + 1)
    <3>1. Len(log) + 1 \in Nat
      BY <1>1
    <3>2. wire[s] \o Append(buf[s], Len(log) + 1) = Append(wire[s] \o buf[s], Len(log) + 1)
      BY <1>1, <3>1, AddTogether
    <3> QED BY <1>1, <2>1, <3>2
  <2>3. wire[s] \o buf[s] \in Seq(Nat)
    BY <1>1, ConcatProperties
  <2>4. (channel[s] = "open") = TRUE /\ (channel'[s] = "open") = TRUE
    BY <1>2, <2>1
  <2>5. Run(Append(wire[s] \o buf[s], Len(log) + 1), TRUE, Len(log) + 1)
    BY <1>1, <2>3, <2>4, RunGrows DEF InOrder
  <2>6. \A i \in 1..Len(buf'[s]) : buf'[s][i] # Greeting
    <3>1. /\ Len(buf[s]) \in Nat /\ Len(buf'[s]) = Len(buf[s]) + 1
          /\ buf'[s][Len(buf[s]) + 1] = Len(log) + 1
          /\ \A i \in 1..Len(buf[s]) : buf'[s][i] = buf[s][i]
      BY <1>1, <2>1, AppendProperties, LenProperties
    <3>2. \A i \in 1..Len(buf'[s]) : i \in 1..Len(buf[s]) \/ i = Len(buf[s]) + 1
      BY <3>1
    <3> TAKE i \in 1..Len(buf'[s])
    <3>3. CASE i \in 1..Len(buf[s])
      BY <3>1, <3>3 DEF InOrder
    <3>4. CASE i = Len(buf[s]) + 1
      BY <1>1, <3>1, <3>4 DEF Greeting
    <3> QED BY <3>2, <3>3, <3>4
  <2> QED BY <1>1, <2>2, <2>4, <2>5, <2>6 DEF InOrder
<1>3. CASE ~(channel[s] = "open" /\ ~Full(s))
  <2>1. buf'[s] = buf[s] /\ channel'[s] # "open"
    BY <1>3 DEF Broadcast, TypeOK
  <2> QED BY <1>1, <2>1, OrderKept
<1> QED BY <1>2, <1>3

\* The greeting is the first frame of a stream.
LEMMA GreetOrder ==
    ASSUME TypeOK, NEW s \in Pages, Greet(s), Restarted(s), InOrder(s) PROVE InOrder(s)'
<1>1. /\ wire[s] = <<>> /\ wire'[s] = <<Greeting>> /\ buf' = buf
      /\ channel' = channel /\ log' = log /\ buf[s] \in Seq(Nat) /\ Len(log) \in Nat
    BY DEF Greet, Restarted, TypeOK
<1>2. wire[s] \o buf[s] = buf[s]
    BY <1>1, ConcatEmptySeq
<1>3. Run(<<Greeting>> \o buf[s], channel[s] = "open", Len(log))
    BY <1>1, <1>2, RunGreeted DEF InOrder
<1> QED BY <1>1, <1>3 DEF InOrder

\* A stream with nothing on its way is in order.
LEMMA EmptyRun ==
    /\ \A open, n : Run(<<>> \o <<>>, open, n)
    /\ Len(<<>>) = 0
<1>1. <<>> \o <<>> = <<>> /\ Len(<<>>) = 0
    BY ConcatEmptySeq, EmptySeq
<1> QED BY <1>1 DEF Run

\* Every step keeps every stream in order.
LEMMA OrderStep == TypeOK /\ OrderInv /\ [Next]_hubVars => OrderInv'
<1> SUFFICES ASSUME TypeOK, OrderInv, [Next]_hubVars, NEW s \in Pages
             PROVE  Restarted(s)' /\ InOrder(s)'
    BY DEF OrderInv
<1>0. Restarted(s) /\ InOrder(s)
    BY DEF OrderInv
<1>1. Restarted(s)'
    BY <1>0 DEF TypeOK, Restarted, Next, Stream, Page, Connect, Greet, Forward, StreamEnds,
                Disconnect, Receive, NoticeEnd, Broadcast, Close, hubVars
<1>2. InOrder(s)'
  <2>1. CASE UNCHANGED hubVars
    BY <1>0, <2>1, OrderKept DEF hubVars
  <2>2. ASSUME NEW t \in Pages, Connect(t) PROVE InOrder(s)'
    <3>1. CASE s = t
      <4>1. wire'[s] = <<>> /\ buf'[s] = <<>>
        BY <1>0, <2>2, <3>1 DEF Connect, Restarted
      <4> QED BY <4>1, EmptyRun DEF InOrder
    <3>2. CASE s # t
      BY <1>0, <2>2, <3>2, OrderKept DEF Connect, TypeOK
    <3> QED BY <3>1, <3>2
  <2>3. ASSUME NEW t \in Pages, Greet(t) PROVE InOrder(s)'
    <3>1. CASE s # t
      BY <1>0, <2>3, <3>1, OrderKept DEF Greet, TypeOK
    <3> QED BY <1>0, <2>3, <3>1, GreetOrder
  <2>4. ASSUME NEW t \in Pages, Forward(t) PROVE InOrder(s)'
    <3>1. CASE s # t
      BY <1>0, <2>4, <3>1, OrderKept DEF Forward, TypeOK
    <3> QED BY <1>0, <2>4, <3>1, ForwardOrder
  <2>5. ASSUME NEW t \in Pages, Receive(t) PROVE InOrder(s)'
    <3>1. CASE s # t
      BY <1>0, <2>5, <3>1, OrderKept DEF Receive, TypeOK
    <3> QED BY <1>0, <2>5, <3>1, ReceiveOrder
  <2>6. ASSUME NEW t \in Pages, Disconnect(t) PROVE InOrder(s)'
    <3>1. CASE s = t
      <4>1. wire'[s] = <<>> /\ buf'[s] = <<>>
        BY <2>6, <3>1 DEF Disconnect, TypeOK
      <4> QED BY <4>1, EmptyRun DEF InOrder
    <3>2. CASE s # t
      BY <1>0, <2>6, <3>2, OrderKept DEF Disconnect, TypeOK
    <3> QED BY <3>1, <3>2
  <2>7. ASSUME NEW t \in Pages, StreamEnds(t) \/ NoticeEnd(t) PROVE InOrder(s)'
    BY <1>0, <2>7, OrderKept DEF StreamEnds, NoticeEnd, TypeOK
  <2>8. CASE Broadcast
    BY <1>0, <2>8, BroadcastOrder
  <2>9. CASE Close
    BY <1>0, <2>9, OrderKept DEF Close, TypeOK
  <2> QED BY <2>1, <2>2, <2>3, <2>4, <2>5, <2>6, <2>7, <2>8, <2>9 DEF Next, Stream, Page
<1> QED BY <1>1, <1>2

\* A stream in order delivers in order.
LEMMA InOrderDelivers == TypeOK /\ OrderInv => OrderedDelivery
<1> SUFFICES ASSUME TypeOK, OrderInv, NEW s \in Pages
             PROVE  /\ \A i \in 1..(Len(InTransit(s)) - 1) : InTransit(s)[i + 1] = InTransit(s)[i] + 1
                    /\ channel[s] = "open" /\ InTransit(s) # <<>> =>
                         InTransit(s)[Len(InTransit(s))] = total
    BY DEF OrderedDelivery
<1> DEFINE q == wire[s] \o buf[s]
<1>1. q \in Seq(Nat) /\ Run(q, channel[s] = "open", Len(log)) /\ Len(log) \in Nat
    BY ConcatProperties DEF TypeOK, OrderInv, InOrder
<1>2. InTransit(s) = IF q # <<>> /\ q[1] = Greeting THEN Tail(q) ELSE q
    BY DEF InTransit
<1> HIDE DEF q
<1>3. CASE q # <<>> /\ q[1] = Greeting
    BY <1>1, <1>2, <1>3, RunTail DEF total
<1>4. CASE q # <<>> /\ q[1] # Greeting
    BY <1>1, <1>2, <1>4 DEF Run, total
<1>5. CASE q = <<>>
    BY <1>2, <1>5
<1> QED BY <1>3, <1>4, <1>5

\* What is on its way to a page is, after the greeting, a run of consecutive
\* broadcasts that reaches to the last one while the page is subscribed: for any
\* number of pages and any capacity, through overflow and reconnection.
THEOREM HubOrderedDelivery == Spec => []OrderedDelivery
<1>1. Init => OrderInv
  <2> SUFFICES ASSUME Init, NEW s \in Pages PROVE Restarted(s) /\ InOrder(s)
    BY DEF OrderInv
  <2>1. wire[s] = <<>> /\ buf[s] = <<>> /\ channel[s] = "none"
    BY DEF Init
  <2> QED BY <2>1, EmptyRun DEF Restarted, InOrder
<1>2. Spec => []OrderInv
    BY <1>1, OrderStep, HubTypeCorrect, PTL DEF Spec
<1> QED BY <1>2, InOrderDelivers, HubTypeCorrect, PTL

-----------------------------------------------------------------------------
(* The inductive invariant. *)

Entries == [present : BOOLEAN, data : Nat \cup {Nothing}, error : BOOLEAN, after : BOOLEAN,
            mounted : BOOLEAN, origin : {"server", "patch", "moot"}]
Fetches == [fenced : BOOLEAN, held : BOOLEAN, issued : Nat]
Slots == [e : Entries, rs : SUBSET Fetches]

\* The broadcasts that name key k and that the page was told of, when f is what
\* it has fetched.
ToldOf(lg, f, k) == {n \in 1..Len(lg) : Names(lg[n], k) /\ n <= f[lg[n]]}
Told(s, k) == ToldOf(log, fetched[s], k)

\* An entry has one promise at most, and a request that is not the promise has
\* lost its generation too.
OneHeld(rs) ==
    /\ \A r \in rs : r.held \/ r.fenced
    /\ \A q, r \in rs : q.held /\ r.held => q = r

\* A slot of the cache, of a page that was told of the broadcasts `told`: what is
\* not in the cache has neither data nor a request that could bring some; a
\* promise of an old generation is followed by another fetch, unless it is an
\* optimistic change that moved the generation on; a request of this generation
\* was issued after all that the page was told of, and data was read after it.
Sound(slot, told) ==
    /\ OneHeld(slot.rs)
    /\ slot.e.mounted => /\ slot.e.present
                         /\ Held(slot.rs) \/ slot.e.data # Nothing \/ slot.e.error
    /\ ~slot.e.present => slot.e.data = Nothing /\ \A r \in slot.rs : r.fenced
    /\ \A r \in slot.rs : r.held /\ r.fenced =>
           slot.e.after \/ (slot.e.data # Nothing /\ slot.e.origin # "server")
    /\ \A r \in slot.rs, n \in told : ~r.fenced => r.issued >= n
    /\ ~Held(slot.rs) /\ slot.e.data # Nothing /\ ~slot.e.error /\ slot.e.origin = "server" =>
           \A n \in told : slot.e.data >= n

CacheType ==
    /\ entry \in [Pages -> [Keys -> Entries]]
    /\ requests \in [Pages -> [Keys -> SUBSET Fetches]]

\* The page knows of no broadcast that has not happened.
ToldBounded == \A s \in Pages, r \in Resources : fetched[s][r] <= Len(log)

\* The mailboxes are always on the page, and a list only when they are known.
BoxesFirst ==
    \A s \in Pages :
        /\ entry[s][Boxes].mounted
        /\ \A k \in Lists : entry[s][k].mounted => entry[s][Boxes].data # Nothing

CacheInv ==
    /\ TypeOK /\ CacheType /\ ToldBounded /\ BoxesFirst
    /\ \A s \in Pages, k \in Keys : Sound(Slot(s, k), Told(s, k))

-----------------------------------------------------------------------------
(* Requests and slots. *)

LEMMA RequestFields ==
  ASSUME log \in Seq(Resources)
  PROVE  Request \in Fetches /\ Request.held /\ ~Request.fenced /\ Request.issued = Len(log)
BY DEF Request, Fetches, total

\* Fencing requests keeps their promises, and releasing them ends these.
LEMMA FencedRequests ==
  ASSUME NEW rs \in SUBSET Fetches
  PROVE  /\ Fenced(rs) \in SUBSET Fetches
         /\ \A r \in Fenced(rs) : r.fenced
         /\ Held(Fenced(rs)) <=> Held(rs)
         /\ OneHeld(rs) => OneHeld(Fenced(rs))
<1>1. \A r \in rs : LET q == [r EXCEPT !.fenced = TRUE]
                    IN  q \in Fetches /\ q.fenced /\ q.held = r.held
  BY DEF Fetches
<1>2. Fenced(rs) \in SUBSET Fetches /\ \A r \in Fenced(rs) : r.fenced
  BY <1>1 DEF Fenced
<1>3. Held(Fenced(rs)) <=> Held(rs)
  BY <1>1 DEF Fenced, Held
<1>4. OneHeld(rs) => OneHeld(Fenced(rs))
  BY <1>1 DEF Fenced, OneHeld
<1> QED
  BY <1>2, <1>3, <1>4

LEMMA ReleasedRequests ==
  ASSUME NEW rs \in SUBSET Fetches
  PROVE  /\ Released(Fenced(rs)) \in SUBSET Fetches
         /\ \A r \in Released(Fenced(rs)) : r.fenced /\ ~r.held
<1>1. \A r \in Fetches : LET q == [r EXCEPT !.held = FALSE]
                         IN  q \in Fetches /\ q.fenced = r.fenced /\ ~q.held
  BY DEF Fetches
<1> QED
  BY <1>1, FencedRequests DEF Released

\* fetchInto ends with a promise, and issues a request only when there was none.
LEMMA FetchIntoFields ==
  ASSUME log \in Seq(Resources), NEW slot \in Slots, NEW force \in BOOLEAN
  PROVE  /\ FetchInto(slot, force) \in Slots
         /\ Held(FetchInto(slot, force).rs)
         /\ FetchInto(slot, force).e.present
         /\ FetchInto(slot, force).e.data = slot.e.data
         /\ FetchInto(slot, force).e.error = slot.e.error
         /\ FetchInto(slot, force).e.mounted = slot.e.mounted
         /\ FetchInto(slot, force).e.origin = slot.e.origin
         /\ Held(slot.rs) => /\ FetchInto(slot, force).rs = slot.rs
                             /\ FetchInto(slot, force).e.after = (slot.e.after \/ force)
         /\ ~Held(slot.rs) => /\ FetchInto(slot, force).rs = slot.rs \cup {Request}
                              /\ FetchInto(slot, force).e.after = slot.e.after
<1> DEFINE e == [slot.e EXCEPT !.present = TRUE]
           f == FetchInto(slot, force)
<1>1. /\ e \in Entries /\ e.present /\ e.data = slot.e.data /\ e.error = slot.e.error
      /\ e.mounted = slot.e.mounted /\ e.origin = slot.e.origin /\ e.after = slot.e.after
  BY DEF Slots, Entries
<1>2. CASE Held(slot.rs)
  <2> DEFINE d == [e EXCEPT !.after = @ \/ force]
  <2>1. /\ d \in Entries /\ d.present /\ d.data = e.data /\ d.error = e.error
        /\ d.mounted = e.mounted /\ d.origin = e.origin /\ d.after = (e.after \/ force)
    BY <1>1 DEF Entries
  <2>2. f = [slot EXCEPT !.e = d]
    BY <1>2 DEF FetchInto
  <2> HIDE DEF d
  <2>3. f.e = d /\ f.rs = slot.rs /\ f \in Slots
    BY <2>1, <2>2 DEF Slots
  <2> QED
    BY <1>1, <1>2, <2>1, <2>3
<1>3. CASE ~Held(slot.rs)
  <2>1. f = [e |-> e, rs |-> slot.rs \cup {Request}]
    BY <1>3 DEF FetchInto
  <2>2. f.e = e /\ f.rs = slot.rs \cup {Request} /\ Request \in f.rs
    BY <2>1
  <2>3. slot.rs \cup {Request} \in SUBSET Fetches
    BY RequestFields DEF Slots
  <2>4. f \in Slots
    BY <1>1, <2>1, <2>3 DEF Slots
  <2> QED
    BY <1>1, <1>3, <2>2, <2>4, RequestFields DEF Held
<1> QED
  BY <1>2, <1>3

\* A revalidation has a promise whose answer, or the fetch after it, is newer than
\* all that the page was told of.
LEMMA InvalidateSound ==
  ASSUME log \in Seq(Resources), NEW slot \in Slots, OneHeld(slot.rs),
         NEW told \in SUBSET (1..Len(log))
  PROVE  /\ Invalidate(slot) \in Slots
         /\ Sound(Invalidate(slot), told)
         /\ Held(Invalidate(slot).rs)
         /\ Invalidate(slot).e.mounted = slot.e.mounted
         /\ Invalidate(slot).e.data = slot.e.data
<1> DEFINE d == [slot.e EXCEPT !.error = FALSE, !.origin = "server"]
           old == [e |-> d, rs |-> Fenced(slot.rs)]
           f == FetchInto(old, TRUE)
<1>1. d \in Entries /\ d.mounted = slot.e.mounted /\ d.data = slot.e.data
  BY DEF Slots, Entries
<1>2. slot.rs \in SUBSET Fetches
  BY DEF Slots
<1> HIDE DEF d
<1>3. old \in Slots /\ old.e = d /\ old.rs = Fenced(slot.rs)
  BY <1>1, <1>2, FencedRequests DEF Slots
<1>4. /\ \A r \in old.rs : r.fenced
      /\ OneHeld(old.rs)
  BY <1>2, <1>3, FencedRequests
<1> HIDE DEF old
<1>5. /\ f \in Slots /\ Held(f.rs) /\ f.e.present /\ f.e.mounted = slot.e.mounted
      /\ f.e.data = slot.e.data
      /\ Held(old.rs) => f.rs = old.rs /\ f.e.after
      /\ ~Held(old.rs) => f.rs = old.rs \cup {Request}
  BY <1>1, <1>3, FetchIntoFields
<1>6. Invalidate(slot) = f
  BY DEF Invalidate, old, d
<1> HIDE DEF f
<1>7. OneHeld(f.rs)
  BY <1>4, <1>5, RequestFields DEF OneHeld, Held
<1>8. \A r \in f.rs : r.held /\ r.fenced => f.e.after
  BY <1>4, <1>5, RequestFields DEF Held
<1>9. \A r \in f.rs, n \in told : ~r.fenced => r.issued >= n
  BY <1>4, <1>5, RequestFields
<1>10. Sound(f, told)
  BY <1>5, <1>7, <1>8, <1>9 DEF Sound
<1> QED
  BY <1>5, <1>6, <1>10

\* What is cleared holds nothing, and no request will bring anything.
LEMMA ClearSound ==
  ASSUME NEW slot \in Slots, NEW told
  PROVE  /\ Clear(slot) \in Slots
         /\ OneHeld(Clear(slot).rs)
         /\ \A r \in Clear(slot).rs : r.fenced /\ ~r.held
         /\ Clear(slot).e.data = Nothing
         /\ Clear(slot).e.mounted = slot.e.mounted
         /\ ~slot.e.mounted => Sound(Clear(slot), told)
<1> DEFINE d == [slot.e EXCEPT !.data = Nothing, !.error = FALSE, !.after = FALSE,
                               !.origin = "server"]
           c == Clear(slot)
<1>1. d \in Entries /\ d.mounted = slot.e.mounted /\ d.data = Nothing
  BY DEF Slots, Entries
<1>2. slot.rs \in SUBSET Fetches
  BY DEF Slots
<1>3. c = [e |-> d, rs |-> Released(Fenced(slot.rs))]
  BY DEF Clear
<1> HIDE DEF d
<1>4. c \in Slots /\ c.e = d /\ \A r \in c.rs : r.fenced /\ ~r.held
  BY <1>1, <1>2, <1>3, ReleasedRequests DEF Slots
<1> HIDE DEF c
<1>5. OneHeld(c.rs)
  BY <1>4 DEF OneHeld
<1>6. ~slot.e.mounted => Sound(c, told)
  BY <1>1, <1>4, <1>5 DEF Sound
<1> QED
  BY <1>1, <1>4, <1>5, <1>6 DEF c

\* reset clears the mailboxes and keeps their promise, to be revalidated after.
LEMMA ClearAndInvalidateSound ==
  ASSUME log \in Seq(Resources), NEW slot \in Slots, OneHeld(slot.rs),
         NEW told \in SUBSET (1..Len(log))
  PROVE  /\ ClearAndInvalidate(slot) \in Slots
         /\ Sound(ClearAndInvalidate(slot), told)
         /\ ClearAndInvalidate(slot).e.mounted = slot.e.mounted
<1> DEFINE d == [slot.e EXCEPT !.data = Nothing, !.error = FALSE, !.origin = "server"]
           old == [e |-> d, rs |-> Fenced(slot.rs)]
           f == FetchInto(old, TRUE)
<1>1. d \in Entries /\ d.mounted = slot.e.mounted
  BY DEF Slots, Entries
<1>2. slot.rs \in SUBSET Fetches
  BY DEF Slots
<1> HIDE DEF d
<1>3. old \in Slots /\ old.e = d /\ old.rs = Fenced(slot.rs)
  BY <1>1, <1>2, FencedRequests DEF Slots
<1>4. /\ \A r \in old.rs : r.fenced
      /\ OneHeld(old.rs)
  BY <1>2, <1>3, FencedRequests
<1> HIDE DEF old
<1>5. /\ f \in Slots /\ Held(f.rs) /\ f.e.present /\ f.e.mounted = slot.e.mounted
      /\ Held(old.rs) => f.rs = old.rs /\ f.e.after
      /\ ~Held(old.rs) => f.rs = old.rs \cup {Request}
  BY <1>1, <1>3, FetchIntoFields
<1>6. ClearAndInvalidate(slot) = f
  BY DEF ClearAndInvalidate, old, d
<1> HIDE DEF f
<1>7. OneHeld(f.rs)
  BY <1>4, <1>5, RequestFields DEF OneHeld, Held
<1>8. \A r \in f.rs : r.held /\ r.fenced => f.e.after
  BY <1>4, <1>5, RequestFields DEF Held
<1>9. \A r \in f.rs, n \in told : ~r.fenced => r.issued >= n
  BY <1>4, <1>5, RequestFields
<1>10. Sound(f, told)
  BY <1>5, <1>7, <1>8, <1>9 DEF Sound
<1> QED
  BY <1>5, <1>6, <1>10

\* An optimistic change of data that is there keeps it, and disowns the requests.
LEMMA PatchSound ==
  ASSUME NEW slot \in Slots, NEW told, Sound(slot, told), slot.e.data # Nothing
  PROVE  /\ Patch(slot) \in Slots
         /\ Sound(Patch(slot), told)
         /\ Patch(slot).e.mounted = slot.e.mounted
         /\ Patch(slot).e.data = slot.e.data
<1> DEFINE d == [slot.e EXCEPT !.error = FALSE, !.origin = "patch"]
           p == Patch(slot)
<1>1. /\ d \in Entries /\ d.mounted = slot.e.mounted /\ d.data = slot.e.data
      /\ d.present = slot.e.present /\ d.origin = "patch"
  BY DEF Slots, Entries
<1>2. slot.rs \in SUBSET Fetches
  BY DEF Slots
<1>3. p = [e |-> d, rs |-> Fenced(slot.rs)]
  BY DEF Patch
<1> HIDE DEF d
<1>4. p \in Slots /\ p.e = d /\ p.rs = Fenced(slot.rs)
  BY <1>1, <1>2, <1>3, FencedRequests DEF Slots
<1>5. OneHeld(p.rs) /\ \A r \in p.rs : r.fenced
  BY <1>2, <1>4, FencedRequests DEF Sound
<1> HIDE DEF p
<1>6. Sound(p, told)
  BY <1>1, <1>4, <1>5 DEF Sound
<1> QED
  BY <1>1, <1>4, <1>6 DEF p

\* A retry asks anew.
LEMMA RetrySound ==
  ASSUME log \in Seq(Resources), NEW slot \in Slots, NEW told \in SUBSET (1..Len(log))
  PROVE  /\ Retry(slot) \in Slots
         /\ Sound(Retry(slot), told)
         /\ Retry(slot).e.mounted = slot.e.mounted
<1> DEFINE c == Clear(slot)
           f == FetchInto(c, FALSE)
<1>1. c \in Slots /\ c.e.mounted = slot.e.mounted
  BY ClearSound
<1>2. \A r \in c.rs : r.fenced /\ ~r.held
  BY ClearSound
<1> HIDE DEF c
<1>3. ~Held(c.rs)
  BY <1>2 DEF Held
<1>4. /\ f \in Slots /\ Held(f.rs) /\ f.e.present /\ f.e.mounted = slot.e.mounted
      /\ f.rs = c.rs \cup {Request}
  BY <1>1, <1>3, FetchIntoFields
<1> HIDE DEF f
<1>5. OneHeld(f.rs)
  BY <1>2, <1>4, RequestFields DEF OneHeld
<1>6. /\ \A r \in f.rs : ~(r.held /\ r.fenced)
      /\ \A r \in f.rs, n \in told : ~r.fenced => r.issued >= n
  BY <1>2, <1>4, RequestFields
<1>7. Sound(f, told)
  BY <1>4, <1>5, <1>6 DEF Sound
<1> QED
  BY <1>4, <1>7 DEF f, c, Retry

\* A component that mounts finds data or a promise, or asks.
LEMMA MountedSound ==
  ASSUME log \in Seq(Resources), NEW slot \in Slots, NEW told \in SUBSET (1..Len(log)),
         Sound(slot, told)
  PROVE  /\ Mounted(slot) \in Slots
         /\ Sound(Mounted(slot), told)
<1> DEFINE d == [slot.e EXCEPT !.mounted = TRUE, !.present = TRUE]
           new == [slot EXCEPT !.e = d]
           f == FetchInto(new, FALSE)
<1>1. /\ d \in Entries /\ d.mounted /\ d.present /\ d.data = slot.e.data
      /\ d.error = slot.e.error /\ d.after = slot.e.after /\ d.origin = slot.e.origin
  BY DEF Slots, Entries
<1>2. Mounted(slot) = IF new.e.data = Nothing /\ ~Held(new.rs) THEN f ELSE new
  BY DEF Mounted
<1> HIDE DEF d
<1>3. new \in Slots /\ new.e = d /\ new.rs = slot.rs
  BY <1>1 DEF Slots
<1> HIDE DEF new
<1>4. CASE new.e.data = Nothing /\ ~Held(new.rs)
  <2>1. /\ f \in Slots /\ Held(f.rs) /\ f.e.present /\ f.rs = slot.rs \cup {Request}
    BY <1>3, <1>4, FetchIntoFields
  <2> HIDE DEF f
  <2>2. \A r \in slot.rs : ~r.held /\ r.fenced
    BY <1>3, <1>4 DEF Sound, OneHeld, Held
  <2>3. OneHeld(f.rs)
    BY <2>1, <2>2, RequestFields DEF OneHeld
  <2>4. /\ \A r \in f.rs : ~(r.held /\ r.fenced)
        /\ \A r \in f.rs, n \in told : ~r.fenced => r.issued >= n
    BY <2>1, <2>2, RequestFields
  <2>5. Sound(f, told)
    BY <2>1, <2>3, <2>4 DEF Sound
  <2> QED
    BY <1>2, <1>4, <2>1, <2>5
<1>5. CASE ~(new.e.data = Nothing /\ ~Held(new.rs))
  <2>1. Sound(new, told)
    BY <1>1, <1>3, <1>5 DEF Sound
  <2> QED
    BY <1>2, <1>3, <1>5, <2>1
<1> QED
  BY <1>4, <1>5

\* A component that unmounts leaves the rest of the slot as it is.
LEMMA UnmountSound ==
  ASSUME NEW e \in Entries, NEW rs \in SUBSET Fetches, NEW told,
         Sound([e |-> e, rs |-> rs], told)
  PROVE  /\ [e EXCEPT !.mounted = FALSE] \in Entries
         /\ ~[e EXCEPT !.mounted = FALSE].mounted
         /\ Sound([e |-> [e EXCEPT !.mounted = FALSE], rs |-> rs], told)
<1> DEFINE d == [e EXCEPT !.mounted = FALSE]
<1>1. /\ d \in Entries /\ ~d.mounted /\ d.present = e.present /\ d.data = e.data
      /\ d.error = e.error /\ d.after = e.after /\ d.origin = e.origin
  BY DEF Entries
<1> HIDE DEF d
<1>2. Sound([e |-> d, rs |-> rs], told)
  BY <1>1 DEF Sound
<1> QED
  BY <1>1, <1>2 DEF d

\* An answer to a request of this generation is as new as the page was told; one
\* of an older generation changes nothing, and what it leaves is covered.
LEMMA SettledSound ==
  ASSUME log \in Seq(Resources), NEW slot \in Slots, NEW told \in SUBSET (1..Len(log)),
         Sound(slot, told),
         NEW r \in slot.rs, NEW read \in {Nothing} \cup r.issued..Len(log)
  PROVE  /\ Settled(slot, r, read) \in Slots
         /\ Sound(Settled(slot, r, read), told)
         /\ Settled(slot, r, read).e.mounted = slot.e.mounted
         /\ slot.e.data # Nothing => Settled(slot, r, read).e.data # Nothing
<1> DEFINE e == IF r.fenced THEN slot.e
                ELSE IF read # Nothing THEN [slot.e EXCEPT !.data = read, !.error = FALSE]
                ELSE [slot.e EXCEPT !.error = TRUE]
           rest == [e |-> e, rs |-> slot.rs \ {r}]
           next == [rest EXCEPT !.e.after = FALSE]
           f == FetchInto(next, FALSE)
<1>1. r \in Fetches /\ slot.e \in Entries /\ slot.rs \in SUBSET Fetches
  BY DEF Slots
<1>2. read # Nothing => read \in Nat /\ read >= r.issued
  BY <1>1 DEF Fetches, Nothing
<1>3. /\ e \in Entries /\ e.mounted = slot.e.mounted /\ e.present = slot.e.present
      /\ e.after = slot.e.after /\ e.origin = slot.e.origin
      /\ r.fenced => e = slot.e
      /\ ~r.fenced /\ read # Nothing => e.data = read
      /\ ~r.fenced /\ read = Nothing => e.data = slot.e.data /\ e.error
  BY <1>1, <1>2 DEF Entries
<1>4. Settled(slot, r, read)
        = IF ~r.held THEN rest ELSE IF e.after THEN f ELSE rest
  BY DEF Settled
<1> HIDE DEF e
<1>5. rest \in Slots /\ rest.e = e /\ rest.rs = slot.rs \ {r}
  BY <1>1, <1>3 DEF Slots
<1>6. slot.e.data # Nothing => e.data # Nothing
  BY <1>3
<1>7. ~r.fenced => \A n \in told : r.issued >= n
  BY DEF Sound
<1> HIDE DEF rest
<1>8. CASE ~r.held
  <2>1. r.fenced
    BY <1>8 DEF Sound, OneHeld
  <2>2. Held(rest.rs) <=> Held(slot.rs)
    BY <1>5, <1>8 DEF Held
  <2>3. OneHeld(rest.rs)
    BY <1>5 DEF Sound, OneHeld
  <2>4. Sound(rest, told)
    BY <1>3, <1>5, <2>1, <2>2, <2>3 DEF Sound
  <2> QED
    BY <1>3, <1>4, <1>5, <1>6, <1>8, <2>4
<1>9. CASE r.held
  <2>1. \A q \in slot.rs \ {r} : ~q.held /\ q.fenced
    BY <1>9 DEF Sound, OneHeld
  <2>2. CASE e.after
    <3>1. /\ next \in Slots /\ next.e.mounted = e.mounted /\ next.e.data = e.data
          /\ next.rs = rest.rs
      <4> DEFINE d == [e EXCEPT !.after = FALSE]
      <4>1. d \in Entries /\ d.mounted = e.mounted /\ d.data = e.data
        BY <1>3 DEF Entries
      <4>2. next = [rest EXCEPT !.e = d]
        BY <1>5
      <4> HIDE DEF d, next
      <4> QED
        BY <1>5, <4>1, <4>2 DEF Slots
    <3> HIDE DEF next
    <3>2. ~Held(next.rs)
      BY <1>5, <2>1, <3>1 DEF Held
    <3>3. /\ f \in Slots /\ Held(f.rs) /\ f.e.present /\ f.e.mounted = e.mounted
          /\ f.e.data = e.data /\ f.rs = (slot.rs \ {r}) \cup {Request}
      <4>1. /\ f \in Slots /\ Held(f.rs) /\ f.e.present /\ f.e.mounted = next.e.mounted
            /\ f.e.data = next.e.data /\ f.rs = next.rs \cup {Request}
        BY <3>1, <3>2, FetchIntoFields
      <4> HIDE DEF f
      <4> QED
        BY <1>5, <3>1, <4>1
    <3> HIDE DEF f
    <3>4. OneHeld(f.rs)
      BY <2>1, <3>3, RequestFields DEF OneHeld
    <3>5. /\ \A q \in f.rs : ~(q.held /\ q.fenced)
          /\ \A q \in f.rs, n \in told : ~q.fenced => q.issued >= n
      BY <2>1, <3>3, RequestFields
    <3>6. Sound(f, told)
      BY <3>3, <3>4, <3>5 DEF Sound
    <3> QED
      BY <1>3, <1>4, <1>6, <1>9, <2>2, <3>3, <3>6
  <2>3. CASE ~e.after
    <3>1. \A q \in rest.rs : ~q.held /\ q.fenced
      BY <1>5, <2>1
    <3>2. ~Held(rest.rs) /\ OneHeld(rest.rs)
      BY <3>1 DEF Held, OneHeld
    <3>3. r.fenced => e.data # Nothing /\ e.origin # "server"
      BY <1>3, <1>9, <2>3 DEF Sound
    <3>4. ~r.fenced => slot.e.present
      BY DEF Sound
    <3>5. e.data # Nothing \/ e.error
      BY <1>3, <3>3
    <3>6. ~e.error /\ e.origin = "server" => \A n \in told : e.data >= n
      <4> SUFFICES ASSUME ~e.error, e.origin = "server", NEW n \in told PROVE e.data >= n
        OBVIOUS
      <4>1. ~r.fenced /\ read # Nothing /\ e.data = read
        BY <1>3, <3>3
      <4>2. r.issued >= n /\ read >= r.issued /\ read \in Nat /\ r.issued \in Nat /\ n \in Nat
        BY <1>1, <1>2, <1>7, <4>1 DEF Fetches
      <4> QED
        BY <4>1, <4>2
    <3>7. e.present
      BY <1>3, <3>3, <3>4 DEF Sound
    <3>8. Sound(rest, told)
      BY <1>5, <3>1, <3>2, <3>5, <3>6, <3>7 DEF Sound
    <3> QED
      BY <1>3, <1>4, <1>5, <1>6, <1>9, <2>3, <3>8
  <2> QED
    BY <2>2, <2>3
<1> QED
  BY <1>8, <1>9

\* trimCache deletes no entry that is mounted or has a promise.
LEMMA TrimmedEntry ==
  ASSUME NEW es, NEW rs, NEW recent, NEW k \in Keys
  PROVE  \/ Trimmed(es, rs, recent)[k] = es[k]
         \/ ~es[k].mounted /\ ~Held(rs[k]) /\ Trimmed(es, rs, recent)[k] = NoEntry
BY DEF Trimmed

LEMMA TrimmedSound ==
  ASSUME NEW es \in [Keys -> Entries], NEW rs \in [Keys -> SUBSET Fetches], NEW recent,
         NEW k \in Keys, NEW told, Sound([e |-> es[k], rs |-> rs[k]], told)
  PROVE  /\ Trimmed(es, rs, recent)[k] \in Entries
         /\ Sound([e |-> Trimmed(es, rs, recent)[k], rs |-> rs[k]], told)
         /\ Trimmed(es, rs, recent)[k].mounted = es[k].mounted
         /\ es[k].mounted => Trimmed(es, rs, recent)[k] = es[k]
<1> DEFINE t == Trimmed(es, rs, recent)[k]
<1>1. /\ NoEntry \in Entries /\ ~NoEntry.present /\ NoEntry.mounted = FALSE /\ NoEntry.data = Nothing
      /\ ~es[k].mounted => es[k].mounted = FALSE
  BY DEF NoEntry, Entries
<1>2. t = es[k] \/ (~es[k].mounted /\ ~Held(rs[k]) /\ t = NoEntry)
  BY TrimmedEntry
<1> HIDE DEF t
<1>3. CASE t = es[k]
  BY <1>3 DEF t
<1>4. CASE ~es[k].mounted /\ ~Held(rs[k]) /\ t = NoEntry
  <2>1. \A r \in rs[k] : ~r.held /\ r.fenced
    BY <1>4 DEF Held, Sound, OneHeld
  <2>2. Sound([e |-> NoEntry, rs |-> rs[k]], told)
    BY <1>1, <2>1 DEF Sound, OneHeld
  <2>3. t \in Entries /\ Sound([e |-> t, rs |-> rs[k]], told) /\ t.mounted = es[k].mounted
    BY <1>1, <1>4, <2>2
  <2> QED
    BY <1>4, <2>3 DEF t
<1> QED
  BY <1>2, <1>3, <1>4

\* reset takes a list off the page with what it held.
LEMMA ResetSound ==
  ASSUME NEW slot \in Slots, NEW told
  PROVE  /\ [Clear(slot) EXCEPT !.e.mounted = FALSE] \in Slots
         /\ ~[Clear(slot) EXCEPT !.e.mounted = FALSE].e.mounted
         /\ Sound([Clear(slot) EXCEPT !.e.mounted = FALSE], told)
<1> DEFINE c == Clear(slot)
           d == [c.e EXCEPT !.mounted = FALSE]
           u == [c EXCEPT !.e.mounted = FALSE]
<1>1. /\ c \in Slots /\ OneHeld(c.rs) /\ c.e.data = Nothing
      /\ \A r \in c.rs : r.fenced /\ ~r.held
  BY ClearSound
<1> HIDE DEF c
<1>2. d \in Entries /\ ~d.mounted /\ d.data = Nothing
  BY <1>1 DEF Slots, Entries
<1>3. u = [c EXCEPT !.e = d]
  BY <1>1 DEF Slots
<1> HIDE DEF d, u
<1>4. u \in Slots /\ u.e = d /\ u.rs = c.rs
  BY <1>1, <1>2, <1>3 DEF Slots
<1>5. Sound(u, told)
  BY <1>1, <1>2, <1>4 DEF Sound
<1> QED
  BY <1>2, <1>4, <1>5 DEF u, c

\* A slot stays sound when the page was told of less, or when it is empty.
LEMMA SoundUnaffected ==
  ASSUME NEW slot, NEW told, NEW now, Sound(slot, told), now \subseteq told \/ ~slot.e.present
  PROVE  Sound(slot, now)
BY DEF Sound

LEMMA SoundParts ==
  ASSUME NEW slot, NEW told, Sound(slot, told)
  PROVE  Sound([e |-> slot.e, rs |-> slot.rs], told)
BY DEF Sound

-----------------------------------------------------------------------------
(* Pages. *)

LEMMA SlotFacts ==
  ASSUME CacheInv, NEW s \in Pages, NEW k \in Keys
  PROVE  /\ Slot(s, k) \in Slots
         /\ Slot(s, k).e = entry[s][k] /\ Slot(s, k).rs = requests[s][k]
         /\ entry[s][k] \in Entries /\ requests[s][k] \in SUBSET Fetches
         /\ OneHeld(Slot(s, k).rs)
         /\ Sound(Slot(s, k), Told(s, k))
<1>1. entry[s][k] \in Entries /\ requests[s][k] \in SUBSET Fetches
  BY DEF CacheInv, CacheType
<1>2. Slot(s, k) \in Slots /\ Slot(s, k).e = entry[s][k] /\ Slot(s, k).rs = requests[s][k]
  BY <1>1 DEF Slot, Slots
<1>3. Sound(Slot(s, k), Told(s, k))
  BY DEF CacheInv
<1> QED
  BY <1>1, <1>2, <1>3 DEF Sound

\* The broadcasts of the log that a page was told of.
LEMMA ToldInLog ==
  ASSUME NEW f, NEW k
  PROVE  ToldOf(log, f, k) \in SUBSET (1..Len(log))
BY DEF ToldOf

\* The cache of a page that has fetched f: its entries es and requests rs.
PageSound(es, rs, f) ==
    /\ es \in [Keys -> Entries] /\ rs \in [Keys -> SUBSET Fetches]
    /\ \A k \in Keys : Sound([e |-> es[k], rs |-> rs[k]], ToldOf(log, f, k))
    /\ es[Boxes].mounted
    /\ \A k \in Lists : es[k].mounted => es[Boxes].data # Nothing

\* A step of one page keeps the invariant when it leaves that page's slots sound.
LEMMA PageChange ==
  ASSUME CacheInv, TypeOK', ToldBounded', log' = log, NEW s \in Pages,
         \A t \in Pages : t # s => fetched'[t] = fetched[t],
         NEW es, NEW rs, PageSound(es, rs, fetched'[s]),
         entry' = [entry EXCEPT ![s] = es], requests' = [requests EXCEPT ![s] = rs]
  PROVE  CacheInv'
<1>0. /\ es \in [Keys -> Entries] /\ rs \in [Keys -> SUBSET Fetches]
      /\ \A k \in Keys : Sound([e |-> es[k], rs |-> rs[k]], ToldOf(log, fetched'[s], k))
      /\ es[Boxes].mounted
      /\ \A k \in Lists : es[k].mounted => es[Boxes].data # Nothing
  BY DEF PageSound
<1>1. /\ entry'[s] = es /\ requests'[s] = rs
      /\ \A t \in Pages : t # s => entry'[t] = entry[t] /\ requests'[t] = requests[t]
  BY DEF CacheInv, CacheType
<1>2. CacheType'
  BY <1>0 DEF CacheInv, CacheType
<1>3. BoxesFirst'
  <2>1. /\ \A t \in Pages : entry'[t][Boxes].mounted
    BY <1>0, <1>1 DEF CacheInv, BoxesFirst
  <2>2. ASSUME NEW t \in Pages, NEW k \in Lists
        PROVE  entry'[t][k].mounted => entry'[t][Boxes].data # Nothing
    BY <1>0, <1>1 DEF CacheInv, BoxesFirst
  <2> QED
    BY <2>1, <2>2 DEF BoxesFirst
<1>4. ASSUME NEW t \in Pages, NEW k \in Keys
      PROVE  Sound(Slot(t, k), Told(t, k))'
  <2>1. CASE t = s
    BY <1>0, <1>1, <2>1 DEF Slot, Told
  <2>2. CASE t # s
    <3>1. Sound(Slot(t, k), Told(t, k))
      BY DEF CacheInv
    <3>2. entry'[t] = entry[t] /\ requests'[t] = requests[t] /\ fetched'[t] = fetched[t]
      BY <1>1, <2>2
    <3> QED
      BY <3>1, <3>2 DEF Slot, Told
  <2> QED
    BY <2>1, <2>2
<1> QED
  BY <1>2, <1>3, <1>4 DEF CacheInv

\* The same for a step that takes no frame,
LEMMA OwnChange ==
  ASSUME CacheInv, UNCHANGED hubVars, NEW s \in Pages,
         NEW es, NEW rs, PageSound(es, rs, fetched[s]),
         entry' = [entry EXCEPT ![s] = es], requests' = [requests EXCEPT ![s] = rs]
  PROVE  CacheInv'
<1>1. log' = log /\ fetched' = fetched
  BY DEF hubVars
<1>2. TypeOK'
  BY HubStepType DEF CacheInv
<1>3. ToldBounded'
  BY <1>1 DEF CacheInv, ToldBounded
<1>4. PageSound(es, rs, fetched'[s]) /\ \A t \in Pages : t # s => fetched'[t] = fetched[t]
  BY <1>1
<1> QED
  BY <1>1, <1>2, <1>3, <1>4, PageChange

\* and for one that says what becomes of every slot.
LEMMA PutChange ==
  ASSUME CacheInv, UNCHANGED hubVars, NEW s \in Pages, NEW slots, Put(s, slots),
         \A k \in Keys : slots[k] \in Slots /\ Sound(slots[k], Told(s, k)),
         slots[Boxes].e.mounted,
         \A k \in Lists : slots[k].e.mounted => slots[Boxes].e.data # Nothing
  PROVE  CacheInv'
<1> DEFINE es == [k \in Keys |-> slots[k].e]
           rs == [k \in Keys |-> slots[k].rs]
<1>1. es \in [Keys -> Entries] /\ rs \in [Keys -> SUBSET Fetches]
  BY DEF Slots
<1>2. \A k \in Keys : es[k] = slots[k].e /\ rs[k] = slots[k].rs
  OBVIOUS
<1>3. entry' = [entry EXCEPT ![s] = es] /\ requests' = [requests EXCEPT ![s] = rs]
  BY DEF Put
<1> HIDE DEF es, rs
<1>4. \A k \in Keys : Sound([e |-> es[k], rs |-> rs[k]], ToldOf(log, fetched[s], k))
  BY <1>2, SoundParts DEF Told
<1>5. es[Boxes].mounted /\ \A k \in Lists : es[k].mounted => es[Boxes].data # Nothing
  BY <1>2 DEF Keys
<1>6. PageSound(es, rs, fetched[s])
  BY <1>1, <1>4, <1>5 DEF PageSound
<1> QED
  BY <1>3, <1>6, OwnChange

\* A page that trims its cache keeps it sound.
LEMMA TrimmedPage ==
  ASSUME NEW es, NEW rs, NEW recent, NEW f, PageSound(es, rs, f)
  PROVE  /\ PageSound(Trimmed(es, rs, recent), rs, f)
         /\ Trimmed(es, rs, recent)[Boxes] = es[Boxes]
<1> DEFINE ts == Trimmed(es, rs, recent)
<1>0. /\ es \in [Keys -> Entries] /\ rs \in [Keys -> SUBSET Fetches]
      /\ es[Boxes].mounted
      /\ \A k \in Lists : es[k].mounted => es[Boxes].data # Nothing
  BY DEF PageSound
<1>1. ASSUME NEW k \in Keys
      PROVE  /\ ts[k] \in Entries
             /\ Sound([e |-> ts[k], rs |-> rs[k]], ToldOf(log, f, k))
             /\ ts[k].mounted = es[k].mounted
             /\ es[k].mounted => ts[k] = es[k]
  <2>1. Sound([e |-> es[k], rs |-> rs[k]], ToldOf(log, f, k))
    BY DEF PageSound
  <2> QED
    BY <1>0, <2>1, TrimmedSound
<1>2. ts = [k \in Keys |-> ts[k]]
  BY DEF Trimmed
<1> HIDE DEF ts
<1>3. ts \in [Keys -> Entries]
  BY <1>1, <1>2
<1>4. Boxes \in Keys /\ Lists \subseteq Keys
  BY DEF Keys
<1>5. ts[Boxes] = es[Boxes] /\ \A k \in Lists : ts[k].mounted => ts[Boxes].data # Nothing
  BY <1>0, <1>1, <1>4
<1>6. PageSound(ts, rs, f)
  BY <1>0, <1>1, <1>3, <1>5 DEF PageSound
<1> QED
  BY <1>5, <1>6 DEF ts

-----------------------------------------------------------------------------
(* Frames. *)

\* What the page was told of once it has handled a frame.
LEMMA ReceiveTells ==
  ASSUME CacheInv, NEW s \in Pages, Receive(s)
  PROVE  /\ log' = log /\ log \in Seq(Resources)
         /\ \A t \in Pages : t # s => fetched'[t] = fetched[t]
         /\ ToldBounded'
         /\ Head(wire[s]) # Greeting => \A k \in Keys :
                ~Names(log[Head(wire[s])], k) => ToldOf(log, fetched'[s], k) \subseteq Told(s, k)
<1> DEFINE frame == Head(wire[s])
<1>1. log' = log /\ log \in Seq(Resources) /\ fetched \in [Pages -> [Resources -> Nat]]
  BY EventBounds DEF CacheInv, TypeOK, Receive
<1>2. /\ \A t \in Pages : t # s => fetched'[t] = fetched[t]
      /\ \A r \in Resources : fetched'[s][r] = IF r \in Refetched(frame) THEN Len(log)
                                                                        ELSE fetched[s][r]
  BY <1>1 DEF Receive, total
<1>3. ToldBounded'
  BY <1>1, <1>2 DEF CacheInv, ToldBounded
<1>4. ASSUME frame # Greeting, NEW k \in Keys, ~Names(log[frame], k),
             NEW n \in ToldOf(log, fetched'[s], k)
      PROVE  n \in Told(s, k)
  <2>1. n \in 1..Len(log) /\ Names(log[n], k) /\ n <= fetched'[s][log[n]]
    BY <1>4 DEF ToldOf
  <2>2. log[n] \in Resources /\ log[n] # log[frame]
    BY <1>1, <1>4, <2>1
  <2>3. fetched'[s][log[n]] = fetched[s][log[n]]
    BY <1>2, <1>4, <2>2 DEF Refetched
  <2> QED
    BY <2>1, <2>3 DEF Told, ToldOf
<1> QED
  BY <1>1, <1>2, <1>3, <1>4

\* The greeting refetches what is on the page and clears what is not.
LEMMA ConnectedSound ==
  ASSUME CacheInv, NEW s \in Pages, NEW f
  PROVE  /\ \A k \in Keys : /\ OnConnected(s)[k] \in Slots
                            /\ Sound(OnConnected(s)[k], ToldOf(log, f, k))
         /\ OnConnected(s)[Boxes].e.mounted
         /\ \A k \in Lists : OnConnected(s)[k].e.mounted => OnConnected(s)[Boxes].e.data # Nothing
<1> DEFINE o == OnConnected(s)
<1>1. log \in Seq(Resources) /\ Boxes \in Keys /\ Lists \subseteq Keys /\ Boxes \notin Lists
  BY CacheAssumption DEF CacheInv, TypeOK, Keys, Boxes
<1>2. /\ o[Boxes] = Invalidate(Slot(s, Boxes))
      /\ \A k \in Lists :
            /\ ~entry[s][k].present => o[k] = Slot(s, k)
            /\ entry[s][k].present /\ entry[s][k].mounted => o[k] = Invalidate(Clear(Slot(s, k)))
            /\ entry[s][k].present /\ ~entry[s][k].mounted => o[k] = Clear(Slot(s, k))
  BY <1>1 DEF OnConnected
<1> HIDE DEF o
<1>3. /\ o[Boxes] \in Slots /\ Sound(o[Boxes], ToldOf(log, f, Boxes))
      /\ o[Boxes].e.mounted = entry[s][Boxes].mounted
      /\ o[Boxes].e.data = entry[s][Boxes].data
  <2>1. /\ Slot(s, Boxes) \in Slots /\ Slot(s, Boxes).e = entry[s][Boxes]
        /\ OneHeld(Slot(s, Boxes).rs) /\ ToldOf(log, f, Boxes) \in SUBSET (1..Len(log))
    BY <1>1, SlotFacts, ToldInLog
  <2> QED
    BY <1>1, <1>2, <2>1, InvalidateSound
<1>4. ASSUME NEW k \in Lists
      PROVE  /\ o[k] \in Slots /\ Sound(o[k], ToldOf(log, f, k))
             /\ o[k].e.mounted = entry[s][k].mounted
  <2>1. /\ k \in Keys /\ Slot(s, k) \in Slots /\ Slot(s, k).e = entry[s][k]
        /\ Sound(Slot(s, k), Told(s, k))
        /\ ToldOf(log, f, k) \in SUBSET (1..Len(log))
    BY <1>1, SlotFacts, ToldInLog
  <2>2. CASE ~entry[s][k].present
    BY <1>2, <2>1, <2>2, SoundUnaffected
  <2>3. CASE entry[s][k].present /\ entry[s][k].mounted
    <3>1. Clear(Slot(s, k)) \in Slots /\ OneHeld(Clear(Slot(s, k)).rs)
          /\ Clear(Slot(s, k)).e.mounted = entry[s][k].mounted
      BY <2>1, ClearSound
    <3> QED
      BY <1>1, <1>2, <2>1, <2>3, <3>1, InvalidateSound
  <2>4. CASE entry[s][k].present /\ ~entry[s][k].mounted
    BY <1>2, <2>1, <2>4, ClearSound
  <2> QED
    BY <2>2, <2>3, <2>4
<1>5. entry[s][Boxes].mounted /\ \A k \in Lists : entry[s][k].mounted => entry[s][Boxes].data # Nothing
  BY DEF CacheInv, BoxesFirst
<1> QED
  BY <1>3, <1>4, <1>5 DEF o, Keys

\* reset leaves no list on the page.
LEMMA OnResetSound ==
  ASSUME CacheInv, NEW s \in Pages, NEW f
  PROVE  /\ \A k \in Keys : OnReset(s)[k] \in Slots /\ Sound(OnReset(s)[k], ToldOf(log, f, k))
         /\ OnReset(s)[Boxes].e.mounted
         /\ \A k \in Lists : ~OnReset(s)[k].e.mounted
<1> DEFINE o == OnReset(s)
<1>1. log \in Seq(Resources) /\ Boxes \in Keys /\ Lists \subseteq Keys /\ Boxes \notin Lists
  BY CacheAssumption DEF CacheInv, TypeOK, Keys, Boxes
<1>2. /\ o[Boxes] = ClearAndInvalidate(Slot(s, Boxes))
      /\ \A k \in Lists :
            /\ entry[s][k].present => o[k] = [Clear(Slot(s, k)) EXCEPT !.e.mounted = FALSE]
            /\ ~entry[s][k].present => o[k] = Slot(s, k)
  BY <1>1 DEF OnReset
<1> HIDE DEF o
<1>3. /\ o[Boxes] \in Slots /\ Sound(o[Boxes], ToldOf(log, f, Boxes))
      /\ o[Boxes].e.mounted = entry[s][Boxes].mounted
  <2>1. /\ Slot(s, Boxes) \in Slots /\ Slot(s, Boxes).e = entry[s][Boxes]
        /\ OneHeld(Slot(s, Boxes).rs) /\ ToldOf(log, f, Boxes) \in SUBSET (1..Len(log))
    BY <1>1, SlotFacts, ToldInLog
  <2> QED
    BY <1>1, <1>2, <2>1, ClearAndInvalidateSound
<1>4. ASSUME NEW k \in Lists
      PROVE  o[k] \in Slots /\ Sound(o[k], ToldOf(log, f, k)) /\ ~o[k].e.mounted
  <2>1. /\ Slot(s, k) \in Slots /\ Slot(s, k).e = entry[s][k] /\ Sound(Slot(s, k), Told(s, k))
    BY <1>1, SlotFacts
  <2>2. CASE ~entry[s][k].present
    <3>1. ~entry[s][k].mounted
      BY <2>1, <2>2 DEF Sound
    <3> QED
      BY <1>2, <2>1, <2>2, <3>1, SoundUnaffected
  <2>3. CASE entry[s][k].present
    BY <1>2, <2>1, <2>3, ResetSound
  <2> QED
    BY <2>2, <2>3
<1>5. entry[s][Boxes].mounted
  BY DEF CacheInv, BoxesFirst
<1> QED
  BY <1>3, <1>4, <1>5 DEF o, Keys

\* Any other event revalidates the keys it names; the page was told no more of the
\* others than before.
LEMMA ChangeSound ==
  ASSUME CacheInv, NEW s \in Pages, NEW event, NEW f,
         \A k \in Keys : ~Names(event, k) => ToldOf(log, f, k) \subseteq Told(s, k)
  PROVE  /\ \A k \in Keys : /\ OnChange(s, event)[k] \in Slots
                            /\ Sound(OnChange(s, event)[k], ToldOf(log, f, k))
         /\ OnChange(s, event)[Boxes].e.mounted
         /\ \A k \in Lists : OnChange(s, event)[k].e.mounted
                                => OnChange(s, event)[Boxes].e.data # Nothing
<1> DEFINE o == OnChange(s, event)
<1>1. log \in Seq(Resources) /\ Boxes \in Keys /\ Lists \subseteq Keys
  BY DEF CacheInv, TypeOK, Keys
<1>2. \A k \in Keys : /\ Names(event, k) => o[k] = Invalidate(Slot(s, k))
                      /\ ~Names(event, k) => o[k] = Slot(s, k)
  BY DEF OnChange
<1> HIDE DEF o
<1>3. ASSUME NEW k \in Keys
      PROVE  /\ o[k] \in Slots /\ Sound(o[k], ToldOf(log, f, k))
             /\ o[k].e.mounted = entry[s][k].mounted /\ o[k].e.data = entry[s][k].data
  <2>1. CASE Names(event, k)
    <3>1. /\ Slot(s, k) \in Slots /\ Slot(s, k).e = entry[s][k]
          /\ OneHeld(Slot(s, k).rs) /\ ToldOf(log, f, k) \in SUBSET (1..Len(log))
      BY SlotFacts, ToldInLog
    <3> QED
      BY <1>1, <1>2, <2>1, <3>1, InvalidateSound
  <2>2. CASE ~Names(event, k)
    BY <1>2, <2>2, SlotFacts, SoundUnaffected
  <2> QED
    BY <2>1, <2>2
<1>4. entry[s][Boxes].mounted /\ \A k \in Lists : entry[s][k].mounted => entry[s][Boxes].data # Nothing
  BY DEF CacheInv, BoxesFirst
<1> QED
  BY <1>1, <1>3, <1>4 DEF o

LEMMA FrameSound ==
  ASSUME CacheInv, NEW s \in Pages, Receive(s)
  PROVE  LET slots == OnFrame(s, Head(wire[s]))
         IN  /\ \A k \in Keys : slots[k] \in Slots /\ Sound(slots[k], ToldOf(log, fetched'[s], k))
             /\ slots[Boxes].e.mounted
             /\ \A k \in Lists : slots[k].e.mounted => slots[Boxes].e.data # Nothing
<1> DEFINE frame == Head(wire[s])
<1>1. CASE frame = Greeting
  BY <1>1, ConnectedSound DEF OnFrame
<1>2. CASE frame # Greeting /\ log[frame] = Reset
  BY <1>2, OnResetSound DEF OnFrame
<1>3. CASE frame # Greeting /\ log[frame] # Reset
  <2>1. \A k \in Keys : ~Names(log[frame], k) => ToldOf(log, fetched'[s], k) \subseteq Told(s, k)
    BY <1>3, ReceiveTells
  <2>2. OnFrame(s, frame) = OnChange(s, log[frame])
    BY <1>3 DEF OnFrame
  <2> QED
    BY <2>1, <2>2, ChangeSound
<1> QED
  BY <1>1, <1>2, <1>3

LEMMA StepReceiveFrame ==
  ASSUME CacheInv, TypeOK', NEW s \in Pages, ReceiveFrame(s)
  PROVE  CacheInv'
<1> DEFINE slots == OnFrame(s, Head(wire[s]))
           recent == Known(used[s], {k \in Keys : slots[k].e.present})
           es == [k \in Keys |-> slots[k].e]
           rs == [k \in Keys |-> slots[k].rs]
           ts == Trimmed(es, rs, recent)
           leaves == \E k \in Lists : entry[s][k].mounted /\ ~slots[k].e.mounted
<1>1. /\ Receive(s)
      /\ requests' = [requests EXCEPT ![s] = rs]
      /\ leaves => entry' = [entry EXCEPT ![s] = ts]
      /\ ~leaves => entry' = [entry EXCEPT ![s] = es]
  BY DEF ReceiveFrame
<1>2. /\ \A k \in Keys : slots[k] \in Slots /\ Sound(slots[k], ToldOf(log, fetched'[s], k))
      /\ slots[Boxes].e.mounted
      /\ \A k \in Lists : slots[k].e.mounted => slots[Boxes].e.data # Nothing
  BY <1>1, FrameSound
<1> HIDE DEF slots, recent, leaves
<1>3. /\ es \in [Keys -> Entries] /\ rs \in [Keys -> SUBSET Fetches]
      /\ \A k \in Keys : es[k] = slots[k].e /\ rs[k] = slots[k].rs
  BY <1>2 DEF Slots
<1> HIDE DEF es, rs
<1>4. \A k \in Keys : Sound([e |-> es[k], rs |-> rs[k]], ToldOf(log, fetched'[s], k))
  BY <1>2, <1>3, SoundParts
<1>5. /\ es[Boxes].mounted /\ Boxes \in Keys
      /\ \A k \in Lists : k \in Keys /\ (es[k].mounted => es[Boxes].data # Nothing)
  BY <1>2, <1>3 DEF Keys
<1>6. /\ log' = log /\ ToldBounded'
      /\ \A t \in Pages : t # s => fetched'[t] = fetched[t]
  BY <1>1, ReceiveTells
<1>7. PageSound(es, rs, fetched'[s])
  BY <1>3, <1>4, <1>5 DEF PageSound
<1>8. PageSound(ts, rs, fetched'[s])
  BY <1>7, TrimmedPage
<1> HIDE DEF ts
<1> QED
  BY <1>1, <1>6, <1>7, <1>8, PageChange

-----------------------------------------------------------------------------
(* Requests and the user. *)

\* A request settles; its `finally` trims the cache.
LEMMA StepSettle ==
  ASSUME CacheInv, NEW s \in Pages, NEW k \in Keys, Settle(s, k)
  PROVE  CacheInv'
<1>0. PICK r \in requests[s][k] : \E read \in {Nothing} \cup r.issued..total :
          LET slot == Settled(Slot(s, k), r, read)
              es == [entry[s] EXCEPT ![k] = slot.e]
              rs == [requests[s] EXCEPT ![k] = slot.rs]
          IN  /\ entry' = [entry EXCEPT ![s] = IF r.held THEN Trimmed(es, rs, used[s]) ELSE es]
              /\ requests' = [requests EXCEPT ![s] = rs]
  BY DEF Settle
<1>1. PICK read \in {Nothing} \cup r.issued..total :
          LET slot == Settled(Slot(s, k), r, read)
              es == [entry[s] EXCEPT ![k] = slot.e]
              rs == [requests[s] EXCEPT ![k] = slot.rs]
          IN  /\ entry' = [entry EXCEPT ![s] = IF r.held THEN Trimmed(es, rs, used[s]) ELSE es]
              /\ requests' = [requests EXCEPT ![s] = rs]
  BY <1>0
<1> DEFINE slot == Settled(Slot(s, k), r, read)
           es == [entry[s] EXCEPT ![k] = slot.e]
           rs == [requests[s] EXCEPT ![k] = slot.rs]
           ts == Trimmed(es, rs, used[s])
<1>2. UNCHANGED hubVars
  BY DEF Settle
<1>3. log \in Seq(Resources) /\ Told(s, k) \in SUBSET (1..Len(log))
  BY ToldInLog DEF CacheInv, TypeOK, Told
<1>4. /\ Slot(s, k) \in Slots /\ Slot(s, k).e = entry[s][k] /\ Slot(s, k).rs = requests[s][k]
      /\ Sound(Slot(s, k), Told(s, k))
  BY SlotFacts
<1>5. /\ slot \in Slots /\ Sound(slot, Told(s, k))
      /\ slot.e.mounted = entry[s][k].mounted
      /\ entry[s][k].data # Nothing => slot.e.data # Nothing
  <2>1. r \in Slot(s, k).rs /\ read \in {Nothing} \cup r.issued..Len(log)
    BY <1>4 DEF total
  <2> QED
    BY <1>3, <1>4, <2>1, SettledSound
<1>6. /\ r.held => entry' = [entry EXCEPT ![s] = ts]
      /\ ~r.held => entry' = [entry EXCEPT ![s] = es]
      /\ requests' = [requests EXCEPT ![s] = rs]
  BY <1>1
<1> HIDE DEF slot
<1>7. entry[s] \in [Keys -> Entries] /\ requests[s] \in [Keys -> SUBSET Fetches]
  BY DEF CacheInv, CacheType
<1>8. /\ es \in [Keys -> Entries] /\ rs \in [Keys -> SUBSET Fetches]
      /\ es[k] = slot.e /\ rs[k] = slot.rs
      /\ \A x \in Keys : x # k => es[x] = entry[s][x] /\ rs[x] = requests[s][x]
  BY <1>5, <1>7 DEF Slots
<1> HIDE DEF es, rs
<1>9. \A x \in Keys : Sound([e |-> es[x], rs |-> rs[x]], ToldOf(log, fetched[s], x))
  <2> SUFFICES ASSUME NEW x \in Keys PROVE Sound([e |-> es[x], rs |-> rs[x]], Told(s, x))
    BY DEF Told
  <2>1. CASE x = k
    BY <1>5, <1>8, <2>1, SoundParts
  <2>2. CASE x # k
    BY <1>8, <2>2, SlotFacts DEF Slot
  <2> QED
    BY <2>1, <2>2
<1>10. /\ es[Boxes].mounted
       /\ \A x \in Lists : es[x].mounted => es[Boxes].data # Nothing
  <2>1. Boxes \in Keys /\ Lists \subseteq Keys
    BY DEF Keys
  <2>2. /\ entry[s][Boxes].mounted
        /\ \A x \in Lists : entry[s][x].mounted => entry[s][Boxes].data # Nothing
    BY DEF CacheInv, BoxesFirst
  <2>3. \A x \in Keys : /\ es[x].mounted = entry[s][x].mounted
                        /\ entry[s][x].data # Nothing => es[x].data # Nothing
    BY <1>5, <1>8
  <2> QED
    BY <2>1, <2>2, <2>3
<1>11. PageSound(es, rs, fetched[s])
  BY <1>8, <1>9, <1>10 DEF PageSound
<1>12. PageSound(ts, rs, fetched[s])
  BY <1>11, TrimmedPage
<1> HIDE DEF ts
<1> QED
  BY <1>2, <1>6, <1>11, <1>12, OwnChange

\* What the other steps of the page need of every slot it has.
LEMMA PageFacts ==
  ASSUME CacheInv, NEW s \in Pages
  PROVE  /\ log \in Seq(Resources) /\ Boxes \in Keys /\ Lists \subseteq Keys /\ Boxes \notin Lists
         /\ entry[s] \in [Keys -> Entries] /\ requests[s] \in [Keys -> SUBSET Fetches]
         /\ entry[s][Boxes].mounted
         /\ \A k \in Lists : entry[s][k].mounted => entry[s][Boxes].data # Nothing
<1>1. entry[s] \in [Keys -> Entries] /\ requests[s] \in [Keys -> SUBSET Fetches]
  BY DEF CacheInv, CacheType
<1>2. log \in Seq(Resources)
  BY DEF CacheInv, TypeOK
<1> QED
  BY <1>1, <1>2, CacheAssumption DEF CacheInv, BoxesFirst, Keys, Boxes

LEMMA SlotInvalidated ==
  ASSUME CacheInv, NEW s \in Pages, NEW k \in Keys
  PROVE  /\ Invalidate(Slot(s, k)) \in Slots
         /\ Sound(Invalidate(Slot(s, k)), Told(s, k))
         /\ Held(Invalidate(Slot(s, k)).rs)
         /\ Invalidate(Slot(s, k)).e.mounted = entry[s][k].mounted
         /\ Invalidate(Slot(s, k)).e.data = entry[s][k].data
<1>1. log \in Seq(Resources) /\ Told(s, k) \in SUBSET (1..Len(log))
  BY PageFacts, ToldInLog DEF Told
<1>2. Slot(s, k) \in Slots /\ OneHeld(Slot(s, k).rs) /\ Slot(s, k).e = entry[s][k]
  BY SlotFacts
<1> QED
  BY <1>1, <1>2, InvalidateSound

\* A mailbox is selected: the lists unmount, the cache is trimmed, and the list of
\* the mailbox mounts.
LEMMA StepSelected ==
  ASSUME CacheInv, NEW s \in Pages, NEW k \in Lists, Selected(s, k), UNCHANGED hubVars,
         entry[s][Boxes].data # Nothing
  PROVE  CacheInv'
<1> DEFINE slots == [x \in Keys |-> IF x = k THEN Invalidate(Slot(s, x)) ELSE Slot(s, x)]
           recent == Touch(used[s], k)
           es == [x \in Keys |-> IF x \in Lists THEN [slots[x].e EXCEPT !.mounted = FALSE]
                                               ELSE slots[x].e]
           rs == [x \in Keys |-> slots[x].rs]
           kept == IF \E x \in Lists : entry[s][x].mounted THEN Trimmed(es, rs, recent) ELSE es
           now == [x \in Keys |-> IF x = k THEN Mounted([e |-> kept[x], rs |-> rs[x]])
                                  ELSE [e |-> kept[x], rs |-> rs[x]]]
<1>1. Put(s, now)
  BY DEF Selected
<1>2. /\ log \in Seq(Resources) /\ Boxes \in Keys /\ Lists \subseteq Keys /\ Boxes \notin Lists
      /\ entry[s][Boxes].mounted
  BY PageFacts
<1>3. ASSUME NEW x \in Keys
      PROVE  /\ slots[x] \in Slots /\ Sound(slots[x], Told(s, x))
             /\ slots[x].e.mounted = entry[s][x].mounted
             /\ slots[x].e.data = entry[s][x].data
  <2>1. CASE x = k
    BY <2>1, SlotInvalidated
  <2>2. CASE x # k
    BY <2>2, SlotFacts
  <2> QED
    BY <2>1, <2>2
<1> HIDE DEF slots
<1>4. ASSUME NEW x \in Keys
      PROVE  /\ es[x] \in Entries /\ rs[x] \in SUBSET Fetches
             /\ Sound([e |-> es[x], rs |-> rs[x]], ToldOf(log, fetched[s], x))
             /\ x \in Lists => ~es[x].mounted
             /\ x \notin Lists => es[x] = slots[x].e
  <2>1. slots[x].e \in Entries /\ slots[x].rs \in SUBSET Fetches /\ rs[x] = slots[x].rs
    BY <1>3 DEF Slots
  <2>2. Sound([e |-> slots[x].e, rs |-> slots[x].rs], Told(s, x))
    BY <1>3, SoundParts
  <2>3. CASE x \in Lists
    <3>1. es[x] = [slots[x].e EXCEPT !.mounted = FALSE]
      BY <2>3
    <3> HIDE DEF es, rs
    <3> QED
      BY <2>1, <2>2, <2>3, <3>1, UnmountSound DEF Told
  <2>4. CASE x \notin Lists
    <3>1. es[x] = slots[x].e
      BY <2>4
    <3> HIDE DEF es, rs
    <3> QED
      BY <2>1, <2>2, <2>4, <3>1 DEF Told
  <2> QED
    BY <2>3, <2>4
<1>5. es \in [Keys -> Entries] /\ rs \in [Keys -> SUBSET Fetches]
  <2>1. es = [x \in Keys |-> es[x]] /\ rs = [x \in Keys |-> rs[x]]
    OBVIOUS
  <2> HIDE DEF es, rs
  <2> QED
    BY <1>4, <2>1
<1> HIDE DEF es, rs
<1>6. es[Boxes].mounted /\ es[Boxes].data # Nothing
  BY <1>2, <1>3, <1>4
<1>7. PageSound(kept, rs, fetched[s]) /\ kept[Boxes] = es[Boxes]
  <2>1. PageSound(es, rs, fetched[s])
    BY <1>4, <1>5, <1>6 DEF PageSound
  <2>2. CASE \E x \in Lists : entry[s][x].mounted
    <3>1. kept = Trimmed(es, rs, recent)
      BY <2>2
    <3> HIDE DEF kept, recent
    <3> QED
      BY <2>1, <3>1, TrimmedPage
  <2>3. CASE ~\E x \in Lists : entry[s][x].mounted
    <3>1. kept = es
      BY <2>3
    <3> HIDE DEF kept
    <3> QED
      BY <2>1, <3>1
  <2> QED
    BY <2>2, <2>3
<1> HIDE DEF kept
<1>8. ASSUME NEW x \in Keys
      PROVE  /\ now[x] \in Slots /\ Sound(now[x], Told(s, x))
             /\ x # k => now[x].e = kept[x]
  <2> DEFINE old == [e |-> kept[x], rs |-> rs[x]]
  <2>1. old \in Slots /\ old.e = kept[x]
    BY <1>7 DEF PageSound, Slots
  <2>2. Sound(old, Told(s, x)) /\ Told(s, x) \in SUBSET (1..Len(log))
    BY <1>7, ToldInLog DEF PageSound, Told
  <2>3. now[x] = IF x = k THEN Mounted(old) ELSE old
    OBVIOUS
  <2> HIDE DEF old, now
  <2> QED
    BY <1>2, <2>1, <2>2, <2>3, MountedSound
<1> HIDE DEF now
<1>9. now[Boxes].e.mounted /\ now[Boxes].e.data # Nothing
  BY <1>2, <1>6, <1>7, <1>8
<1> QED
  BY <1>1, <1>8, <1>9, PutChange

LEMMA StepDeleteSelected ==
  ASSUME CacheInv, NEW s \in Pages, NEW k \in Lists, DeleteSelected(s, k)
  PROVE  CacheInv'
<1> DEFINE boxes == Invalidate(Slot(s, Boxes))
           rs == [requests[s] EXCEPT ![Boxes] = boxes.rs]
           es == [entry[s] EXCEPT ![k].mounted = FALSE, ![Boxes] = boxes.e]
           ts == Trimmed(es, rs, used[s])
<1>1. /\ entry' = [entry EXCEPT ![s] = ts] /\ requests' = [requests EXCEPT ![s] = rs]
      /\ UNCHANGED hubVars
  BY DEF DeleteSelected, CacheInv, CacheType
<1>2. /\ Boxes \in Keys /\ k \in Keys /\ k # Boxes /\ Lists \subseteq Keys
      /\ entry[s] \in [Keys -> Entries] /\ requests[s] \in [Keys -> SUBSET Fetches]
      /\ entry[s][Boxes].mounted
      /\ \A x \in Lists : entry[s][x].mounted => entry[s][Boxes].data # Nothing
  BY PageFacts
<1>3. /\ boxes \in Slots /\ Sound(boxes, Told(s, Boxes))
      /\ boxes.e.mounted /\ boxes.e.data = entry[s][Boxes].data
  BY <1>2, SlotInvalidated
<1> HIDE DEF boxes
<1> DEFINE d == [entry[s][k] EXCEPT !.mounted = FALSE]
<1>4. d \in Entries /\ ~d.mounted
  BY <1>2 DEF Entries
<1>5. /\ es[k] = d /\ es[Boxes] = boxes.e /\ es \in [Keys -> Entries]
      /\ \A x \in Keys \ {k, Boxes} : es[x] = entry[s][x]
  <2>1. es = [[entry[s] EXCEPT ![k] = d] EXCEPT ![Boxes] = boxes.e]
    BY <1>2
  <2> HIDE DEF d, es
  <2> QED
    BY <1>2, <1>3, <1>4, <2>1 DEF Slots
<1>6. /\ rs \in [Keys -> SUBSET Fetches] /\ rs[Boxes] = boxes.rs
      /\ \A x \in Keys \ {Boxes} : rs[x] = requests[s][x]
  BY <1>2, <1>3 DEF Slots
<1> HIDE DEF es, rs
<1>7. \A x \in Keys : Sound([e |-> es[x], rs |-> rs[x]], ToldOf(log, fetched[s], x))
  <2> SUFFICES ASSUME NEW x \in Keys PROVE Sound([e |-> es[x], rs |-> rs[x]], Told(s, x))
    BY DEF Told
  <2>1. CASE x = Boxes
    BY <1>3, <1>5, <1>6, <2>1, SoundParts
  <2>2. Sound([e |-> entry[s][x], rs |-> requests[s][x]], Told(s, x))
    BY SlotFacts DEF Slot
  <2>3. CASE x = k
    <3>1. rs[x] = requests[s][x] /\ entry[s][x] \in Entries /\ requests[s][x] \in SUBSET Fetches
      BY <1>2, <1>6, <2>3
    <3> QED
      BY <1>5, <2>2, <2>3, <3>1, UnmountSound
  <2>4. CASE x \notin {k, Boxes}
    BY <1>5, <1>6, <2>2, <2>4
  <2> QED
    BY <2>1, <2>3, <2>4
<1>8. /\ es[Boxes].mounted
      /\ \A x \in Lists : es[x].mounted => es[Boxes].data # Nothing
  <2>1. ASSUME NEW x \in Lists, es[x].mounted PROVE entry[s][x].mounted
    BY <1>2, <1>3, <1>4, <1>5, <2>1, PageFacts
  <2> QED
    BY <1>2, <1>3, <1>5, <2>1
<1>9. PageSound(es, rs, fetched[s])
  BY <1>5, <1>6, <1>7, <1>8 DEF PageSound
<1>10. PageSound(ts, rs, fetched[s])
  BY <1>9, TrimmedPage
<1> HIDE DEF ts
<1> QED
  BY <1>1, <1>10, OwnChange

LEMMA StepRetryResource ==
  ASSUME CacheInv, NEW s \in Pages, NEW k \in Keys, RetryResource(s, k)
  PROVE  CacheInv'
<1> DEFINE now == [x \in Keys |-> IF x # k THEN Slot(s, x)
                                  ELSE IF k = Boxes THEN Invalidate(Slot(s, x)) ELSE Retry(Slot(s, x))]
<1>1. Put(s, now) /\ UNCHANGED hubVars
  BY DEF RetryResource
<1>2. /\ log \in Seq(Resources) /\ Boxes \in Keys /\ Lists \subseteq Keys
      /\ entry[s][Boxes].mounted
      /\ \A x \in Lists : entry[s][x].mounted => entry[s][Boxes].data # Nothing
  BY PageFacts
<1>3. ASSUME NEW x \in Keys
      PROVE  /\ now[x] \in Slots /\ Sound(now[x], Told(s, x))
             /\ now[x].e.mounted = entry[s][x].mounted
             /\ x = Boxes => now[x].e.data = entry[s][x].data
  <2>1. CASE x # k
    <3>1. now[x] = Slot(s, x)
      BY <2>1
    <3> HIDE DEF now
    <3> QED
      BY <3>1, SlotFacts
  <2>2. CASE x = k /\ k = Boxes
    <3>1. now[x] = Invalidate(Slot(s, x))
      BY <2>2
    <3> HIDE DEF now
    <3> QED
      BY <3>1, SlotInvalidated
  <2>3. CASE x = k /\ k # Boxes
    <3>1. now[x] = Retry(Slot(s, x))
      BY <2>3
    <3>2. Slot(s, x) \in Slots /\ Slot(s, x).e = entry[s][x] /\ Told(s, x) \in SUBSET (1..Len(log))
      BY SlotFacts, ToldInLog DEF Told
    <3> HIDE DEF now
    <3> QED
      BY <1>2, <2>3, <3>1, <3>2, RetrySound
  <2> QED
    BY <2>1, <2>2, <2>3
<1> HIDE DEF now
<1>4. now[Boxes].e.mounted /\ \A x \in Lists : now[x].e.mounted => now[Boxes].e.data # Nothing
  BY <1>2, <1>3
<1> QED
  BY <1>1, <1>3, <1>4, PutChange

\* The mailboxes are known when a message of a list is opened, so that neither
\* patch empties an entry on the page.
LEMMA StepOpenMessage ==
  ASSUME CacheInv, NEW s \in Pages, NEW k \in Lists, OpenMessage(s, k)
  PROVE  CacheInv'
<1> DEFINE now == [x \in Keys |-> IF x \in {k, Boxes} THEN Patch(Slot(s, x)) ELSE Slot(s, x)]
<1>1. /\ Put(s, now) /\ UNCHANGED hubVars
      /\ entry[s][k].mounted /\ entry[s][k].data # Nothing
  BY DEF OpenMessage
<1>2. /\ Boxes \in Keys /\ Lists \subseteq Keys
      /\ entry[s][Boxes].mounted
      /\ entry[s][Boxes].data # Nothing
  BY <1>1, PageFacts
<1>3. ASSUME NEW x \in Keys
      PROVE  /\ now[x] \in Slots /\ Sound(now[x], Told(s, x))
             /\ now[x].e.mounted = entry[s][x].mounted
             /\ now[x].e.data = entry[s][x].data
  <2>0. Slot(s, x) \in Slots /\ Slot(s, x).e = entry[s][x] /\ Sound(Slot(s, x), Told(s, x))
    BY SlotFacts
  <2>1. CASE x \in {k, Boxes}
    <3>1. now[x] = Patch(Slot(s, x)) /\ Slot(s, x).e.data # Nothing
      BY <1>1, <1>2, <2>0, <2>1
    <3> HIDE DEF now
    <3> QED
      BY <2>0, <3>1, PatchSound
  <2>2. CASE x \notin {k, Boxes}
    <3>1. now[x] = Slot(s, x)
      BY <2>2
    <3> HIDE DEF now
    <3> QED
      BY <2>0, <3>1
  <2> QED
    BY <2>1, <2>2
<1> HIDE DEF now
<1>4. now[Boxes].e.mounted /\ now[Boxes].e.data # Nothing
  BY <1>2, <1>3
<1> QED
  BY <1>1, <1>3, <1>4, PutChange

LEMMA StepPostFails ==
  ASSUME CacheInv, NEW s \in Pages, NEW k \in Lists, PostFails(s, k)
  PROVE  CacheInv'
<1> DEFINE named(x) == x = Boxes \/ (x = k /\ entry[s][x].present)
           now == [x \in Keys |-> IF named(x) THEN Invalidate(Slot(s, x)) ELSE Slot(s, x)]
<1>1. Put(s, now) /\ UNCHANGED hubVars
  BY DEF PostFails
<1>2. /\ Boxes \in Keys /\ Lists \subseteq Keys
      /\ entry[s][Boxes].mounted
      /\ \A x \in Lists : entry[s][x].mounted => entry[s][Boxes].data # Nothing
  BY PageFacts
<1>3. ASSUME NEW x \in Keys
      PROVE  /\ now[x] \in Slots /\ Sound(now[x], Told(s, x))
             /\ now[x].e.mounted = entry[s][x].mounted
             /\ now[x].e.data = entry[s][x].data
  <2>1. CASE named(x)
    <3>1. now[x] = Invalidate(Slot(s, x))
      BY <2>1
    <3> HIDE DEF now
    <3> QED
      BY <3>1, SlotInvalidated
  <2>2. CASE ~named(x)
    <3>1. now[x] = Slot(s, x)
      BY <2>2
    <3> HIDE DEF now
    <3> QED
      BY <3>1, SlotFacts
  <2> QED
    BY <2>1, <2>2
<1> HIDE DEF now
<1>4. now[Boxes].e.mounted /\ \A x \in Lists : now[x].e.mounted => now[Boxes].e.data # Nothing
  BY <1>2, <1>3
<1> QED
  BY <1>1, <1>3, <1>4, PutChange

LEMMA StepPostIsMoot ==
  ASSUME CacheInv, NEW s \in Pages, NEW k \in Lists, PostIsMoot(s, k)
  PROVE  CacheInv'
<1> DEFINE es == [x \in Keys |-> IF x \in {k, Boxes} /\ entry[s][x].origin = "patch"
                                 THEN [entry[s][x] EXCEPT !.origin = "moot"] ELSE entry[s][x]]
           rs == requests[s]
<1>1. /\ entry' = [entry EXCEPT ![s] = es] /\ requests' = [requests EXCEPT ![s] = rs]
      /\ UNCHANGED hubVars
  BY DEF PostIsMoot, CacheInv, CacheType
<1>2. /\ Boxes \in Keys /\ Lists \subseteq Keys
      /\ entry[s] \in [Keys -> Entries] /\ requests[s] \in [Keys -> SUBSET Fetches]
      /\ entry[s][Boxes].mounted
      /\ \A x \in Lists : entry[s][x].mounted => entry[s][Boxes].data # Nothing
  BY PageFacts
<1>3. ASSUME NEW x \in Keys
      PROVE  /\ es[x] \in Entries /\ es[x].mounted = entry[s][x].mounted
             /\ es[x].data = entry[s][x].data
             /\ Sound([e |-> es[x], rs |-> rs[x]], ToldOf(log, fetched[s], x))
  <2>0. entry[s][x] \in Entries /\ Sound([e |-> entry[s][x], rs |-> rs[x]], ToldOf(log, fetched[s], x))
    BY SlotFacts DEF Slot, Told
  <2>1. CASE es[x] = entry[s][x]
    <3> HIDE DEF es
    <3> QED
      BY <2>0, <2>1
  <2>2. CASE entry[s][x].origin = "patch" /\ es[x] = [entry[s][x] EXCEPT !.origin = "moot"]
    <3> DEFINE e == entry[s][x]
               d == [e EXCEPT !.origin = "moot"]
    <3>1. /\ d \in Entries /\ d.origin = "moot" /\ d.mounted = e.mounted /\ d.present = e.present
          /\ d.data = e.data /\ d.error = e.error /\ d.after = e.after /\ e.origin = "patch"
      BY <2>0, <2>2 DEF Entries
    <3>2. es[x] = d
      BY <2>2
    <3> HIDE DEF d, es
    <3>3. Sound([e |-> d, rs |-> rs[x]], ToldOf(log, fetched[s], x))
      BY <2>0, <3>1 DEF Sound
    <3> QED
      BY <3>1, <3>2, <3>3
  <2> QED
    BY <2>1, <2>2
<1>4. es \in [Keys -> Entries]
  BY <1>3
<1> HIDE DEF es
<1>5. es[Boxes].mounted /\ \A x \in Lists : es[x].mounted => es[Boxes].data # Nothing
  BY <1>2, <1>3
<1>6. PageSound(es, rs, fetched[s])
  BY <1>2, <1>3, <1>4, <1>5 DEF PageSound
<1> QED
  BY <1>1, <1>6, OwnChange

-----------------------------------------------------------------------------
(* The hub. *)

\* A broadcast that no page has been told of, or a step of a stream.
LEMMA StepHub ==
  ASSUME CacheInv, TypeOK', entry' = entry, requests' = requests, fetched' = fetched,
         log' = log \/ \E r \in Resources : log' = Append(log, r)
  PROVE  CacheInv'
<1>1. log \in Seq(Resources) /\ fetched \in [Pages -> [Resources -> Nat]]
  BY EventBounds DEF CacheInv, TypeOK
<1>2. /\ Len(log) \in Nat /\ Len(log') \in Nat /\ Len(log) <= Len(log')
      /\ \A n \in 1..Len(log) : log'[n] = log[n]
      /\ \A n \in 1..Len(log') : log'[n] \in Resources
  <2>1. CASE log' = log
    BY <1>1, <2>1
  <2>2. ASSUME NEW r \in Resources, log' = Append(log, r)
        PROVE  /\ Len(log) \in Nat /\ Len(log') = Len(log) + 1
               /\ \A n \in 1..Len(log) : log'[n] = log[n] /\ log[n] \in Resources
               /\ log'[Len(log) + 1] \in Resources
    BY <1>1, <2>2
  <2>3. CASE \E r \in Resources : log' = Append(log, r)
    BY <2>2, <2>3
  <2> QED
    BY <2>1, <2>3
<1>3. ToldBounded'
  BY <1>1, <1>2 DEF CacheInv, ToldBounded
<1>4. ASSUME NEW s \in Pages, NEW k \in Keys PROVE Told(s, k)' \subseteq Told(s, k)
  <2> SUFFICES ASSUME NEW n \in ToldOf(log', fetched[s], k) PROVE n \in ToldOf(log, fetched[s], k)
    BY DEF Told
  <2>1. n \in 1..Len(log') /\ Names(log'[n], k) /\ n <= fetched[s][log'[n]]
    BY DEF ToldOf
  <2>2. log'[n] \in Resources /\ fetched[s][log'[n]] <= Len(log) /\ fetched[s][log'[n]] \in Nat
    BY <1>1, <1>2, <2>1 DEF CacheInv, ToldBounded
  <2>3. n \in 1..Len(log)
    BY <1>2, <2>1, <2>2
  <2> QED
    BY <1>2, <2>1, <2>3 DEF ToldOf
<1>5. ASSUME NEW s \in Pages, NEW k \in Keys PROVE Sound(Slot(s, k), Told(s, k))'
  <2>1. Sound(Slot(s, k), Told(s, k)) /\ Slot(s, k)' = Slot(s, k)
    BY DEF CacheInv, Slot
  <2>2. Sound(Slot(s, k), Told(s, k)')
    BY <1>4, <2>1, SoundUnaffected
  <2> QED
    BY <2>1, <2>2
<1> QED
  BY <1>3, <1>5 DEF CacheInv, CacheType, BoxesFirst

\* Every step of the page and its cache is a step of the hub's specification, or
\* leaves the hub alone.
LEMMA CacheIsHub == [CacheNext]_vars => [Next]_hubVars
<1> SUFFICES ASSUME [CacheNext]_vars PROVE [Next]_hubVars
  OBVIOUS
<1>1. CASE UNCHANGED vars
  BY <1>1 DEF vars, hubVars
<1>2. ASSUME NEW s \in Pages, PageStep(s) PROVE [Next]_hubVars
  BY <1>2 DEF PageStep, ReceiveFrame, AutoSelect, Next, Page
<1>3. ASSUME NEW s \in Pages, Fetching(s) \/ User(s) PROVE UNCHANGED hubVars
  BY <1>3 DEF Fetching, Settle, User, SelectMailbox, DeleteSelected, OpenMessage, RetryResource
<1>4. ASSUME NEW s \in Pages, Post(s) PROVE [Next]_hubVars
  BY <1>4 DEF Post, PostChanges, PostFails, PostIsMoot, Next
<1>5. CASE (\E s \in Pages : Stream(s) \/ Disconnect(s)) \/ Broadcast \/ Close
  BY <1>5 DEF Next
<1> QED
  BY <1>1, <1>2, <1>3, <1>4, <1>5 DEF CacheNext

LEMMA CacheInitially == CacheInit => CacheInv
<1> SUFFICES ASSUME CacheInit PROVE CacheInv
  OBVIOUS
<1>1. TypeOK /\ log = <<>> /\ log \in Seq(Resources) /\ Len(log) = 0
  BY HubInitInv DEF CacheInit, HubInv, Init
<1>2. ToldBounded
  BY <1>1 DEF CacheInit, Init, ToldBounded
<1> DEFINE box == [NoEntry EXCEPT !.present = TRUE, !.mounted = TRUE]
<1>3. /\ box \in Entries /\ box.present /\ box.mounted /\ box.data = Nothing /\ ~box.after
      /\ NoEntry \in Entries /\ ~NoEntry.present /\ ~NoEntry.mounted /\ NoEntry.data = Nothing
  BY DEF NoEntry, Entries
<1>4. Request \in Fetches /\ Request.held /\ ~Request.fenced
  BY <1>1, RequestFields
<1>5. /\ entry = [s \in Pages |-> [k \in Keys |-> IF k = Boxes THEN box ELSE NoEntry]]
      /\ requests = [s \in Pages |-> [k \in Keys |-> IF k = Boxes THEN {Request} ELSE {}]]
  BY DEF CacheInit
<1> HIDE DEF box
<1>6. CacheType
  BY <1>3, <1>4, <1>5 DEF CacheType
<1>7. BoxesFirst
  BY <1>3, <1>5, CacheAssumption DEF BoxesFirst, Keys, Boxes
<1>8. ASSUME NEW s \in Pages, NEW k \in Keys PROVE Sound(Slot(s, k), Told(s, k))
  <2>1. Told(s, k) = {}
    BY <1>1 DEF Told, ToldOf
  <2>2. CASE k = Boxes
    <3>1. Slot(s, k).e = box /\ Slot(s, k).rs = {Request}
      BY <1>5, <2>2 DEF Slot
    <3> QED
      BY <1>3, <1>4, <2>1, <3>1 DEF Sound, OneHeld, Held
  <2>3. CASE k # Boxes
    <3>1. Slot(s, k).e = NoEntry /\ Slot(s, k).rs = {}
      BY <1>5, <2>3 DEF Slot
    <3> QED
      BY <1>3, <2>1, <3>1 DEF Sound, OneHeld, Held
  <2> QED
    BY <2>2, <2>3
<1> QED
  BY <1>1, <1>2, <1>6, <1>7, <1>8 DEF CacheInv

LEMMA CacheStep == CacheInv /\ [CacheNext]_vars => CacheInv'
<1> SUFFICES ASSUME CacheInv, [CacheNext]_vars PROVE CacheInv'
  OBVIOUS
<1>0. TypeOK'
  BY CacheIsHub, HubStepType DEF CacheInv
<1>1. CASE UNCHANGED vars
  BY <1>0, <1>1, StepHub DEF vars, hubVars, cacheVars
<1>2. ASSUME NEW s \in Pages, PageStep(s) PROVE CacheInv'
  <2>1. CASE ReceiveFrame(s)
    BY <1>0, <2>1, StepReceiveFrame
  <2>2. CASE \E k \in Lists : AutoSelect(s, k)
    BY <2>2, StepSelected DEF AutoSelect
  <2>3. CASE (Connect(s) \/ NoticeEnd(s)) /\ UNCHANGED cacheVars
    BY <1>0, <2>3, StepHub DEF Connect, NoticeEnd, cacheVars
  <2> QED
    BY <1>2, <2>1, <2>2, <2>3 DEF PageStep
<1>3. ASSUME NEW s \in Pages, Fetching(s) PROVE CacheInv'
  BY <1>3, StepSettle DEF Fetching
<1>4. ASSUME NEW s \in Pages, User(s) PROVE CacheInv'
  <2>1. ASSUME NEW k \in Lists, SelectMailbox(s, k) PROVE CacheInv'
    BY <2>1, StepSelected DEF SelectMailbox
  <2> QED
    BY <1>4, <2>1, StepDeleteSelected, StepOpenMessage, StepRetryResource DEF User
<1>5. ASSUME NEW s \in Pages, Post(s) PROVE CacheInv'
  <2>1. ASSUME NEW k \in Lists, PostChanges(s, k) PROVE CacheInv'
    BY <1>0, <2>1, StepHub DEF PostChanges, Broadcast
  <2> QED
    BY <1>5, <2>1, StepPostFails, StepPostIsMoot DEF Post
<1>6. CASE (\E s \in Pages : Stream(s) \/ Disconnect(s)) /\ UNCHANGED cacheVars
  BY <1>0, <1>6, StepHub DEF Stream, Greet, Forward, StreamEnds, Disconnect, cacheVars
<1>7. CASE (Broadcast \/ Close) /\ UNCHANGED cacheVars
  BY <1>0, <1>7, StepHub DEF Broadcast, Close, cacheVars
<1> QED
  BY <1>1, <1>2, <1>3, <1>4, <1>5, <1>6, <1>7 DEF CacheNext

-----------------------------------------------------------------------------
(* The theorems. *)

\* The pages with their caches implement the hub's specification: what is proved
\* of the hub and its streams holds of the composition.
THEOREM CacheImplementsHub == CacheSpec => Spec
<1>1. CacheInit => Init
  BY DEF CacheInit
<1> QED
  BY <1>1, CacheIsHub, PTL DEF CacheSpec, Spec

THEOREM CacheInvariant == CacheSpec => []CacheInv
<1> QED
  BY CacheInitially, CacheStep, PTL DEF CacheSpec

\* No late response, retry or optimistic change brings back a state of a resource
\* that is older than the last frame that named it, with any number of requests of
\* any generation under way.
THEOREM CacheKnowsNewest == CacheSpec => []CacheKnows
<1>1. CacheInv => CacheKnows
  <2> SUFFICES ASSUME CacheInv, NEW s \in Pages, NEW k \in Keys,
                      Idle(s, k), entry[s][k].data # Nothing, ~entry[s][k].error,
                      entry[s][k].origin = "server",
                      NEW n \in 1..total, Names(log[n], k), n <= fetched[s][log[n]]
               PROVE  entry[s][k].data >= n
    BY DEF CacheKnows
  <2>1. Sound(Slot(s, k), Told(s, k)) /\ Slot(s, k).e = entry[s][k] /\ Slot(s, k).rs = requests[s][k]
    BY SlotFacts
  <2>2. n \in Told(s, k)
    BY DEF Told, ToldOf, total
  <2> QED
    BY <2>1, <2>2 DEF Sound, Idle
<1> QED
  BY <1>1, CacheInvariant, PTL

\* No component on a page is left with neither data nor an error nor a request
\* that will bring one, whatever was cleared, evicted or disowned before.
THEOREM CacheNoBlankPage == CacheSpec => []NoBlankPage
<1>1. CacheInv => NoBlankPage
  <2> SUFFICES ASSUME CacheInv, NEW s \in Pages, NEW k \in Keys, entry[s][k].mounted
               PROVE  /\ entry[s][k].present
                      /\ Idle(s, k) => entry[s][k].data # Nothing \/ entry[s][k].error
    BY DEF NoBlankPage
  <2>1. Sound(Slot(s, k), Told(s, k)) /\ Slot(s, k).e = entry[s][k] /\ Slot(s, k).rs = requests[s][k]
    BY SlotFacts
  <2> QED
    BY <2>1 DEF Sound, Idle
<1> QED
  BY <1>1, CacheInvariant, PTL

\* The composition has the hub's guarantee: a page that is connected and has
\* nothing left to read has refetched everything since it last changed.
THEOREM CacheNoSilentGap == CacheSpec => []NoSilentGap
<1> QED
  BY CacheImplementsHub, HubNoSilentGap, PTL
=============================================================================
