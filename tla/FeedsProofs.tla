---------------------------- MODULE FeedsProofs ----------------------------
(***************************************************************************)
(* What the components make of content, for content of any length.         *)
(***************************************************************************)
EXTENDS Feeds, FiniteSetTheorems, WellFoundedInduction, TLAPS

-----------------------------------------------------------------------------
(* Induction, stated for sets. *)

Less == {ss \in Nat \X Nat : ss[1] < ss[2]}

\* A set of natural numbers has a least element.
LEMMA LeastNumber ==
  ASSUME NEW T \in SUBSET Nat, T # {} PROVE \E x \in T : \A y \in T : x <= y
<1>1. OpToRel(<, Nat) = Less
  BY DEF OpToRel, Less
<1>2. IsWellFoundedOn(Less, Nat)
  BY <1>1, NatLessThanWellFounded
<1>3. PICK x \in T : \A y \in T : ~(<<y, x>> \in Less)
  BY <1>2, WFMin
<1>4. \A y \in T : ~(y < x)
  <2> TAKE y \in T
  <2>1. <<y, x>> \in Nat \X Nat /\ <<y, x>>[1] = y /\ <<y, x>>[2] = x
    OBVIOUS
  <2> QED BY <1>3, <2>1 DEF Less
<1> QED BY <1>3, <1>4

\* A set with 0 that is closed under successor holds every number.
LEMMA SetInduction ==
  ASSUME NEW S, 0 \in S, \A n \in Nat : n \in S => n + 1 \in S
  PROVE  \A n \in Nat : n \in S
<1> SUFFICES ASSUME Nat \ S # {} PROVE FALSE
  OBVIOUS
<1>1. PICK x \in Nat \ S : \A y \in Nat \ S : x <= y
  BY LeastNumber
<1>2. x # 0 /\ x - 1 \in Nat
  BY <1>1
<1> QED BY <1>1, <1>2

\* The values of a loop over N items, each turn of which G computes from the value
\* before and the number of the turn: they exist.
Loops(f, N, V, a, G) == f \in [0..N -> V] /\ f[0] = a /\ \A i \in 1..N : f[i] = G[<<f[i - 1], i>>]

LEMMA Iteration ==
  ASSUME NEW N \in Nat, NEW V, NEW a \in V, NEW G \in [V \X (1..N) -> V]
  PROVE  \E f : Loops(f, N, V, a, G)
<1> DEFINE Good(n, f) == f \in [0..n -> V] /\ f[0] = a /\ \A i \in 1..n : f[i] = G[<<f[i - 1], i>>]
           S == {n \in Nat : n <= N => \E f : Good(n, f)}
<1>1. 0 \in S
  <2>1. Good(0, [i \in 0..0 |-> a])
    OBVIOUS
  <2> QED BY <2>1
<1>2. ASSUME NEW n \in Nat, n \in S PROVE n + 1 \in S
  <2> SUFFICES ASSUME n + 1 <= N PROVE \E f : Good(n + 1, f)
    OBVIOUS
  <2>1. PICK f : Good(n, f)
    BY <1>2
  <2> DEFINE x == G[<<f[n], n + 1>>]
             g == [i \in 0..(n + 1) |-> IF i = n + 1 THEN x ELSE f[i]]
  <2>2. f[n] \in V /\ n + 1 \in 1..N
    BY <2>1
  <2>3. <<f[n], n + 1>> \in V \X (1..N)
    BY <2>2
  <2>4. x \in V
    BY <2>3
  <2>5. g \in [0..(n + 1) -> V] /\ g[0] = a /\ g[n + 1] = x /\ \A i \in 0..n : g[i] = f[i]
    <3> HIDE DEF x
    <3> QED BY <2>1, <2>4
  <2> HIDE DEF g
  <2>6. ASSUME NEW i \in 1..(n + 1) PROVE g[i] = G[<<g[i - 1], i>>]
    <3>1. CASE i = n + 1
      BY <2>5, <3>1
    <3>2. CASE i \in 1..n
      BY <2>1, <2>5, <3>2
    <3> QED BY <3>1, <3>2
  <2> QED BY <2>5, <2>6
<1>3. N \in S
  <2> HIDE DEF S
  <2> QED BY <1>1, <1>2, SetInduction
<1> QED BY <1>3 DEF Loops

-----------------------------------------------------------------------------
(* Largest and least numbers. *)

LEMMA MaxIs ==
  ASSUME NEW S \in SUBSET Int, NEW m \in S, \A x \in S : x <= m PROVE Max(S) = m
<1>1. \A y \in S : m >= y
  OBVIOUS
<1>2. Max(S) \in S /\ \A y \in S : Max(S) >= y
  BY <1>1, Zenon DEF Max
<1>3. PICK x \in S : x = Max(S) /\ \A y \in S : x >= y
  BY <1>2
<1>4. x \in Int /\ m \in Int /\ x >= m /\ x <= m
  BY <1>3
<1> QED BY <1>3, <1>4

LEMMA MinIs ==
  ASSUME NEW S \in SUBSET Int, NEW m \in S, \A x \in S : m <= x PROVE Min(S) = m
<1>1. Min(S) \in S /\ \A y \in S : Min(S) <= y
  BY Zenon DEF Min
<1>2. PICK x \in S : x = Min(S) /\ \A y \in S : x <= y
  BY <1>1
<1>3. x \in Int /\ m \in Int /\ x >= m /\ x <= m
  BY <1>2
<1> QED BY <1>2, <1>3

LEMMA OneElement == ASSUME NEW x \in Int PROVE Max({x}) = x /\ Min({x}) = x
<1>1. {x} \in SUBSET Int /\ x \in {x} /\ \A y \in {x} : y <= x /\ x <= y
  OBVIOUS
<1> QED BY <1>1, MaxIs, MinIs

\* Some index of T has the largest value.
LEMMA Largest ==
  ASSUME NEW N \in Nat, NEW f, \A i \in 1..N : f[i] \in Int,
         NEW T \in SUBSET (1..N), T # {}
  PROVE  \E i \in T : \A j \in T : f[j] <= f[i]
<1> DEFINE P(n) == \A U \in SUBSET (1..N) :
                     U # {} /\ (\A i \in U : i <= n) => \E i \in U : \A j \in U : f[j] <= f[i]
           S == {n \in Nat : P(n)}
<1>1. 0 \in S
  <2>1. \A U \in SUBSET (1..N) : (\A i \in U : i <= 0) => U = {}
    OBVIOUS
  <2> QED BY <2>1
<1>2. ASSUME NEW n \in Nat, n \in S PROVE n + 1 \in S
  <2> SUFFICES ASSUME NEW U \in SUBSET (1..N), U # {}, \A i \in U : i <= n + 1
               PROVE  \E i \in U : \A j \in U : f[j] <= f[i]
    OBVIOUS
  <2> DEFINE V == U \ {n + 1}
  <2>1. CASE V = {}
    <3>1. U = {n + 1} /\ f[n + 1] \in Int
      BY <2>1
    <3> QED BY <3>1
  <2>2. CASE V # {}
    <3>1. V \in SUBSET (1..N) /\ \A i \in V : i <= n
      OBVIOUS
    <3>2. PICK i \in V : \A j \in V : f[j] <= f[i]
      BY <1>2, <2>2, <3>1
    <3>3. CASE n + 1 \in U /\ f[n + 1] > f[i]
      BY <3>2, <3>3
    <3>4. CASE ~(n + 1 \in U /\ f[n + 1] > f[i])
      BY <3>2, <3>4
    <3> QED BY <3>3, <3>4
  <2> QED BY <2>1, <2>2
<1>3. N \in S
  <2> HIDE DEF S
  <2> QED BY <1>1, <1>2, SetInduction
<1> QED BY <1>3

\* Max and Min of a set of indices.
LEMMA MaxOfIndices ==
  ASSUME NEW N \in Nat, NEW T \in SUBSET (1..N), T # {}
  PROVE  Max(T) \in T /\ \A i \in T : i <= Max(T)
<1> DEFINE f == [i \in 1..N |-> i]
<1>1. PICK i \in T : \A j \in T : f[j] <= f[i]
  <2>1. \A i \in 1..N : f[i] \in Int
    OBVIOUS
  <2> QED BY <2>1, Largest
<1>2. \A j \in T : j <= i
  BY <1>1
<1> QED BY <1>2, MaxIs

LEMMA MinOfIndices ==
  ASSUME NEW N \in Nat, NEW T \in SUBSET (1..N), T # {}
  PROVE  Min(T) \in T /\ \A i \in T : Min(T) <= i
<1>1. PICK m \in T : \A i \in T : m <= i
  BY LeastNumber
<1> QED BY <1>1, MinIs
-----------------------------------------------------------------------------
(* The history of a calendar row. *)

\* What CalendarEvents holds once the events are numbered.
EventsLike(c) ==
    [method : STRING, uid : {c.uid}, seq : Int, status : STRING,
     attendees : [DOMAIN c.attendees -> STRING], details : Nat]

Rows(h) == IF Told(h) = {} THEN {} ELSE {RowOf(h)}

LEMMA EventFields ==
  ASSUME NEW c, NEW e \in EventsLike(c)
  PROVE  /\ e.uid = c.uid /\ e.seq \in Int /\ e.details \in Nat
         /\ e.attendees \in [DOMAIN c.attendees -> STRING]
BY DEF EventsLike

LEMMA HistoryFields ==
  ASSUME NEW c, NEW h \in Seq(EventsLike(c))
  PROVE  /\ Len(h) \in Nat /\ Told(h) \in SUBSET (1..Len(h)) /\ Accepted(h) \subseteq Told(h)
         /\ \A i \in 1..Len(h) : h[i] \in EventsLike(c) /\ h[i].seq \in Int
<1>1. \A i \in 1..Len(h) : h[i] \in EventsLike(c)
  OBVIOUS
<1> QED BY <1>1, EventFields DEF Told, Accepted

\* What one more event adds to the sets that describe a history.
LEMMA OneMore ==
  ASSUME NEW c, NEW h \in Seq(EventsLike(c)), NEW e \in EventsLike(c)
  PROVE  LET n == Len(h) + 1
             g == Append(h, e)
             outranked == \E j \in Told(h) : h[j].seq > e.seq
         IN  /\ Len(g) = n /\ g[n] = e /\ \A i \in 1..Len(h) : g[i] = h[i]
             /\ Told(g) = IF e.method = "REPLY" THEN Told(h) ELSE Told(h) \cup {n}
             /\ Accepted(g) = IF e.method \in {"REPLY", "CANCEL"} \/ outranked
                              THEN Accepted(h) ELSE Accepted(h) \cup {n}
<1> DEFINE n == Len(h) + 1
           g == Append(h, e)
<1>1. Len(g) = n /\ g[n] = e /\ \A i \in 1..Len(h) : g[i] = h[i]
  OBVIOUS
<1>2. 1..n = 1..Len(h) \cup {n} /\ n \notin 1..Len(h)
  OBVIOUS
<1>3. Told(g) = IF e.method = "REPLY" THEN Told(h) ELSE Told(h) \cup {n}
  BY <1>1, <1>2 DEF Told
<1>4. Told(h) \subseteq 1..Len(h) /\ \A j \in Told(h) : h[j].seq \in Int /\ g[j] = h[j]
  BY <1>1, HistoryFields
<1>5. e.seq \in Int
  BY EventFields
<1>6. \A i \in Told(h) : i \in Accepted(g) <=> i \in Accepted(h)
  BY <1>1, <1>2, <1>3, <1>4 DEF Accepted
<1>7. n \in Accepted(g) <=> e.method \notin {"REPLY", "CANCEL"}
                            /\ \A j \in Told(h) : e.seq >= h[j].seq
  BY <1>1, <1>2, <1>3, <1>4 DEF Accepted
<1>8. Accepted(g) \subseteq Told(g) /\ Accepted(h) \subseteq Told(h)
  BY DEF Accepted
<1>9. (\A j \in Told(h) : e.seq >= h[j].seq) <=> ~ \E j \in Told(h) : h[j].seq > e.seq
  BY <1>4, <1>5
<1>10. Accepted(g) = IF e.method \in {"REPLY", "CANCEL"} \/ \E j \in Told(h) : h[j].seq > e.seq
                     THEN Accepted(h) ELSE Accepted(h) \cup {n}
  <2> HIDE DEF n, g
  <2>1. \A x : x \in Accepted(g) => x \in Told(h) \/ x = n
    BY <1>3, <1>8
  <2>2. Accepted(g) = IF n \in Accepted(g) THEN Accepted(h) \cup {n} ELSE Accepted(h)
    <3>1. \A x \in Accepted(g) : x \in Accepted(h) \/ x = n
      BY <2>1, <1>6
    <3>2. \A x \in Accepted(h) : x \in Accepted(g)
      BY <1>6, <1>8
    <3>3. CASE n \in Accepted(g)
      <4>1. Accepted(g) = Accepted(h) \cup {n}
        BY <3>1, <3>2, <3>3, Zenon
      <4> QED BY <3>3, <4>1
    <3>4. CASE n \notin Accepted(g)
      <4>1. Accepted(g) = Accepted(h)
        BY <3>1, <3>2, <3>4, Zenon
      <4> QED BY <3>4, <4>1
    <3> QED BY <3>3, <3>4
  <2>3. n \in Accepted(g) <=> ~(e.method \in {"REPLY", "CANCEL"} \/ \E j \in Told(h) : h[j].seq > e.seq)
    BY <1>7, <1>9
  <2> QED BY <2>2, <2>3
<1> QED BY <1>1, <1>3, <1>10

\* The base of a history is one of its events.
LEMMA BaseTold ==
  ASSUME NEW c, NEW h \in Seq(EventsLike(c)), Told(h) # {}
  PROVE  Base(h) \in Told(h) /\ Base(h) \in 1..Len(h)
<1>1. Told(h) \in SUBSET (1..Len(h)) /\ Accepted(h) \subseteq Told(h) /\ Len(h) \in Nat
  BY HistoryFields
<1>2. CASE Accepted(h) = {}
  BY <1>1, <1>2, MinOfIndices DEF Base
<1>3. CASE Accepted(h) # {}
  BY <1>1, <1>3, MaxOfIndices DEF Base
<1> QED BY <1>1, <1>2, <1>3

\* Its sequence numbers have a largest.
LEMMA LargestSeq ==
  ASSUME NEW c, NEW h \in Seq(EventsLike(c)), Told(h) # {}
  PROVE  /\ Max(Seqs(h)) \in Int /\ \E i \in Told(h) : h[i].seq = Max(Seqs(h))
         /\ \A i \in Told(h) : h[i].seq <= Max(Seqs(h))
<1> DEFINE f == [i \in 1..Len(h) |-> h[i].seq]
<1>1. Told(h) \in SUBSET (1..Len(h)) /\ Len(h) \in Nat /\ \A i \in 1..Len(h) : f[i] \in Int
  BY HistoryFields
<1>2. PICK i \in Told(h) : \A j \in Told(h) : f[j] <= f[i]
  <2> HIDE DEF f
  <2> QED BY <1>1, Largest
<1>3. Seqs(h) \in SUBSET Int /\ h[i].seq \in Seqs(h) /\ \A x \in Seqs(h) : x <= h[i].seq
  BY <1>1, <1>2 DEF Seqs
<1>4. Max(Seqs(h)) = h[i].seq
  BY <1>3, MaxIs
<1> QED BY <1>1, <1>2, <1>3, <1>4

\* The first event that is not a reply makes the row, and so does an update that
\* no earlier event outranks.
LEMMA NewBase ==
  ASSUME NEW c, NEW h \in Seq(EventsLike(c)), NEW e \in EventsLike(c),
         e.method # "REPLY", e.details = Len(h) + 1,
         \/ Told(h) = {}
         \/ e.method # "CANCEL" /\ ~ \E j \in Told(h) : h[j].seq > e.seq
  PROVE  LET n == Len(h) + 1
         IN  RowOf(Append(h, e)) =
               NewRow(1, [id |-> n, serial |-> n], e,
                      IF e.method = "CANCEL" THEN Cancelled ELSE EventStatus(e))
<1> DEFINE n == Len(h) + 1
           g == Append(h, e)
<1>1. /\ n \in Nat /\ n \in Int /\ e.seq \in Int /\ DOMAIN e.attendees = DOMAIN c.attendees
      /\ Told(h) \in SUBSET (1..Len(h)) /\ Accepted(h) \subseteq Told(h)
      /\ \A i \in Told(h) : h[i].seq \in Int
  BY EventFields, HistoryFields
<1>2. Len(g) = n /\ g[n] = e /\ Told(g) = Told(h) \cup {n} /\ \A i \in Told(h) : g[i] = h[i]
  BY <1>1, OneMore
<1>3. Accepted(g) = IF e.method = "CANCEL" THEN {} ELSE Accepted(h) \cup {n}
  BY <1>1, OneMore
<1>4. Base(g) = n
  <2>1. CASE e.method = "CANCEL"
    <3>1. Told(g) = {n} /\ Accepted(g) = {}
      BY <1>2, <1>3, <2>1
    <3> QED BY <1>1, <3>1, OneElement DEF Base
  <2>2. CASE e.method # "CANCEL"
    <3>1. Accepted(g) \in SUBSET Int /\ n \in Accepted(g) /\ \A i \in Accepted(g) : i <= n
      BY <1>1, <1>3, <2>2
    <3> QED BY <3>1, MaxIs DEF Base
  <2> QED BY <2>1, <2>2
<1>5. Cancels(g) = IF e.method = "CANCEL" THEN {n} ELSE {}
  <2>1. \A i \in Told(h) : ~(i >= n)
    BY <1>1
  <2> HIDE DEF g, n
  <2> QED BY <1>1, <1>2, <1>4, <2>1 DEF Cancels
<1>6. \A a : Replies(g, a) = {}
  BY <1>1, <1>2, <1>4 DEF Replies
<1>7. Used(g) = {n} /\ People(g) = DOMAIN e.attendees
  BY <1>2, <1>4, <1>5, <1>6 DEF Used, People
<1>8. Max(Seqs(g)) = e.seq
  <2>1. \A i \in Told(g) : g[i].seq \in Int /\ g[i].seq <= e.seq
    BY <1>1, <1>2
  <2>2. Seqs(g) \in SUBSET Int /\ e.seq \in Seqs(g) /\ \A x \in Seqs(g) : x <= e.seq
    BY <1>2, <2>1 DEF Seqs
  <2> QED BY <2>2, MaxIs
<1>9. Max({n}) = n
  BY <1>1, OneElement
<1>10. Attendees(g) = e.attendees
  <2>1. \A a : g[Max(Replies(g, a) \cup {Base(g)})] = e
    BY <1>2, <1>4, <1>6, <1>9
  <2> QED BY <1>7, <2>1, EventFields DEF Attendees, Answer
<1> QED BY <1>2, <1>4, <1>5, <1>7, <1>8, <1>9, <1>10 DEF RowOf, NewRow

\* An event that does not become the base leaves it, and comes after it.
LEMMA BaseStays ==
  ASSUME NEW c, NEW h \in Seq(EventsLike(c)), NEW e \in EventsLike(c), Told(h) # {},
         e.method \in {"REPLY", "CANCEL"} \/ \E j \in Told(h) : h[j].seq > e.seq
  PROVE  LET n == Len(h) + 1
             g == Append(h, e)
         IN  /\ Base(g) = Base(h) /\ g[Base(g)] = h[Base(h)] /\ People(g) = People(h)
             /\ Cancels(g) = IF e.method = "CANCEL" THEN Cancels(h) \cup {n} ELSE Cancels(h)
             /\ \A a : Replies(g, a) = IF e.method = "REPLY" /\ e.attendees[a] # Absent
                                       THEN Replies(h, a) \cup {n} ELSE Replies(h, a)
<1> DEFINE n == Len(h) + 1
           g == Append(h, e)
<1>1. /\ Len(g) = n /\ g[n] = e /\ \A i \in 1..Len(h) : g[i] = h[i]
      /\ Told(g) = IF e.method = "REPLY" THEN Told(h) ELSE Told(h) \cup {n}
      /\ Accepted(g) = Accepted(h)
  BY OneMore
<1>2. Base(h) \in Told(h) /\ Base(h) \in 1..Len(h) /\ Len(h) \in Nat
  BY BaseTold, HistoryFields
<1>3. Base(g) = Base(h)
  <2>1. CASE Accepted(h) # {}
    BY <1>1, <2>1 DEF Base
  <2>2. CASE Accepted(h) = {}
    <3> DEFINE m == Min(Told(h))
    <3>1. Told(h) \in SUBSET (1..Len(h)) /\ Len(h) \in Nat
      BY HistoryFields
    <3>2. m \in Told(h) /\ \A i \in Told(h) : m <= i
      BY <3>1, MinOfIndices
    <3>3. Told(g) \in SUBSET Int /\ m \in Told(g) /\ \A i \in Told(g) : m <= i
      BY <1>1, <3>1, <3>2
    <3>4. Min(Told(g)) = m
      BY <3>3, MinIs
    <3> QED BY <1>1, <2>2, <3>4 DEF Base
  <2> QED BY <2>1, <2>2
<1>4. g[Base(g)] = h[Base(h)] /\ People(g) = People(h)
  BY <1>1, <1>2, <1>3 DEF People
<1>5. Cancels(g) = IF e.method = "CANCEL" THEN Cancels(h) \cup {n} ELSE Cancels(h)
  <2>1. Told(h) \in SUBSET (1..Len(h))
    BY HistoryFields
  <2> HIDE DEF g
  <2> QED BY <1>1, <1>2, <1>3, <2>1 DEF Cancels
<1>6. ASSUME NEW a
      PROVE  Replies(g, a) = IF e.method = "REPLY" /\ e.attendees[a] # Absent
                             THEN Replies(h, a) \cup {n} ELSE Replies(h, a)
  <2>1. Base(h)..n = (Base(h)..Len(h)) \cup {n} /\ Base(h)..Len(h) \subseteq 1..Len(h)
    BY <1>2
  <2> HIDE DEF g, n
  <2> QED BY <1>1, <1>3, <2>1 DEF Replies
<1> QED BY <1>3, <1>4, <1>5, <1>6

\* The indices of a history that its row is made of.
LEMMA UsedIndices ==
  ASSUME NEW c, NEW h \in Seq(EventsLike(c)), Told(h) # {}
  PROVE  /\ Used(h) \in SUBSET (1..Len(h)) /\ Base(h) \in Used(h)
         /\ \A a : Replies(h, a) \in SUBSET (1..Len(h))
<1>1. Base(h) \in 1..Len(h) /\ Len(h) \in Nat /\ Told(h) \in SUBSET (1..Len(h))
  BY BaseTold, HistoryFields
<1>2. Cancels(h) \subseteq 1..Len(h) /\ \A a : Replies(h, a) \subseteq 1..Len(h)
  BY <1>1 DEF Cancels, Replies
<1> QED BY <1>1, <1>2 DEF Used
\* What stays as it was, and what becomes the newest.
LEMMA AddNewest ==
  ASSUME NEW N \in Nat, NEW T \in SUBSET (1..N) PROVE Max(T \cup {N + 1}) = N + 1
<1>1. T \cup {N + 1} \in SUBSET Int /\ \A i \in T \cup {N + 1} : i <= N + 1
  OBVIOUS
<1> QED BY <1>1, MaxIs

\* The sequence number of the row after one more event.
LEMMA SeqRises ==
  ASSUME NEW c, NEW h \in Seq(EventsLike(c)), NEW e \in EventsLike(c),
         Told(h) # {}, e.method # "REPLY"
  PROVE  Max(Seqs(Append(h, e))) = IF e.seq > Max(Seqs(h)) THEN e.seq ELSE Max(Seqs(h))
<1> DEFINE m == Max(Seqs(h))
           g == Append(h, e)
           n == Len(h) + 1
           top == IF e.seq > m THEN e.seq ELSE m
<1>1. m \in Int /\ (\E i \in Told(h) : m = h[i].seq) /\ \A i \in Told(h) : h[i].seq <= m
  BY LargestSeq
<1>2. /\ Told(g) = Told(h) \cup {n} /\ g[n] = e /\ \A i \in Told(h) : g[i] = h[i]
      /\ \A i \in Told(h) : h[i].seq \in Int
      /\ e.seq \in Int
  BY OneMore, HistoryFields, EventFields
<1> HIDE DEF m, g, n
<1>3. \A i \in Told(g) : g[i].seq \in Int /\ g[i].seq <= top
  BY <1>1, <1>2
<1>4. top \in Seqs(g) /\ Seqs(g) \in SUBSET Int /\ \A x \in Seqs(g) : x <= top
  BY <1>1, <1>2, <1>3 DEF Seqs
<1>5. Max(Seqs(g)) = top
  BY <1>4, MaxIs
<1> QED BY <1>5 DEF m, g

\* The attendee list as the replies up to now left it.
LEMMA RepliesKept ==
  ASSUME NEW c, NEW h \in Seq(EventsLike(c)), NEW e \in EventsLike(c), Told(h) # {},
         e.method \in {"REPLY", "CANCEL"} \/ \E j \in Told(h) : h[j].seq > e.seq,
         NEW a
  PROVE  Answer(Append(h, e), a) =
           IF e.method = "REPLY" /\ e.attendees[a] # Absent THEN e.attendees[a] ELSE Answer(h, a)
<1> DEFINE g == Append(h, e)
           n == Len(h) + 1
           old == Replies(h, a) \cup {Base(h)}
<1>1. /\ Base(g) = Base(h)
      /\ Replies(g, a) = IF e.method = "REPLY" /\ e.attendees[a] # Absent
                         THEN Replies(h, a) \cup {n} ELSE Replies(h, a)
  BY BaseStays
<1>2. old \in SUBSET (1..Len(h)) /\ old # {} /\ Len(h) \in Nat
  BY UsedIndices, BaseTold, HistoryFields
<1>3. g[n] = e /\ \A i \in 1..Len(h) : g[i] = h[i]
  BY OneMore
<1>4. CASE e.method = "REPLY" /\ e.attendees[a] # Absent
  <2>1. Replies(g, a) \cup {Base(g)} = old \cup {n}
    BY <1>1, <1>4
  <2> QED BY <1>2, <1>3, <1>4, <2>1, AddNewest DEF Answer
<1>5. CASE ~(e.method = "REPLY" /\ e.attendees[a] # Absent)
  <2>1. Replies(g, a) \cup {Base(g)} = old
    BY <1>1, <1>5
  <2>2. Max(old) \in 1..Len(h)
    BY <1>2, MaxOfIndices
  <2> QED BY <1>3, <1>5, <2>1, <2>2 DEF Answer
<1> QED BY <1>4, <1>5

\* A row by its columns, and what an assignment to some of them makes of it.
RowWith(uid, details, seq, status, attendees, last) ==
    [mbox |-> 1, uid |-> uid, details |-> details, seq |-> seq, status |-> status,
     attendees |-> attendees, last |-> last, serial |-> last]

StatusOf(h) == IF Cancels(h) # {} THEN Cancelled ELSE EventStatus(h[Base(h)])

LEMMA RowColumns ==
  ASSUME NEW h
  PROVE  RowOf(h) = RowWith(h[Base(h)].uid, Base(h), Max(Seqs(h)), StatusOf(h), Attendees(h), Max(Used(h)))
BY DEF RowOf, RowWith, StatusOf

LEMMA RowSeq ==
  ASSUME NEW r, NEW u, NEW d, NEW s, NEW t, NEW p, NEW l, r = RowWith(u, d, s, t, p, l)
  PROVE  r.seq = s
BY DEF RowWith

CancelledRow(r, seq, status, last) ==
    [r EXCEPT !.status = status, !.seq = seq, !.last = last, !.serial = last]

RepliedRow(r, attendees, last) ==
    [r EXCEPT !.attendees = attendees, !.last = last, !.serial = last]

LEMMA RowCancelled ==
  ASSUME NEW r, NEW u, NEW d, NEW s, NEW t, NEW p, NEW l, r = RowWith(u, d, s, t, p, l),
         NEW s2, NEW t2, NEW l2
  PROVE  CancelledRow(r, s2, t2, l2) = RowWith(u, d, s2, t2, p, l2)
<1> DEFINE Row(ss, tt, ll, kk) ==
             [mbox |-> 1, uid |-> u, details |-> d, seq |-> ss, status |-> tt,
              attendees |-> p, last |-> ll, serial |-> kk]
           q1 == [r EXCEPT !.status = t2]
           q2 == [q1 EXCEPT !.seq = s2]
           q3 == [q2 EXCEPT !.last = l2]
           q4 == [q3 EXCEPT !.serial = l2]
<1>1. CancelledRow(r, s2, t2, l2) = q4
  BY DEF CancelledRow
<1>2. q1 = Row(s, t2, l, l)
  BY DEF RowWith
<1> HIDE DEF q1
<1>3. q2 = Row(s2, t2, l, l)
  BY <1>2
<1> HIDE DEF q2
<1>4. q3 = Row(s2, t2, l2, l)
  BY <1>3
<1> HIDE DEF q3
<1>5. q4 = Row(s2, t2, l2, l2)
  BY <1>4
<1> HIDE DEF q4
<1> QED BY <1>1, <1>5 DEF RowWith

LEMMA RowReplied ==
  ASSUME NEW r, NEW u, NEW d, NEW s, NEW t, NEW p, NEW l, r = RowWith(u, d, s, t, p, l),
         NEW p2, NEW l2
  PROVE  RepliedRow(r, p2, l2) = RowWith(u, d, s, t, p2, l2)
<1> DEFINE Row(pp, ll, kk) ==
             [mbox |-> 1, uid |-> u, details |-> d, seq |-> s, status |-> t,
              attendees |-> pp, last |-> ll, serial |-> kk]
           q1 == [r EXCEPT !.attendees = p2]
           q2 == [q1 EXCEPT !.last = l2]
           q3 == [q2 EXCEPT !.serial = l2]
<1>1. RepliedRow(r, p2, l2) = q3
  BY DEF RepliedRow
<1>2. q1 = Row(p2, l, l)
  BY DEF RowWith
<1> HIDE DEF q1
<1>3. q2 = Row(p2, l2, l)
  BY <1>2
<1> HIDE DEF q2
<1>4. q3 = Row(p2, l2, l2)
  BY <1>3
<1> HIDE DEF q3
<1> QED BY <1>1, <1>4 DEF RowWith

\* A cancellation of a row that exists.
LEMMA CancelStep ==
  ASSUME NEW c, NEW h \in Seq(EventsLike(c)), NEW e \in EventsLike(c),
         Told(h) # {}, e.method = "CANCEL"
  PROVE  LET r == RowOf(h)
             n == Len(h) + 1
         IN  RowOf(Append(h, e)) =
               [r EXCEPT !.status = Cancelled, !.seq = IF e.seq > r.seq THEN e.seq ELSE r.seq,
                         !.last = n, !.serial = n]
<1> DEFINE g == Append(h, e)
           n == Len(h) + 1
           m == Max(Seqs(h))
<1>0. /\ e.method # "REPLY"
      /\ e.method \in {"REPLY", "CANCEL"} \/ \E j \in Told(h) : h[j].seq > e.seq
  OBVIOUS
<1>1. /\ Base(g) = Base(h) /\ g[Base(g)] = h[Base(h)] /\ People(g) = People(h)
      /\ Cancels(g) = Cancels(h) \cup {n}
      /\ \A a : Replies(g, a) = Replies(h, a)
  <2>1. Base(g) = Base(h) /\ g[Base(g)] = h[Base(h)] /\ People(g) = People(h)
    BY <1>0, BaseStays
  <2>2. Cancels(g) = Cancels(h) \cup {n}
    BY <1>0, BaseStays
  <2>3. ASSUME NEW a PROVE Replies(g, a) = Replies(h, a)
    BY <1>0, BaseStays
  <2> QED BY <2>1, <2>2, <2>3
<1>2. Max(Seqs(g)) = IF e.seq > m THEN e.seq ELSE m
  BY <1>0, SeqRises
<1>3. Used(g) = Used(h) \cup {n}
  BY <1>1 DEF Used
<1>4. Max(Used(g)) = n
  BY <1>3, UsedIndices, AddNewest, HistoryFields
<1>5. Attendees(g) = Attendees(h)
  <2>1. ASSUME NEW a
        PROVE  Answer(g, a) = Answer(h, a)
    BY <1>0, RepliesKept
  <2> HIDE DEF g
  <2> QED BY <1>1, <2>1 DEF Attendees
<1>6. StatusOf(g) = Cancelled
  BY <1>1 DEF StatusOf
<1> DEFINE top == IF e.seq > m THEN e.seq ELSE m
<1>7. RowOf(g) = RowWith(h[Base(h)].uid, Base(h), top, Cancelled, Attendees(h), n)
  <2> HIDE DEF g, n, m
  <2> QED BY <1>1, <1>2, <1>4, <1>5, <1>6, RowColumns
<1>8. RowOf(h) = RowWith(h[Base(h)].uid, Base(h), m, StatusOf(h), Attendees(h), Max(Used(h)))
  BY RowColumns
<1> HIDE DEF g, n, m
<1>9. RowOf(h).seq = m
  BY <1>8, RowSeq
<1> HIDE DEF top
<1>10. CancelledRow(RowOf(h), top, Cancelled, n) = RowOf(g)
  BY <1>7, <1>8, RowCancelled
<1> QED BY <1>9, <1>10 DEF top, g, n, CancelledRow

\* A reply to a row that exists.
LEMMA ReplyStep ==
  ASSUME NEW c, NEW h \in Seq(EventsLike(c)), NEW e \in EventsLike(c),
         Told(h) # {}, e.method = "REPLY"
  PROVE  LET n == Len(h) + 1
         IN  {RowOf(Append(h, e))} = ReplyRows({RowOf(h)}, [id |-> n, serial |-> n], e)
<1> DEFINE g == Append(h, e)
           n == Len(h) + 1
           r == RowOf(h)
           merged == [a \in DOMAIN r.attendees |->
                        IF e.attendees[a] = Absent THEN r.attendees[a] ELSE e.attendees[a]]
<1>0. /\ e.method # "CANCEL"
      /\ e.method \in {"REPLY", "CANCEL"} \/ \E j \in Told(h) : h[j].seq > e.seq
  OBVIOUS
<1>1. /\ Base(g) = Base(h) /\ g[Base(g)] = h[Base(h)] /\ People(g) = People(h)
      /\ Cancels(g) = Cancels(h)
      /\ \A a : Replies(g, a) = IF e.attendees[a] # Absent THEN Replies(h, a) \cup {n} ELSE Replies(h, a)
  <2>1. Base(g) = Base(h) /\ g[Base(g)] = h[Base(h)] /\ People(g) = People(h)
    BY <1>0, BaseStays
  <2>2. Cancels(g) = Cancels(h)
    BY <1>0, BaseStays
  <2>3. ASSUME NEW a
        PROVE  Replies(g, a) = IF e.attendees[a] # Absent THEN Replies(h, a) \cup {n} ELSE Replies(h, a)
    BY <1>0, BaseStays
  <2> QED BY <2>1, <2>2, <2>3
<1>2. Told(g) = Told(h) /\ \A i \in Told(h) : g[i] = h[i]
  BY OneMore, HistoryFields
<1>3. Seqs(g) = Seqs(h)
  BY <1>2 DEF Seqs
<1>4. /\ DOMAIN e.attendees = DOMAIN c.attendees /\ People(h) = DOMAIN c.attendees
      /\ DOMAIN r.attendees = People(h)
  BY BaseTold, HistoryFields, EventFields DEF People, RowOf, Attendees
<1>5. Attendees(g) = merged
  <2>1. \A a \in People(h) : r.attendees[a] = Answer(h, a)
    BY DEF RowOf, Attendees
  <2>2. ASSUME NEW a
        PROVE  Answer(g, a) = IF e.attendees[a] # Absent THEN e.attendees[a] ELSE Answer(h, a)
    BY <1>0, RepliesKept
  <2> HIDE DEF g
  <2> QED BY <1>1, <1>4, <2>1, <2>2 DEF Attendees
<1>6. CASE \A a \in DOMAIN e.attendees : e.attendees[a] = Absent
  <2>1. \A a \in People(h) : Replies(g, a) = Replies(h, a)
    BY <1>1, <1>4, <1>6
  <2>2. Used(g) = Used(h)
    BY <1>1, <2>1 DEF Used
  <2>3. merged = r.attendees
    BY <1>4, <1>6 DEF RowOf, Attendees
  <2>4. RowOf(g) = r
    <3> HIDE DEF g, merged
    <3> QED BY <1>1, <1>3, <1>5, <2>2, <2>3 DEF RowOf
  <2> QED BY <1>6, <2>4 DEF ReplyRows
<1>7. CASE \E a \in DOMAIN e.attendees : e.attendees[a] # Absent
  <2>1. Used(g) = Used(h) \cup {n}
    BY <1>1, <1>4, <1>7 DEF Used
  <2>2. Max(Used(g)) = n
    BY <2>1, UsedIndices, AddNewest, HistoryFields
  <2>3. RowOf(g) = RepliedRow(r, merged, n)
    <3>1. StatusOf(g) = StatusOf(h)
      BY <1>1 DEF StatusOf
    <3> HIDE DEF g, merged, n
    <3>2. RowOf(g) = RowWith(h[Base(h)].uid, Base(h), Max(Seqs(h)), StatusOf(h), merged, n)
      BY <1>1, <1>3, <1>5, <2>2, <3>1, RowColumns
    <3>3. r = RowWith(h[Base(h)].uid, Base(h), Max(Seqs(h)), StatusOf(h), Attendees(h), Max(Used(h)))
      BY RowColumns
    <3> HIDE DEF r
    <3> QED BY <3>2, <3>3, RowReplied
  <2>4. ReplyRows({r}, [id |-> n, serial |-> n], e)
          = {RepliedRow(r, merged, n)}
    <3> HIDE DEF r, n
    <3> QED BY <1>7 DEF ReplyRows, RepliedRow
  <2> HIDE DEF merged, n, g
  <2>5. {RowOf(g)} = ReplyRows({r}, [id |-> n, serial |-> n], e)
    BY <2>3, <2>4
  <2> QED BY <2>5 DEF n, g
<1> QED BY <1>6, <1>7

\* An update that an earlier event outranks.
LEMMA StaleStep ==
  ASSUME NEW c, NEW h \in Seq(EventsLike(c)), NEW e \in EventsLike(c), Told(h) # {},
         e.method \notin {"REPLY", "CANCEL"}, \E j \in Told(h) : h[j].seq > e.seq
  PROVE  RowOf(Append(h, e)) = RowOf(h) /\ ~(e.seq >= Max(Seqs(h)))
<1> DEFINE g == Append(h, e)
           m == Max(Seqs(h))
<1>0. /\ e.method # "REPLY" /\ e.method # "CANCEL"
      /\ e.method \in {"REPLY", "CANCEL"} \/ \E j \in Told(h) : h[j].seq > e.seq
  OBVIOUS
<1>1. Base(g) = Base(h) /\ g[Base(g)] = h[Base(h)] /\ People(g) = People(h)
  BY <1>0, BaseStays
<1>2. Cancels(g) = Cancels(h)
  BY <1>0, BaseStays
<1>3. ASSUME NEW a PROVE Replies(g, a) = Replies(h, a)
  BY <1>0, BaseStays
<1>4. Max(Seqs(g)) = IF e.seq > m THEN e.seq ELSE m
  BY <1>0, SeqRises
<1>5. e.seq < m
  <2>1. m \in Int /\ e.seq \in Int /\ \A i \in Told(h) : h[i].seq \in Int /\ h[i].seq <= m
    BY LargestSeq, EventFields, HistoryFields
  <2> QED BY <2>1
<1>6. m \in Int /\ e.seq \in Int
  BY LargestSeq, EventFields
<1>7. Used(g) = Used(h)
  BY <1>1, <1>2, <1>3 DEF Used
<1>8. Attendees(g) = Attendees(h)
  <2>1. ASSUME NEW a PROVE Answer(g, a) = Answer(h, a)
    BY <1>0, RepliesKept
  <2> HIDE DEF g
  <2> QED BY <1>1, <2>1 DEF Attendees
<1>9. StatusOf(g) = StatusOf(h)
  BY <1>1, <1>2 DEF StatusOf
<1>10. Max(Seqs(g)) = m
  BY <1>4, <1>5, <1>6
<1>11. RowOf(g) = RowOf(h)
  <2> HIDE DEF g
  <2> QED BY <1>1, <1>7, <1>8, <1>9, <1>10, RowColumns
<1> QED BY <1>5, <1>6, <1>11

\* One turn of the loop of applyCalendarEvents is one more event of the history.
LEMMA ApplyIsHistory ==
  ASSUME NEW c, NEW h \in Seq(EventsLike(c)), NEW e \in EventsLike(c), e.details = Len(h) + 1
  PROVE  LET n == Len(h) + 1
         IN  ApplyCalendarEvent(Rows(h), 1, [id |-> n, serial |-> n], e) = Rows(Append(h, e))
<1> DEFINE n == Len(h) + 1
           g == Append(h, e)
           msg == [id |-> n, serial |-> n]
           r == RowOf(h)
<1>1. Told(g) = IF e.method = "REPLY" THEN Told(h) ELSE Told(h) \cup {n}
  BY OneMore
<1>2. CASE Told(h) = {}
  <2>1. Rows(h) = {} /\ RowsFor(Rows(h), 1, e.uid) = {}
    BY <1>2 DEF Rows, RowsFor
  <2>2. CASE e.method = "REPLY"
    <3>1. Rows(g) = {}
      BY <1>1, <1>2, <2>2 DEF Rows
    <3>2. ReplyRows({}, msg, e) = {}
      BY DEF ReplyRows
    <3> HIDE DEF g, msg
    <3>3. ApplyCalendarEvent(Rows(h), 1, msg, e) = {}
      BY <2>1, <2>2, <3>2 DEF ApplyCalendarEvent
    <3> QED BY <3>1, <3>3 DEF g, msg
  <2>3. CASE e.method # "REPLY"
    <3> DEFINE st == IF e.method = "CANCEL" THEN Cancelled ELSE EventStatus(e)
    <3>1. RowOf(g) = NewRow(1, msg, e, st)
      BY <1>2, <2>3, NewBase
    <3>2. Rows(g) = {RowOf(g)}
      BY <1>1, <2>3 DEF Rows
    <3> HIDE DEF g, msg
    <3>3. ApplyCalendarEvent(Rows(h), 1, msg, e) = {NewRow(1, msg, e, st)}
      BY <2>1, <2>3 DEF ApplyCalendarEvent, CancelRows, UpdateRows
    <3>4. ApplyCalendarEvent(Rows(h), 1, msg, e) = Rows(g)
      BY <3>1, <3>2, <3>3
    <3> QED BY <3>4 DEF g, msg
  <2> QED BY <2>2, <2>3
<1>3. CASE Told(h) # {}
  <2>1. Rows(h) = {r} /\ Rows(g) = {RowOf(g)}
    BY <1>1, <1>3 DEF Rows
  <2>2. r.mbox = 1 /\ r.uid = e.uid /\ r.seq = Max(Seqs(h))
    <3>1. h[Base(h)].uid = c.uid /\ e.uid = c.uid
      BY <1>3, BaseTold, HistoryFields, EventFields
    <3> QED BY <3>1 DEF RowOf
  <2>3. RowsFor({r}, 1, e.uid) = {r}
    BY <2>2 DEF RowsFor
  <2> HIDE DEF r
  <2>4. CASE e.method = "CANCEL"
    <3> DEFINE new == [r EXCEPT !.status = Cancelled, !.seq = IF e.seq > r.seq THEN e.seq ELSE r.seq,
                                !.last = n, !.serial = n]
    <3>1. RowOf(g) = new
      BY <1>3, <2>4, CancelStep DEF r
    <3>2. CancelRows({r}, 1, msg, e) = {new}
      BY DEF CancelRows
    <3> HIDE DEF g, msg, new
    <3>3. ApplyCalendarEvent({r}, 1, msg, e) = {new}
      BY <2>3, <2>4, <3>2 DEF ApplyCalendarEvent
    <3>4. ApplyCalendarEvent(Rows(h), 1, msg, e) = Rows(g)
      BY <2>1, <3>1, <3>3
    <3> QED BY <3>4 DEF g, msg
  <2>5. CASE e.method = "REPLY"
    <3>1. {RowOf(g)} = ReplyRows({r}, msg, e)
      BY <1>3, <2>5, ReplyStep DEF r
    <3> HIDE DEF g, msg
    <3>3. ApplyCalendarEvent({r}, 1, msg, e) = ReplyRows({r}, msg, e)
      BY <2>3, <2>5 DEF ApplyCalendarEvent
    <3>4. ApplyCalendarEvent(Rows(h), 1, msg, e) = Rows(g)
      BY <2>1, <3>1, <3>3
    <3> QED BY <3>4 DEF g, msg
  <2>6. CASE e.method \notin {"REPLY", "CANCEL"}
    <3> DEFINE new == NewRow(1, msg, e, EventStatus(e))
    <3>1. RowOf(g) = IF e.seq >= r.seq THEN new ELSE r
      <4>1. CASE \E j \in Told(h) : h[j].seq > e.seq
        <5>1. RowOf(g) = RowOf(h) /\ ~(e.seq >= Max(Seqs(h)))
          BY <1>3, <2>6, <4>1, StaleStep
        <5> QED BY <2>2, <5>1 DEF r
      <4>2. CASE ~ \E j \in Told(h) : h[j].seq > e.seq
        <5>0. e.method # "REPLY" /\ e.method # "CANCEL"
          BY <2>6
        <5>1. RowOf(g) = NewRow(1, msg, e, IF e.method = "CANCEL" THEN Cancelled ELSE EventStatus(e))
          BY <4>2, <5>0, NewBase
        <5>2. e.seq >= Max(Seqs(h))
          <6>1. PICK i \in Told(h) : h[i].seq = Max(Seqs(h))
            BY <1>3, LargestSeq
          <6>2. h[i].seq \in Int /\ e.seq \in Int
            BY <6>1, HistoryFields, EventFields
          <6> QED BY <4>2, <6>1, <6>2
        <5> HIDE DEF g, msg
        <5> QED BY <2>2, <5>0, <5>1, <5>2
      <4> QED BY <4>1, <4>2
    <3> HIDE DEF g, msg
    <3>2. UpdateRows({r}, 1, msg, e) = {IF e.seq >= r.seq THEN new ELSE r}
      BY DEF UpdateRows
    <3> HIDE DEF new
    <3>3. ApplyCalendarEvent({r}, 1, msg, e) = UpdateRows({r}, 1, msg, e)
      BY <2>3, <2>6 DEF ApplyCalendarEvent
    <3>4. ApplyCalendarEvent(Rows(h), 1, msg, e) = Rows(g)
      BY <2>1, <3>1, <3>2, <3>3
    <3> QED BY <3>4 DEF g, msg
  <2> QED BY <2>4, <2>5, <2>6
<1> QED BY <1>2, <1>3

\* Inductive: the row is that of a history of events of one shape.
HistoryRow == \/ fed = <<>> /\ kept = {}
              \/ \E c \in CalendarEvents : fed \in Seq(EventsLike(c)) /\ kept = Rows(fed)
HistoryInv == job = "history" => HistoryRow

LEMMA HistoryStep ==
  ASSUME HistoryRow, NEW ev \in CalendarEvents, FeedHistory(ev) PROVE HistoryRow'
<1> DEFINE n == Len(fed) + 1
           event == [ev EXCEPT !.details = n]
<1>1. PICK c \in CalendarEvents : fed \in Seq(EventsLike(c)) /\ kept = Rows(fed)
  <2>1. CASE fed = <<>> /\ kept = {}
    <3>1. fed \in Seq(EventsLike(ev))
      BY <2>1
    <3>2. Told(fed) = {}
      BY <2>1 DEF Told
    <3> QED BY <2>1, <3>1, <3>2 DEF Rows
  <2> QED BY <2>1 DEF HistoryRow
<1>2. n \in Nat
  BY <1>1
<1>3. event \in EventsLike(c) /\ event.details = n
  <2>1. ev \in [method : STRING, uid : {c.uid}, seq : Int, status : STRING,
                attendees : [DOMAIN c.attendees -> STRING], details : {0}]
    BY HistoryAssumption
  <2> HIDE DEF n
  <2> QED BY <1>2, <2>1 DEF EventsLike
<1>4. fed' = Append(fed, event) /\ kept' = ApplyCalendarEvent(kept, 1, [id |-> n, serial |-> n], event)
  BY DEF FeedHistory
<1> HIDE DEF event
<1>5. kept' = Rows(fed')
  BY <1>1, <1>3, <1>4, ApplyIsHistory
<1>6. fed' \in Seq(EventsLike(c))
  BY <1>1, <1>3, <1>4
<1> QED BY <1>5, <1>6 DEF HistoryRow

\* A calendar row is a function of the events that made it, however many they are.
THEOREM FeedsHistoryExact == FeedsSpec => []HistoryExact
<1>1. FeedsInit => HistoryInv
  BY DEF FeedsInit, InitFeed, HistoryInv, HistoryRow
<1>2. HistoryInv /\ [FeedsNext]_vars => HistoryInv'
  <2> SUFFICES ASSUME HistoryInv, [FeedsNext]_vars, job' = "history" PROVE HistoryRow'
    BY DEF HistoryInv
  <2>1. CASE UNCHANGED vars
    BY <2>1 DEF HistoryInv, HistoryRow, Rows, RowOf, vars, feedVars
  <2>2. ASSUME NEW ev \in CalendarEvents, FeedHistory(ev) PROVE HistoryRow'
    BY <2>2, HistoryStep DEF HistoryInv, FeedHistory
  <2>3. CASE DataStep
    BY <2>3 DEF HistoryInv, HistoryRow, DataStep, feedVars
  <2> QED BY <2>1, <2>2, <2>3
       DEF FeedsNext, FeedCalendar, FeedHtml, FeedHttp, FeedWire, dataVars
<1>3. HistoryInv => HistoryExact
  <2> SUFFICES ASSUME HistoryRow PROVE kept = Rows(fed)
    BY DEF HistoryInv, HistoryExact, Rows
  <2>1. CASE fed = <<>> /\ kept = {}
    <3>1. Told(fed) = {}
      BY <2>1 DEF Told
    <3> QED BY <2>1, <3>1 DEF Rows
  <2> QED BY <2>1 DEF HistoryRow
<1> QED BY <1>1, <1>2, <1>3, PTL DEF FeedsSpec

-----------------------------------------------------------------------------
(* Durations. *)

LEMMA Division ==
  ASSUME NEW m \in Nat, NEW b \in Nat \ {0}
  PROVE  m \div b \in Nat /\ m % b \in Nat /\ m = b * (m \div b) + (m % b)
<1>1. m \div b \in Nat
  OBVIOUS
<1>2. m % b \in Nat
  OBVIOUS
<1>3. m = b * (m \div b) + (m % b)
  OBVIOUS
<1> QED BY <1>1, <1>2, <1>3

\* What a quotient bounds before it is multiplied.
LEMMA Quotient ==
  ASSUME NEW m \in Nat, NEW b \in Nat \ {0}, NEW a \in Nat, a <= m \div b
  PROVE  a * b \in Nat /\ a * b <= m
<1> DEFINE q == m \div b
           r == m % b
<1>1. q \in Nat /\ r \in Nat /\ m = b * q + r /\ a <= q
  BY Division
<1> HIDE DEF q, r
<1>2. a * b <= q * b /\ a * b \in Nat
  BY <1>1
<1> QED BY <1>1, <1>2

LEMMA Multiple ==
  ASSUME NEW m \in Nat \ {0}, NEW u \in Nat, u % m = 0 PROVE \E q \in Nat : u = m * q
<1> DEFINE q == u \div m
<1>1. q \in Nat /\ u = m * q + (u % m)
  BY Division
<1> HIDE DEF q
<1>2. u = m * q
  BY <1>1
<1> QED BY <1>1, <1>2

LEMMA ExactDivision ==
  ASSUME NEW m \in Nat \ {0}, NEW q \in Int
  PROVE  (m * q) \div m = q /\ (-(m * q)) \div m = -q
OBVIOUS

\* A result that fits is not changed.
LEMMA NoWrap ==
  ASSUME NEW x \in Int, -MaxInt - 1 <= x, x <= MaxInt PROVE Wrap(x) = x
<1>1. MaxInt \in Nat
  BY IcsAssumption
<1> QED BY <1>1 DEF Wrap

LEMMA Positive == /\ MaxInt \in Nat /\ DayMillis \in Nat \ {0} /\ Milli \in Nat \ {0}
                  /\ Hour \in Nat \ {0} /\ Minute \in Nat \ {0} /\ Second \in Nat \ {0}
BY IcsAssumption

\* A turn of the loop that does not fail adds without overflow.
LEMMA ClockStepExact ==
  ASSUME NEW clock \in Int, clock <= MaxInt, NEW count \in Nat, NEW unit \in Nat \ {0}
  PROVE  LET next == ClockStep(clock, count, unit)
         IN  /\ next \in Int /\ next <= MaxInt
             /\ next >= 0 => clock >= 0 /\ next = clock + count * unit
<1>1. MaxInt \in Nat
  BY Positive
<1>2. CASE clock < 0 \/ count > (MaxInt - clock) \div unit
  BY <1>1, <1>2 DEF ClockStep
<1>3. CASE ~(clock < 0 \/ count > (MaxInt - clock) \div unit)
  <2> DEFINE room == MaxInt - clock
             part == count * unit
  <2>1. room \in Nat /\ room \div unit \in Nat /\ count <= room \div unit /\ clock >= 0
    BY <1>1, <1>3, Division
  <2>2. part \in Nat /\ part <= room
    BY <2>1, Quotient
  <2> HIDE DEF part
  <2>3. Wrap(part) = part
    BY <1>1, <2>1, <2>2, NoWrap
  <2>4. clock + part \in Nat /\ clock + part <= MaxInt
    BY <1>1, <2>1, <2>2
  <2>5. Wrap(clock + part) = clock + part
    BY <1>1, <2>4, NoWrap
  <2>6. ClockStep(clock, count, unit) = clock + part
    BY <1>3, <2>3, <2>5 DEF ClockStep, part
  <2> QED BY <2>1, <2>4, <2>6 DEF part
<1> QED BY <1>2, <1>3

LEMMA ClockExact ==
  ASSUME NEW d \in Durations
  PROVE  LET clock == Clock(d)
         IN  /\ clock \in Int /\ clock <= MaxInt
             /\ clock >= 0 => clock = d.hours * Hour + d.minutes * Minute + d.seconds * Second
<1>1. d.hours \in Nat /\ d.minutes \in Nat /\ d.seconds \in Nat
  BY DurationAssumption DEF Durations
<1> DEFINE c1 == ClockStep(0, d.hours, Hour)
           c2 == ClockStep(c1, d.minutes, Minute)
           c3 == ClockStep(c2, d.seconds, Second)
<1>2. 0 \in Int /\ 0 <= MaxInt
  BY Positive
<1>3. c1 \in Int /\ c1 <= MaxInt /\ (c1 >= 0 => c1 = 0 + d.hours * Hour)
  BY <1>1, <1>2, Positive, ClockStepExact
<1> HIDE DEF c1
<1>4. c2 \in Int /\ c2 <= MaxInt /\ (c2 >= 0 => c1 >= 0 /\ c2 = c1 + d.minutes * Minute)
  BY <1>1, <1>3, Positive, ClockStepExact
<1> HIDE DEF c2
<1>5. c3 \in Int /\ c3 <= MaxInt /\ (c3 >= 0 => c2 >= 0 /\ c3 = c2 + d.seconds * Second)
  BY <1>1, <1>4, Positive, ClockStepExact
<1> HIDE DEF c3
<1>6. Clock(d) = c3
  BY DEF Clock, c1, c2, c3
<1> DEFINE a == d.hours * Hour
           b == d.minutes * Minute
           e == d.seconds * Second
<1>7. a \in Int /\ b \in Int /\ e \in Int
  BY <1>1, Positive
<1>8. c3 >= 0 => c3 = a + b + e
  <2> HIDE DEF a, b, e
  <2> SUFFICES ASSUME c3 >= 0 PROVE c3 = a + b + e
    OBVIOUS
  <2>1. c3 = c2 + e /\ c2 >= 0
    BY <1>5 DEF e
  <2>2. c2 = c1 + b /\ c1 >= 0
    BY <1>4, <2>1 DEF b
  <2>3. c1 = 0 + a
    BY <1>3, <2>2 DEF a
  <2> QED BY <1>7, <2>1, <2>2, <2>3
<1> QED BY <1>5, <1>6, <1>8

\* The check of the days keeps their sum in range.
LEMMA DaysExact ==
  ASSUME NEW d \in Durations, DaysFit(d)
  PROVE  LET sum == 7 * d.weeks + d.days
         IN  /\ sum \in Nat /\ sum <= MaxInt
             /\ Wrap(d.sign * Wrap(Wrap(d.weeks * 7) + d.days)) = d.sign * sum
<1> DEFINE maxDays == MaxInt \div DayMillis
           sum == 7 * d.weeks + d.days
<1>1. d.weeks \in Nat /\ d.days \in Nat /\ d.sign \in {1, -1}
  BY DurationAssumption DEF Durations
<1>2. maxDays \in Nat /\ maxDays <= MaxInt
  <2>1. maxDays \in Nat /\ MaxInt \in Nat /\ DayMillis \in Nat \ {0}
    BY Positive, Division
  <2>2. maxDays * DayMillis <= MaxInt
    BY <2>1, Quotient
  <2> HIDE DEF maxDays
  <2>3. maxDays <= maxDays * DayMillis
    BY <2>1
  <2> QED BY <2>1, <2>2, <2>3
<1>3. d.weeks <= maxDays \div 7 /\ d.days <= maxDays - Wrap(d.weeks * 7)
  BY DEF DaysFit
<1> HIDE DEF maxDays
<1>4. d.weeks * 7 \in Nat /\ d.weeks * 7 <= maxDays
  BY <1>1, <1>2, <1>3
<1>5. Wrap(d.weeks * 7) = d.weeks * 7
  BY <1>2, <1>4, Positive, NoWrap
<1>6. sum \in Nat /\ sum <= MaxInt /\ d.weeks * 7 + d.days = sum
  BY <1>1, <1>2, <1>3, <1>4, <1>5, Positive
<1> HIDE DEF sum
<1>7. Wrap(sum) = sum
  BY <1>6, Positive, NoWrap
<1>8. Wrap(d.sign * sum) = d.sign * sum
  <2>1. d.sign * sum \in Int /\ -MaxInt - 1 <= d.sign * sum /\ d.sign * sum <= MaxInt
    BY <1>1, <1>6, Positive
  <2> QED BY <2>1, NoWrap
<1> QED BY <1>5, <1>6, <1>7, <1>8 DEF sum

\* A duration that is added is added exactly.
LEMMA AddToExact ==
  ASSUME NEW d \in Durations, NEW start \in Starts PROVE DurationExact(d, start)
<1> SUFFICES ASSUME AddTo(d, start).valid PROVE DurationExact(d, start)
  BY DEF DurationExact
<1> DEFINE sum == 7 * d.weeks + d.days
           clock == Clock(d)
           exact == d.hours * Hour + d.minutes * Minute + d.seconds * Second
           days == Wrap(d.sign * Wrap(Wrap(d.weeks * 7) + d.days))
           time == Wrap(d.sign * clock) \div Milli
<1>1. DaysFit(d) /\ clock >= 0 /\ AddTo(d, start).end = start + days * DayMillis + time
  BY DEF AddTo
<1>2. d.sign \in {1, -1} /\ start \in Int /\ d.hours \in Nat /\ d.minutes \in Nat /\ d.seconds \in Nat
  BY DurationAssumption DEF Durations
<1>3. days = d.sign * sum /\ sum \in Nat
  BY <1>1, DaysExact
<1>4. clock \in Int /\ clock <= MaxInt /\ clock = exact
  BY <1>1, ClockExact
<1>5. Wrap(d.sign * clock) = d.sign * clock
  <2> HIDE DEF clock
  <2>1. d.sign * clock \in Int /\ -MaxInt - 1 <= d.sign * clock /\ d.sign * clock <= MaxInt
    BY <1>1, <1>2, <1>4, Positive
  <2> QED BY <2>1, NoWrap
<1>6. PICK q \in Nat : exact = Milli * q
  <2>1. PICK h \in Nat : Hour = Milli * h
    BY IcsAssumption, Positive, Multiple
  <2>2. PICK m \in Nat : Minute = Milli * m
    BY IcsAssumption, Positive, Multiple
  <2>3. PICK s \in Nat : Second = Milli * s
    BY IcsAssumption, Positive, Multiple
  <2> DEFINE q == d.hours * h + d.minutes * m + d.seconds * s
  <2>4. q \in Nat /\ Milli \in Nat
    BY <1>2, Positive
  <2>5. d.hours * Hour = Milli * (d.hours * h)
    BY <1>2, <2>1, <2>4
  <2>6. d.minutes * Minute = Milli * (d.minutes * m)
    BY <1>2, <2>2, <2>4
  <2>7. d.seconds * Second = Milli * (d.seconds * s)
    BY <1>2, <2>3, <2>4
  <2>8. exact = Milli * q
    BY <1>2, <2>4, <2>5, <2>6, <2>7
  <2> QED BY <2>4, <2>8
<1>7. time = d.sign * q /\ exact \div Milli = q
  <2>1. (Milli * q) \div Milli = q /\ (-(Milli * q)) \div Milli = -q
    BY Positive, ExactDivision
  <2>2. d.sign * clock = IF d.sign = 1 THEN Milli * q ELSE -(Milli * q)
    <3> HIDE DEF clock, exact
    <3> QED BY <1>2, <1>4, <1>6, Positive
  <2>3. exact \div Milli = q
    BY <1>6, <2>1
  <2>4. CASE d.sign = 1
    <3>1. Wrap(d.sign * clock) = Milli * q
      BY <1>5, <2>2, <2>4
    <3>2. time = q
      BY <2>1, <3>1
    <3> QED BY <2>3, <2>4, <3>2
  <2>5. CASE d.sign = -1
    <3>1. Wrap(d.sign * clock) = -(Milli * q)
      BY <1>5, <2>2, <2>5
    <3>2. time = -q
      BY <2>1, <3>1
    <3> HIDE DEF time, exact
    <3> QED BY <2>3, <2>5, <3>2
  <2> QED BY <1>2, <2>4, <2>5
<1> HIDE DEF sum, exact, days, time, clock
<1>8. AddTo(d, start).end = start + d.sign * (sum * DayMillis + exact \div Milli)
  <2>1. AddTo(d, start).end = start + (d.sign * sum) * DayMillis + d.sign * q
    BY <1>1, <1>3, <1>7
  <2>2. sum * DayMillis \in Int
    BY <1>3, Positive
  <2> DEFINE part == sum * DayMillis
  <2>3. (d.sign * sum) * DayMillis = d.sign * part /\ DayMillis \in Nat
    BY <1>2, <1>3, Positive
  <2> HIDE DEF part
  <2>4. AddTo(d, start).end = start + d.sign * part + d.sign * q /\ part \in Int
    BY <2>1, <2>2, <2>3 DEF part
  <2>5. start + d.sign * part + d.sign * q = start + d.sign * (part + q)
    BY <1>2, <2>4
  <2> QED BY <1>7, <2>4, <2>5 DEF part
<1> QED BY <1>8 DEF DurationExact, sum, exact

\* The end of an event that is stored is the exact instant, whatever its DURATION
\* says and whatever the width of Go's int is.
THEOREM FeedsDurationsExact == FeedsSpec => []DurationsExact
<1> DEFINE Inv == job = "duration" => kept \in Durations
<1>1. FeedsInit => Inv
  BY DEF FeedsInit, InitFeed
<1>2. Inv /\ [FeedsNext]_vars => Inv'
  BY DEF FeedsNext, FeedCalendar, FeedHistory, FeedHtml, FeedHttp, FeedWire, DataStep, vars, feedVars, Durations
<1>3. Inv => DurationsExact
  BY AddToExact DEF DurationsExact
<1> QED BY <1>1, <1>2, <1>3, PTL DEF FeedsSpec

-----------------------------------------------------------------------------
(* The API. *)

\* One turn of the loop of validIDs.
LEMMA WithIDType ==
  ASSUME NEW ids \in Seq(Nat), NEW v \in Segments PROVE Http!WithID(ids, v) \in Seq(Nat)
BY DEF Http!WithID, Segments

\* The loop of validIDs.
LEMMA ValidIDsLoop ==
  ASSUME NEW values \in Seq(Segments)
  PROVE  \E f \in [0..Len(values) -> Seq(Nat)] :
           /\ Http!ValidIDs(values) = f[Len(values)] /\ f[0] = <<>>
           /\ \A i \in 1..Len(values) : f[i] = Http!WithID(f[i - 1], values[i])
<1> DEFINE N == Len(values)
           V == Seq(Nat)
           G == [t \in V \X (1..N) |-> Http!WithID(t[1], values[t[2]])]
           Is(f) == f = [i \in 0..N |-> IF i = 0 THEN <<>> ELSE Http!WithID(f[i - 1], values[i])]
<1>1. N \in Nat /\ <<>> \in V
  OBVIOUS
<1>2. G \in [V \X (1..N) -> V]
  <2>1. ASSUME NEW t \in V \X (1..N) PROVE Http!WithID(t[1], values[t[2]]) \in V
    <3>1. t[1] \in V /\ t[2] \in 1..N
      OBVIOUS
    <3>2. values[t[2]] \in Segments
      BY <3>1
    <3> QED BY <3>1, <3>2, WithIDType
  <2> HIDE DEF V, N
  <2> QED BY <2>1
<1>3. PICK f \in [0..N -> V] : f[0] = <<>> /\ \A i \in 1..N : f[i] = G[<<f[i - 1], i>>]
  <2> DEFINE a == <<>>
  <2>1. a \in V
    OBVIOUS
  <2> HIDE DEF G, V, N, a
  <2>2. PICK f : Loops(f, N, V, a, G)
    BY <1>1, <1>2, <2>1, Iteration
  <2> QED BY <2>2 DEF a, Loops
<1>4. ASSUME NEW i \in 1..N PROVE f[i] = Http!WithID(f[i - 1], values[i])
  <2>1. i - 1 \in 0..N
    OBVIOUS
  <2>2. <<f[i - 1], i>> \in V \X (1..N)
    BY <2>1
  <2> QED BY <1>3, <2>2
<1>5. Is(f)
  BY <1>3, <1>4
<1> DEFINE g == CHOOSE h : Is(h)
<1>6. Is(g)
  <2> HIDE DEF Is
  <2> QED BY <1>5, Zenon
<1>7. Http!ValidIDs(values) = g[N]
  BY DEF Http!ValidIDs
<1> HIDE DEF g
<1>8. DOMAIN g = 0..N /\ g[0] = <<>> /\ \A i \in 1..N : g[i] = Http!WithID(g[i - 1], values[i])
  BY <1>6
<1>9. g = f
  <2> DEFINE S == {n \in Nat : n <= N => g[n] = f[n]}
  <2>1. 0 \in S
    BY <1>3, <1>8
  <2>2. ASSUME NEW n \in Nat, n \in S PROVE n + 1 \in S
    <3> SUFFICES ASSUME n + 1 <= N PROVE g[n + 1] = f[n + 1]
      OBVIOUS
    <3>1. n + 1 \in 1..N /\ (n + 1) - 1 = n /\ g[n] = f[n]
      BY <2>2
    <3>2. g[n + 1] = Http!WithID(g[n], values[n + 1]) /\ f[n + 1] = Http!WithID(f[n], values[n + 1])
      BY <1>4, <1>8, <3>1
    <3> QED BY <3>1, <3>2
  <2>3. \A n \in Nat : n \in S
    <3> HIDE DEF S
    <3> QED BY <2>1, <2>2, SetInduction
  <2>4. \A i \in 0..N : g[i] = f[i]
    BY <2>3
  <2>5. g = [i \in 0..N |-> g[i]]
    BY <1>6
  <2> QED BY <2>4, <2>5
<1> QED BY <1>3, <1>4, <1>7, <1>9

\* The numbers among the first n values.
NamedUpTo(values, n) == {values[j].id : j \in {k \in 1..n : values[k].num}}

IDsOK(ids, values, n) ==
    /\ Len(ids) <= MaxMessageActionIDs + 1
    /\ IsFiniteSet(Http!ToSet(ids)) /\ Cardinality(Http!ToSet(ids)) = Len(ids)
    /\ Len(ids) <= MaxMessageActionIDs => Http!ToSet(ids) = NamedUpTo(values, n)

\* A turn keeps the distinct numbers, and all of them unless there are too many.
LEMMA WithIDKeeps ==
  ASSUME NEW values \in Seq(Segments), NEW n \in Nat, n + 1 <= Len(values),
         NEW ids \in Seq(Nat), IDsOK(ids, values, n)
  PROVE  IDsOK(Http!WithID(ids, values[n + 1]), values, n + 1)
<1> DEFINE v == values[n + 1]
           new == Http!WithID(ids, v)
           M == MaxMessageActionIDs
<1>1. M \in Nat /\ Len(ids) \in Nat
  BY HttpAssumption
<1>2. v \in Segments
  OBVIOUS
<1>3. v.num \in BOOLEAN /\ v.id \in Nat
  BY <1>2 DEF Segments
<1>4. NamedUpTo(values, n + 1) = IF v.num THEN NamedUpTo(values, n) \cup {v.id} ELSE NamedUpTo(values, n)
  <2>1. 1..(n + 1) = 1..n \cup {n + 1}
    OBVIOUS
  <2> QED BY <2>1 DEF NamedUpTo
<1>5. CASE ~v.num \/ v.id \in Http!ToSet(ids) \/ Len(ids) > M
  <2>1. new = ids
    BY <1>5 DEF Http!WithID
  <2>2. Len(ids) <= M => NamedUpTo(values, n + 1) = NamedUpTo(values, n)
    <3> SUFFICES ASSUME Len(ids) <= M PROVE NamedUpTo(values, n + 1) = NamedUpTo(values, n)
      OBVIOUS
    <3>1. Http!ToSet(ids) = NamedUpTo(values, n)
      BY DEF IDsOK
    <3>2. ~v.num \/ v.id \in NamedUpTo(values, n)
      BY <1>1, <1>5, <3>1
    <3> QED BY <1>4, <3>2
  <2> HIDE DEF new
  <2>3. IDsOK(new, values, n + 1)
    BY <2>1, <2>2 DEF IDsOK
  <2> QED BY <2>3 DEF new
<1>6. CASE ~(~v.num \/ v.id \in Http!ToSet(ids) \/ Len(ids) > M)
  <2>1. new = Append(ids, v.id)
    BY <1>6 DEF Http!WithID
  <2>2. Len(new) = Len(ids) + 1
    BY <2>1, <1>3
  <2>3. Http!ToSet(new) = Http!ToSet(ids) \cup {v.id}
    <3>1. /\ DOMAIN new = DOMAIN ids \cup {Len(ids) + 1} /\ new[Len(ids) + 1] = v.id
          /\ \A i \in DOMAIN ids : new[i] = ids[i]
      <4> HIDE DEF new, v
      <4> QED BY <2>1, <1>3
    <3> HIDE DEF new, v
    <3> QED BY <3>1 DEF Http!ToSet
  <2>4. IsFiniteSet(Http!ToSet(new)) /\ Cardinality(Http!ToSet(new)) = Len(ids) + 1
    <3> HIDE DEF new, v
    <3>1. IsFiniteSet(Http!ToSet(ids)) /\ v.id \notin Http!ToSet(ids) /\ Cardinality(Http!ToSet(ids)) = Len(ids)
      BY <1>6 DEF IDsOK
    <3> DEFINE T == Http!ToSet(ids)
    <3> HIDE DEF T
    <3>2. IsFiniteSet(T \cup {v.id}) /\ Cardinality(T \cup {v.id}) = Len(ids) + 1
      BY <3>1, FS_AddElement DEF T
    <3> QED BY <2>3, <3>2 DEF T
  <2>5. Len(ids) <= M /\ v.num
    BY <1>1, <1>6
  <2>6. Http!ToSet(new) = NamedUpTo(values, n + 1)
    <3>1. Http!ToSet(ids) = NamedUpTo(values, n)
      BY <2>5 DEF IDsOK
    <3> HIDE DEF new, v
    <3> QED BY <1>4, <2>3, <2>5, <3>1
  <2> HIDE DEF new
  <2>7. IDsOK(new, values, n + 1)
    BY <1>1, <2>2, <2>4, <2>5, <2>6 DEF IDsOK
  <2> QED BY <2>7 DEF new
<1> QED BY <1>5, <1>6

\* validIDs: at most one more than the limit, distinct, and all unless they are too many.
LEMMA ValidIDsAre ==
  ASSUME NEW values \in Seq(Segments)
  PROVE  Http!ValidIDs(values) \in Seq(Nat) /\ IDsOK(Http!ValidIDs(values), values, Len(values))
<1>1. PICK f \in [0..Len(values) -> Seq(Nat)] :
           /\ Http!ValidIDs(values) = f[Len(values)] /\ f[0] = <<>>
           /\ \A i \in 1..Len(values) : f[i] = Http!WithID(f[i - 1], values[i])
  BY ValidIDsLoop
<1> DEFINE S == {n \in Nat : n <= Len(values) => IDsOK(f[n], values, n)}
<1>2. 0 \in S
  <2>1. Http!ToSet(<<>>) = {} /\ NamedUpTo(values, 0) = {}
    BY DEF Http!ToSet, NamedUpTo
  <2>2. IsFiniteSet({}) /\ Cardinality({}) = 0
    BY FS_EmptySet
  <2>3. Len(f[0]) = 0 /\ f[0] = <<>> /\ MaxMessageActionIDs \in Nat
    BY <1>1, HttpAssumption
  <2>4. IDsOK(f[0], values, 0)
    BY <2>1, <2>2, <2>3 DEF IDsOK
  <2> QED BY <2>4
<1>3. ASSUME NEW n \in Nat, n \in S PROVE n + 1 \in S
  <2> SUFFICES ASSUME n + 1 <= Len(values) PROVE IDsOK(f[n + 1], values, n + 1)
    OBVIOUS
  <2>1. f[n] \in Seq(Nat) /\ IDsOK(f[n], values, n) /\ n + 1 \in 1..Len(values) /\ (n + 1) - 1 = n
    BY <1>3
  <2>2. f[n + 1] = Http!WithID(f[n], values[n + 1])
    BY <1>1, <2>1
  <2>3. IDsOK(Http!WithID(f[n], values[n + 1]), values, n + 1)
    BY <2>1, WithIDKeeps
  <2> QED BY <2>2, <2>3
<1>4. Len(values) \in S
  <2>1. Len(values) \in Nat
    OBVIOUS
  <2> HIDE DEF S
  <2> QED BY <1>2, <1>3, <2>1, SetInduction
<1> QED BY <1>1, <1>4

\* What the calls of the store make of the tables.
LEMMA TablesOf ==
  ASSUME NEW b, NEW msgs, NEW atts, NEW db, db = [boxes |-> b, messages |-> msgs, attachments |-> atts],
         msgs \in [DOMAIN msgs -> [box : Nat, read : BOOLEAN, sound : BOOLEAN]],
         atts \in [DOMAIN atts -> [message : DOMAIN msgs, type : STRING, safe : BOOLEAN]]
  PROVE  Tables(db) /\ db.boxes = b /\ db.messages = msgs /\ db.attachments = atts
BY DEF Tables

MessagesLeft(db, ids) == [m \in DOMAIN db.messages \ ids |-> db.messages[m]]
AttachmentsLeft(db, ids) ==
    [a \in {x \in DOMAIN db.attachments : db.attachments[x].message \notin ids} |-> db.attachments[a]]
MessagesRead(db, ids, read) ==
    [m \in DOMAIN db.messages |->
        IF m \in ids THEN [db.messages[m] EXCEPT !.read = read] ELSE db.messages[m]]

LEMMA WithoutMessagesIs ==
  ASSUME NEW db, Tables(db), NEW ids
  PROVE  LET e == Http!WithoutMessages(db, ids)
         IN  /\ Tables(e) /\ e.boxes = db.boxes
             /\ \A read : Http!Outcome(db, e, {}, ids, {}, read)
<1> DEFINE msgs == MessagesLeft(db, ids)
           atts == AttachmentsLeft(db, ids)
           q1 == [db EXCEPT !.messages = msgs]
           e == [q1 EXCEPT !.attachments = atts]
<1>0. db = [boxes |-> db.boxes, messages |-> db.messages, attachments |-> db.attachments]
  BY DEF Tables
<1>1. Http!WithoutMessages(db, ids) = e
  BY <1>0 DEF Http!WithoutMessages, MessagesLeft, AttachmentsLeft
<1>2. q1 = [boxes |-> db.boxes, messages |-> msgs, attachments |-> db.attachments]
  <2> HIDE DEF msgs
  <2> QED BY <1>0
<1> HIDE DEF q1
<1>3. e = [boxes |-> db.boxes, messages |-> msgs, attachments |-> atts]
  <2> HIDE DEF msgs, atts
  <2> QED BY <1>2
<1>4. msgs \in [DOMAIN msgs -> [box : Nat, read : BOOLEAN, sound : BOOLEAN]]
  BY DEF Tables, MessagesLeft
<1>5. atts \in [DOMAIN atts -> [message : DOMAIN msgs, type : STRING, safe : BOOLEAN]]
  <2>1. ASSUME NEW a \in DOMAIN atts
        PROVE  atts[a] \in [message : DOMAIN msgs, type : STRING, safe : BOOLEAN]
    <3>1. a \in DOMAIN db.attachments /\ db.attachments[a].message \notin ids /\ atts[a] = db.attachments[a]
      BY DEF AttachmentsLeft
    <3>2. db.attachments[a] \in [message : DOMAIN db.messages, type : STRING, safe : BOOLEAN]
      BY <3>1 DEF Tables
    <3>3. DOMAIN msgs = DOMAIN db.messages \ ids
      BY DEF MessagesLeft
    <3> QED BY <3>1, <3>2, <3>3
  <2>2. atts = [a \in DOMAIN atts |-> atts[a]]
    BY DEF AttachmentsLeft
  <2> HIDE DEF atts, msgs
  <2> QED BY <2>1, <2>2
<1> HIDE DEF e, msgs, atts
<1>6. Tables(e) /\ e.boxes = db.boxes /\ e.messages = msgs /\ e.attachments = atts
  BY <1>3, <1>4, <1>5, TablesOf
<1>7. ASSUME NEW read PROVE Http!Outcome(db, e, {}, ids, {}, read)
  <2>1. /\ DOMAIN msgs = DOMAIN db.messages \ ids
        /\ \A m \in DOMAIN msgs : msgs[m] = db.messages[m]
    BY DEF msgs, MessagesLeft
  <2>2. /\ DOMAIN atts = {a \in DOMAIN db.attachments : db.attachments[a].message \notin ids}
        /\ \A a \in DOMAIN atts : atts[a] = db.attachments[a]
    BY DEF atts, AttachmentsLeft
  <2> QED BY <1>6, <2>1, <2>2 DEF Http!Outcome
<1> QED BY <1>1, <1>6, <1>7

LEMMA WithReadIs ==
  ASSUME NEW db, Tables(db), NEW ids, NEW read \in BOOLEAN
  PROVE  LET e == Http!WithRead(db, ids, read)
         IN  Tables(e) /\ Http!Outcome(db, e, {}, {}, ids, read)
<1> DEFINE msgs == MessagesRead(db, ids, read)
           e == [db EXCEPT !.messages = msgs]
<1>0. db = [boxes |-> db.boxes, messages |-> db.messages, attachments |-> db.attachments]
  BY DEF Tables
<1>1. Http!WithRead(db, ids, read) = e
  BY <1>0 DEF Http!WithRead, MessagesRead
<1>2. e = [boxes |-> db.boxes, messages |-> msgs, attachments |-> db.attachments]
  <2> HIDE DEF msgs
  <2> QED BY <1>0
<1>3. ASSUME NEW m \in DOMAIN db.messages
      PROVE  /\ msgs[m] \in [box : Nat, read : BOOLEAN, sound : BOOLEAN]
             /\ msgs[m] = IF m \in ids THEN [db.messages[m] EXCEPT !.read = read] ELSE db.messages[m]
  <2>1. db.messages[m] \in [box : Nat, read : BOOLEAN, sound : BOOLEAN]
    BY DEF Tables
  <2>2. msgs[m] = IF m \in ids THEN [db.messages[m] EXCEPT !.read = read] ELSE db.messages[m]
    BY DEF MessagesRead
  <2> HIDE DEF msgs
  <2> QED BY <2>1, <2>2
<1>4. DOMAIN msgs = DOMAIN db.messages /\ msgs = [m \in DOMAIN msgs |-> msgs[m]]
  BY DEF MessagesRead
<1>5. db.attachments \in [DOMAIN db.attachments -> [message : DOMAIN msgs, type : STRING, safe : BOOLEAN]]
  BY <1>4 DEF Tables
<1> HIDE DEF e, msgs
<1>6. msgs \in [DOMAIN msgs -> [box : Nat, read : BOOLEAN, sound : BOOLEAN]]
  BY <1>3, <1>4
<1>7. Tables(e) /\ e.boxes = db.boxes /\ e.messages = msgs /\ e.attachments = db.attachments
  BY <1>2, <1>5, <1>6, TablesOf
<1>8. Http!Outcome(db, e, {}, {}, ids, read)
  BY <1>3, <1>4, <1>7 DEF Http!Outcome
<1> QED BY <1>1, <1>7, <1>8

InBoxes(db, ids) == {m \in DOMAIN db.messages : db.messages[m].box \in ids}

LEMMA WithoutMailboxIs ==
  ASSUME NEW db, Tables(db), NEW id
  PROVE  LET e == Http!WithoutMailbox(db, id)
         IN  Tables(e) /\ Http!Outcome(db, e, {id}, InBoxes(db, {id}), {}, FALSE)
<1> DEFINE ids == {m \in DOMAIN db.messages : db.messages[m].box = id}
           e == Http!WithoutMessages(db, ids)
           b == e.boxes \ {id}
           g == [e EXCEPT !.boxes = b]
<1>1. Tables(e) /\ Http!Outcome(db, e, {}, ids, {}, FALSE)
  <2> HIDE DEF ids
  <2> QED BY WithoutMessagesIs
<1>2. Http!WithoutMailbox(db, id) = g
  BY DEF Http!WithoutMailbox
<1>3. ids = InBoxes(db, {id})
  BY DEF InBoxes
<1> HIDE DEF e, b, ids
<1>4. g = [boxes |-> b, messages |-> e.messages, attachments |-> e.attachments]
  <2>1. e = [boxes |-> e.boxes, messages |-> e.messages, attachments |-> e.attachments]
    BY <1>1 DEF Tables
  <2> QED BY <2>1
<1> HIDE DEF g
<1>5. Tables(g) /\ g.boxes = b /\ g.messages = e.messages /\ g.attachments = e.attachments
  BY <1>1, <1>4, TablesOf DEF Tables
<1>6. Http!Outcome(db, g, {id}, ids, {}, FALSE)
  BY <1>1, <1>5 DEF Http!Outcome, b
<1> QED BY <1>2, <1>3, <1>5, <1>6

LEMMA EmptyIs ==
  /\ Tables(Http!Empty) /\ Http!Empty.boxes = {}
  /\ DOMAIN Http!Empty.messages = {} /\ DOMAIN Http!Empty.attachments = {}
<1>1. <<>> = [x \in {} |-> 0] /\ DOMAIN <<>> = {}
  OBVIOUS
<1> DEFINE a == <<>>
           none == {}
<1>2. a \in [DOMAIN a -> [box : Nat, read : BOOLEAN, sound : BOOLEAN]]
  BY <1>1
<1>3. a \in [DOMAIN a -> [message : DOMAIN a, type : STRING, safe : BOOLEAN]]
  BY <1>1
<1>4. Http!Empty = [boxes |-> none, messages |-> a, attachments |-> a]
  BY DEF Http!Empty
<1>5. DOMAIN a = none
  BY <1>1
<1> HIDE DEF a, none
<1>6. Tables(Http!Empty)
  BY <1>2, <1>3, <1>4, TablesOf
<1>7. Http!Empty.boxes = none /\ Http!Empty.messages = a /\ Http!Empty.attachments = a
  BY <1>4
<1> QED BY <1>5, <1>6, <1>7 DEF none

\* What a response has, and the responses that change nothing and show no page.
LEMMA ReplyIs ==
  ASSUME NEW status, NEW db
  PROVE  /\ Http!Reply(status, db).status = status /\ Http!Reply(status, db).db = db
         /\ Http!Reply(status, db).shows = "json"
BY DEF Http!Reply

LEMMA ShowingIs ==
  ASSUME NEW what, NEW db
  PROVE  /\ Http!Showing(what, db).status = 200 /\ Http!Showing(what, db).db = db
         /\ Http!Showing(what, db).shows = what
BY DEF Http!Showing, Http!Reply

Quiet(r, db) == r.db = db /\ r.shows \notin {"page", "inline"}

LEMMA QuietHandlers ==
  ASSUME NEW req, NEW db, NEW fails, NEW raw
  PROVE  /\ Quiet(Http!ListMessages(req, db, fails, raw), db)
         /\ Quiet(Http!ListCalendarEvents(req, db, fails, raw), db)
         /\ Quiet(Http!GetMessageSource(req, db, fails, raw), db)
         /\ Quiet(Http!InspectMessage(req, db, fails, raw), db)
         /\ Quiet(Http!SendTest(req, db, fails), db)
<1>1. Quiet(Http!ListMessages(req, db, fails, raw), db)
  BY ReplyIs DEF Quiet, Http!ListMessages
<1>2. Quiet(Http!ListCalendarEvents(req, db, fails, raw), db)
  BY ReplyIs DEF Quiet, Http!ListCalendarEvents
<1>3. Quiet(Http!GetMessageSource(req, db, fails, raw), db)
  BY ReplyIs, ShowingIs DEF Quiet, Http!GetMessageSource
<1>4. Quiet(Http!InspectMessage(req, db, fails, raw), db)
  BY ReplyIs, ShowingIs DEF Quiet, Http!InspectMessage
<1>5. Quiet(Http!SendTest(req, db, fails), db)
  BY DEF Quiet, Http!SendTest, Http!Reply
<1> QED BY <1>1, <1>2, <1>3, <1>4, <1>5

LEMMA QuietReplies ==
  ASSUME NEW db, NEW status, NEW what, what \notin {"page", "inline"}
  PROVE  Quiet(Http!Reply(status, db), db) /\ Quiet(Http!Showing(what, db), db)
BY ReplyIs, ShowingIs DEF Quiet

\* The requests that may change something; the path of one with an id has no
\* word in its place.
Reads(req) == Http!Asks(req, "GET", <<Http!API, "messages", Http!NoWord>>)
Acts(req) == Http!Asks(req, "POST", <<Http!API, "messages", "actions">>)
Drops(req) == Http!Asks(req, "DELETE", <<Http!API, "mailboxes", Http!NoWord>>)
Wipes(req) == Http!Asks(req, "POST", <<Http!API, "reset">>)
Plain(req) == ~(Reads(req) \/ Acts(req) \/ Drops(req) \/ Wipes(req))

\* A path with one segment after the API and this name.
Under(req, name) == Len(req.path) = 3 /\ req.path[1].w = Http!API /\ req.path[2].w = name

\* The handler of a request, as far as it matters: the others are quiet.
LEMMA Dispatch ==
  ASSUME NEW req, req.path \in Seq(Segments), NEW db, NEW fails
  PROVE  LET r == Http!Handle(req, db, fails)
             rest == SubSeq(req.path, 3, Len(req.path))
         IN  \/ Plain(req) /\ Quiet(r, db)
             \/ req.method = "DELETE" /\ Under(req, "mailboxes") /\ r = Http!DeleteMailbox(req, db, fails, rest)
             \/ Acts(req) /\ r = Http!MessageActions(req, db, fails)
             \/ req.method = "GET" /\ Under(req, "messages") /\ r = Http!GetMessage(req, db, fails, rest)
             \/ Plain(req) /\ r = Http!GetAttachment(req, db, fails, rest)
             \/ Wipes(req) /\ r = Http!WipeAll(db, fails)
             \/ /\ Plain(req) /\ r = Http!ServeStatic(req, db)
                /\ ~(Len(req.path) >= 2 /\ req.path[1].w = Http!API)
<1> DEFINE p == req.path
           words == [i \in 1..Len(p) |-> p[i].w]
           rest == SubSeq(p, 3, Len(p))
           inner == IF Len(p) > 3 THEN Http!Front(rest) ELSE rest
           r == Http!Handle(req, db, fails)
           under(name) == Len(p) >= 3 /\ words[1] = Http!API /\ words[2] = name
           ends(name) == Http!Last(words) = name
           c1 == words = <<"openapi.json">>
           c2 == words = <<Http!API, "mailboxes">>
           c3 == under("mailboxes") /\ Len(p) = 3
           c4 == under("mailboxes") /\ ends("messages")
           c5 == under("mailboxes") /\ ends("events")
           c6 == words = <<Http!API, "messages", "actions">>
           c7 == under("messages") /\ ends("source")
           c8 == under("messages") /\ ends("inspect")
           c9 == under("messages") /\ Len(p) = 3
           c10 == under("attachments") /\ Len(p) = 3
           c11 == words = <<Http!API, "events">>
           c12 == words = <<Http!API, "reset">>
           c13 == words = <<Http!API, "send-test">>
           c14 == Len(p) >= 2 /\ words[1] = Http!API
           get == req.method = "GET"
           post == req.method = "POST"
           delete == req.method = "DELETE"
<1>1. /\ Len(p) >= 2 => words[1] = p[1].w
      /\ Len(p) >= 3 => words[1] = p[1].w /\ words[2] = p[2].w
      /\ Len(p) \in Nat /\ Len(words) = Len(p)
  OBVIOUS
<1>2. /\ Reads(req) <=> get /\ words = <<Http!API, "messages", Http!NoWord>>
      /\ Acts(req) <=> post /\ c6
      /\ Drops(req) <=> delete /\ words = <<Http!API, "mailboxes", Http!NoWord>>
      /\ Wipes(req) <=> post /\ c12
  BY DEF Reads, Acts, Drops, Wipes, Http!Asks
<1>3. \A raw : /\ Quiet(Http!ListMessages(req, db, fails, raw), db)
               /\ Quiet(Http!ListCalendarEvents(req, db, fails, raw), db)
               /\ Quiet(Http!GetMessageSource(req, db, fails, raw), db)
               /\ Quiet(Http!InspectMessage(req, db, fails, raw), db)
               /\ Quiet(Http!SendTest(req, db, fails), db)
  BY QuietHandlers
<1>4. /\ \A status : Quiet(Http!Reply(status, db), db)
      /\ Quiet(Http!Showing("openapi", db), db) /\ Quiet(Http!Showing("stream", db), db)
  BY QuietReplies
<1>5. r = IF c1 THEN IF req.method \in {"GET", "HEAD"} THEN Http!Showing("openapi", db) ELSE Http!Reply(405, db)
          ELSE IF get /\ c2 THEN Http!Reply(IF fails THEN 500 ELSE 200, db)
          ELSE IF delete /\ c3 THEN Http!DeleteMailbox(req, db, fails, rest)
          ELSE IF get /\ c4 THEN Http!ListMessages(req, db, fails, inner)
          ELSE IF get /\ c5 THEN Http!ListCalendarEvents(req, db, fails, inner)
          ELSE IF post /\ c6 THEN Http!MessageActions(req, db, fails)
          ELSE IF get /\ c7 THEN Http!GetMessageSource(req, db, fails, inner)
          ELSE IF get /\ c8 THEN Http!InspectMessage(req, db, fails, inner)
          ELSE IF get /\ c9 THEN Http!GetMessage(req, db, fails, rest)
          ELSE IF get /\ c10 THEN Http!GetAttachment(req, db, fails, rest)
          ELSE IF get /\ c11 THEN Http!Showing("stream", db)
          ELSE IF post /\ c12 THEN Http!WipeAll(db, fails)
          ELSE IF post /\ c13 THEN Http!SendTest(req, db, fails)
          ELSE IF c14 THEN Http!Reply(404, db)
          ELSE Http!ServeStatic(req, db)
  BY DEF Http!Handle
\* The requests that may change something reach their handlers.
<1>6. ASSUME Reads(req) PROVE c9 /\ ~c1 /\ ~c2 /\ ~c4 /\ ~c5 /\ ~c7 /\ ~c8
  <2>1. words = <<"api", "messages", Http!NoWord>>
    BY <1>2, <1>6 DEF Http!API
  <2>2. Len(words) = 3 /\ words[1] = "api" /\ words[2] = "messages" /\ Http!Last(words) = Http!NoWord
    BY <2>1 DEF Http!Last
  <2>3. Http!NoWord \notin {"messages", "events", "source", "inspect"}
    BY Zenon DEF Http!NoWord
  <2> HIDE DEF words
  <2> QED BY <1>1, <2>2, <2>3 DEF Http!API
<1>7. ASSUME Drops(req) PROVE c3 /\ ~c1
  <2>1. words = <<"api", "mailboxes", Http!NoWord>>
    BY <1>2, <1>7 DEF Http!API
  <2>2. Len(words) = 3 /\ words[1] = "api" /\ words[2] = "mailboxes"
    BY <2>1
  <2> HIDE DEF words
  <2> QED BY <1>1, <2>2 DEF Http!API
<1>8. c6 => ~c1 /\ ~c12
  <2> HIDE DEF words
  <2> QED OBVIOUS
<1>9. c12 => ~c1
  <2> HIDE DEF words
  <2> QED OBVIOUS
<1>10. /\ c3 <=> Under(req, "mailboxes")
       /\ c9 <=> Under(req, "messages")
       /\ c14 <=> Len(p) >= 2 /\ p[1].w = Http!API
  <2> HIDE DEF words
  <2>0. Len(p) = 3 => Len(p) >= 3 /\ words[1] = p[1].w /\ words[2] = p[2].w
    BY <1>1
  <2>1. c3 <=> Under(req, "mailboxes")
    BY <2>0, Zenon DEF Under
  <2>2. c9 <=> Under(req, "messages")
    BY <2>0, Zenon DEF Under
  <2>3. c14 <=> Len(p) >= 2 /\ p[1].w = Http!API
    BY <1>1
  <2> QED BY <2>1, <2>2, <2>3
<1> DEFINE Drop == delete /\ Under(req, "mailboxes") /\ r = Http!DeleteMailbox(req, db, fails, rest)
           Act == Acts(req) /\ r = Http!MessageActions(req, db, fails)
           Show == get /\ Under(req, "messages") /\ r = Http!GetMessage(req, db, fails, rest)
           Attach == r = Http!GetAttachment(req, db, fails, rest)
           Wipe == Wipes(req) /\ r = Http!WipeAll(db, fails)
           Static == r = Http!ServeStatic(req, db) /\ ~(Len(p) >= 2 /\ p[1].w = Http!API)
<1> HIDE DEF r, c1, c2, c3, c4, c5, c6, c7, c8, c9, c10, c11, c12, c13, c14, rest, inner, words
<1>11. Reads(req) => Show
  BY <1>2, <1>5, <1>6, <1>10
<1>12. Acts(req) => Act
  BY <1>2, <1>5, <1>8
<1>13. Drops(req) => Drop
  BY <1>2, <1>5, <1>7, <1>10
<1>14. Wipes(req) => Wipe
  BY <1>2, <1>5, <1>8, <1>9
<1>15. Quiet(r, db) \/ Drop \/ Act \/ Show \/ Attach \/ Wipe \/ Static
  BY <1>2, <1>3, <1>4, <1>5, <1>10
<1> QED BY <1>11, <1>12, <1>13, <1>14, <1>15 DEF Plain, r, rest

\* No request is of two of these kinds.
LEMMA KindsApart ==
  ASSUME NEW req
  PROVE  /\ Reads(req) => ~Acts(req) /\ ~Drops(req) /\ ~Wipes(req)
         /\ Drops(req) => ~Reads(req) /\ ~Acts(req) /\ ~Wipes(req)
         /\ Acts(req) => ~Reads(req) /\ ~Drops(req) /\ ~Wipes(req)
         /\ Wipes(req) => ~Reads(req) /\ ~Acts(req) /\ ~Drops(req)
<1> DEFINE words == [i \in 1..Len(req.path) |-> req.path[i].w]
<1>1. /\ Reads(req) <=> req.method = "GET" /\ words = <<Http!API, "messages", Http!NoWord>>
      /\ Acts(req) <=> req.method = "POST" /\ words = <<Http!API, "messages", "actions">>
      /\ Drops(req) <=> req.method = "DELETE" /\ words = <<Http!API, "mailboxes", Http!NoWord>>
      /\ Wipes(req) <=> req.method = "POST" /\ words = <<Http!API, "reset">>
  BY DEF Reads, Acts, Drops, Wipes, Http!Asks
<1>2. <<Http!API, "messages", "actions">> # <<Http!API, "reset">>
  OBVIOUS
<1> HIDE DEF words
<1> QED BY <1>1, <1>2

\* An id in a path.
LEMMA ParsedIDIs ==
  ASSUME NEW raw PROVE Http!ParsedID(raw) = {} \/ \E x : Http!ParsedID(raw) = {x}
BY DEF Http!ParsedID

LEMMA TheParsedID ==
  ASSUME NEW raw, Http!ParsedID(raw) # {}
  PROVE  Http!ParsedID(raw) = {CHOOSE id \in Http!ParsedID(raw) : TRUE}
<1>1. PICK x : Http!ParsedID(raw) = {x}
  BY ParsedIDIs
<1> QED BY <1>1

\* A path that ends with an id has no word there.
LEMMA NumberHasNoWord ==
  ASSUME NEW req, req.path \in Seq(Segments), NEW name, Under(req, name),
         Http!ParsedID(SubSeq(req.path, 3, Len(req.path))) # {}
  PROVE  [i \in 1..Len(req.path) |-> req.path[i].w] = <<Http!API, name, Http!NoWord>>
<1> DEFINE p == req.path
           rest == SubSeq(p, 3, Len(p))
<1>1. Len(p) = 3 /\ p[1].w = Http!API /\ p[2].w = name
  BY DEF Under
<1>2. rest[1] = p[3] /\ p[3] \in Segments
  BY <1>1
<1>3. rest[1].num
  <2> HIDE DEF rest
  <2> QED BY DEF Http!ParsedID, rest
<1>4. p[3].w = Http!NoWord
  BY <1>2, <1>3 DEF Segments
<1> QED BY <1>1, <1>4

\* What the requests that may change something do.
ReadDone(raw, db, e) ==
    /\ Http!ParsedID(raw) # {} /\ Http!ParsedID(raw) \subseteq DOMAIN db.messages
    /\ Http!Outcome(db, e, {}, {}, Http!ParsedID(raw), TRUE)
DropDone(raw, db, e) ==
    /\ Http!ParsedID(raw) # {} /\ Http!ParsedID(raw) \subseteq db.boxes
    /\ Http!Outcome(db, e, Http!ParsedID(raw), InBoxes(db, Http!ParsedID(raw)), {}, FALSE)
ActDone(req, db, e) ==
    LET deletes == req.body.action = "delete"
    IN  /\ Cardinality(Http!Named(req)) \in 1..MaxMessageActionIDs
        /\ Http!Outcome(db, e, {}, IF deletes THEN Http!Named(req) ELSE {},
                        IF deletes THEN {} ELSE Http!Named(req), req.body.action = "read")
WipeDone(e) == e.boxes = {} /\ DOMAIN e.messages = {} /\ DOMAIN e.attachments = {}

\* A handler that changes rows or shows them.
LEMMA DeleteMailboxAnswer ==
  ASSUME NEW req, NEW db, Tables(db), NEW fails, NEW raw
  PROVE  LET r == Http!DeleteMailbox(req, db, fails, raw)
         IN  /\ Tables(r.db) /\ (r.status # 200 => r.db = db) /\ r.shows = "json"
             /\ r.status = 200 => DropDone(raw, db, r.db)
<1> DEFINE r == Http!DeleteMailbox(req, db, fails, raw)
           id == CHOOSE m \in Http!ParsedID(raw) : TRUE
           e == Http!WithoutMailbox(db, id)
           refused == Http!ParsedID(raw) = {} \/ fails \/ ~Http!ParsedID(raw) \subseteq db.boxes
<1>1. (\E status \in {400, 500, 404} : r = Http!Reply(status, db)) \/ (~refused /\ r = Http!Reply(200, e))
  <2> HIDE DEF id
  <2>1. r = IF Http!ParsedID(raw) = {} THEN Http!Reply(400, db)
            ELSE IF fails THEN Http!Reply(500, db)
            ELSE IF ~Http!ParsedID(raw) \subseteq db.boxes THEN Http!Reply(404, db)
            ELSE Http!Reply(200, e)
    BY DEF Http!DeleteMailbox, id
  <2> HIDE DEF r, e
  <2> QED BY <2>1
<1>2. Tables(e) /\ Http!Outcome(db, e, {id}, InBoxes(db, {id}), {}, FALSE)
  <2> HIDE DEF id
  <2> QED BY WithoutMailboxIs
<1>3. Http!ParsedID(raw) # {} => Http!ParsedID(raw) = {id}
  BY TheParsedID
<1> DEFINE Answers == /\ Tables(r.db) /\ (r.status # 200 => r.db = db) /\ r.shows = "json"
                      /\ r.status = 200 => DropDone(raw, db, r.db)
<1> HIDE DEF r, e, id
<1>4. ASSUME ~refused, r = Http!Reply(200, e) PROVE Answers
  <2>1. r.db = e /\ r.status = 200 /\ r.shows = "json"
    BY <1>4, ReplyIs
  <2>2. DropDone(raw, db, e)
    BY <1>2, <1>3, <1>4 DEF DropDone
  <2> QED BY <1>2, <2>1, <2>2
<1>5. ASSUME NEW status \in {400, 500, 404}, r = Http!Reply(status, db) PROVE Answers
  <2>1. r.db = db /\ r.status = status /\ r.shows = "json"
    BY <1>5, ReplyIs
  <2> QED BY <2>1
<1>6. Answers
  BY <1>1, <1>4, <1>5
<1> QED BY <1>6 DEF r

LEMMA WipeAllAnswer ==
  ASSUME NEW db, Tables(db), NEW fails
  PROVE  LET r == Http!WipeAll(db, fails)
         IN  /\ Tables(r.db) /\ (r.status # 200 => r.db = db) /\ r.shows = "json"
             /\ r.status = 200 => WipeDone(r.db)
BY ReplyIs, EmptyIs DEF Http!WipeAll, WipeDone

LEMMA GetMessageAnswer ==
  ASSUME NEW req, NEW db, Tables(db), NEW fails, NEW raw
  PROVE  LET r == Http!GetMessage(req, db, fails, raw)
         IN  /\ Tables(r.db) /\ (r.status # 200 => r.db = db) /\ r.shows \in {"json", "message"}
             /\ r.status = 200 => ReadDone(raw, db, r.db)
<1> DEFINE r == Http!GetMessage(req, db, fails, raw)
           id == CHOOSE m \in Http!ParsedID(raw) : TRUE
           e == Http!WithRead(db, {id}, TRUE)
           refused == Http!ParsedID(raw) = {} \/ fails \/ ~Http!ParsedID(raw) \subseteq DOMAIN db.messages
<1>1. (\E status \in {400, 500, 404} : r = Http!Reply(status, db)) \/ (~refused /\ r = Http!Showing("message", e))
  <2> HIDE DEF id
  <2>1. r = IF Http!ParsedID(raw) = {} THEN Http!Reply(400, db)
            ELSE IF fails THEN Http!Reply(500, db)
            ELSE IF ~Http!ParsedID(raw) \subseteq DOMAIN db.messages THEN Http!Reply(404, db)
            ELSE IF ~db.messages[id].sound THEN Http!Reply(500, db) ELSE Http!Showing("message", e)
    BY DEF Http!GetMessage, id
  <2> HIDE DEF r, e
  <2> QED BY <2>1
<1>2. Tables(e) /\ Http!Outcome(db, e, {}, {}, {id}, TRUE)
  <2> HIDE DEF id
  <2> QED BY WithReadIs
<1>3. Http!ParsedID(raw) # {} => Http!ParsedID(raw) = {id}
  BY TheParsedID
<1> DEFINE Answers == /\ Tables(r.db) /\ (r.status # 200 => r.db = db) /\ r.shows \in {"json", "message"}
                      /\ r.status = 200 => ReadDone(raw, db, r.db)
<1> HIDE DEF r, e, id
<1>4. ASSUME ~refused, r = Http!Showing("message", e) PROVE Answers
  <2>1. r.db = e /\ r.status = 200 /\ r.shows = "message"
    BY <1>4, ShowingIs
  <2>2. ReadDone(raw, db, e)
    BY <1>2, <1>3, <1>4 DEF ReadDone
  <2> QED BY <1>2, <2>1, <2>2
<1>5. ASSUME NEW status \in {400, 500, 404}, r = Http!Reply(status, db) PROVE Answers
  <2>1. r.db = db /\ r.status = status /\ r.shows = "json"
    BY <1>5, ReplyIs
  <2> QED BY <2>1
<1>6. Answers
  BY <1>1, <1>4, <1>5
<1> QED BY <1>6 DEF r

LEMMA GetAttachmentAnswer ==
  ASSUME NEW req, NEW db, NEW fails, NEW raw
  PROVE  LET r == Http!GetAttachment(req, db, fails, raw)
         IN  /\ r.db = db /\ r.shows # "page"
             /\ r.shows = "inline" => \E a \in Http!ParsedID(raw) :
                  \/ db.attachments[a].type = "inert"
                  \/ db.attachments[a].type = "svg" /\ db.attachments[a].safe
<1> DEFINE r == Http!GetAttachment(req, db, fails, raw)
           id == CHOOSE a \in Http!ParsedID(raw) : TRUE
           att == db.attachments[id]
<1>1. CASE Http!ParsedID(raw) = {} \/ fails \/ ~Http!ParsedID(raw) \subseteq DOMAIN db.attachments
  BY <1>1, ReplyIs DEF Http!GetAttachment
<1>2. CASE ~(Http!ParsedID(raw) = {} \/ fails \/ ~Http!ParsedID(raw) \subseteq DOMAIN db.attachments)
  <2>1. id \in Http!ParsedID(raw)
    BY <1>2
  <2>2. r = IF req.query.cid /\ att.type = "svg" /\ ~req.query.download
            THEN IF att.safe THEN Http!Showing("inline", db) ELSE Http!Reply(422, db)
            ELSE Http!Showing(IF ~req.query.download /\ att.type = "inert" THEN "inline" ELSE "attachment", db)
    BY <1>2 DEF Http!GetAttachment
  <2> HIDE DEF r, id
  <2>3. /\ r.db = db /\ r.shows # "page"
        /\ r.shows = "inline" => att.type = "inert" \/ (att.type = "svg" /\ att.safe)
    BY <2>2, ReplyIs, ShowingIs
  <2> QED BY <2>1, <2>3 DEF r
<1> QED BY <1>1, <1>2

LEMMA SameCardinality == ASSUME NEW T PROVE Http!Cardinality(T) = Cardinality(T)
BY DEF Http!Cardinality, Cardinality

\* An action that succeeds acts on every message that its ids name, and on no other.
LEMMA MessageActionsAnswer ==
  ASSUME NEW req, req.body.ids \in Seq(Segments), NEW db, Tables(db), NEW fails
  PROVE  LET r == Http!MessageActions(req, db, fails)
         IN  /\ Tables(r.db) /\ (r.status # 200 => r.db = db) /\ r.shows = "json"
             /\ r.status = 200 => ActDone(req, db, r.db)
<1> DEFINE r == Http!MessageActions(req, db, fails)
           values == req.body.ids
           ids == Http!ValidIDs(values)
           named == Http!ToSet(ids)
           refused == \/ ~req.body.valid \/ ids = <<>> \/ Len(ids) > MaxMessageActionIDs
                      \/ req.body.action \notin {"delete", "read", "unread"}
           e == IF req.body.action = "delete" THEN Http!WithoutMessages(db, named)
                ELSE Http!WithRead(db, named, req.body.action = "read")
<1>1. r = IF refused THEN Http!Reply(400, db) ELSE IF fails THEN Http!Reply(500, db) ELSE Http!Reply(200, e)
  BY DEF Http!MessageActions
<1>2. ids \in Seq(Nat) /\ IDsOK(ids, values, Len(values))
  BY ValidIDsAre
<1>3. Http!Named(req) = NamedUpTo(values, Len(values))
  <2>1. \A x : x \in Http!Named(req) <=> \E j \in 1..Len(values) : values[j].num /\ x = values[j].id
    BY DEF Http!Named, Http!ToSet
  <2>2. \A x : x \in NamedUpTo(values, Len(values)) <=> \E j \in 1..Len(values) : values[j].num /\ x = values[j].id
    BY DEF NamedUpTo
  <2> QED BY <2>1, <2>2
<1>4. CASE refused \/ fails
  <2>1. r = Http!Reply(400, db) \/ r = Http!Reply(500, db)
    BY <1>1, <1>4
  <2> HIDE DEF r
  <2>2. r.status # 200 /\ r.db = db /\ r.shows = "json"
    BY <2>1, ReplyIs
  <2> QED BY <2>2 DEF r
<1>5. CASE ~(refused \/ fails)
  <2>0. MaxMessageActionIDs \in Nat
    BY HttpAssumption
  <2>1. r = Http!Reply(200, e) /\ Len(ids) <= MaxMessageActionIDs /\ ids # <<>>
    <3> HIDE DEF ids, r
    <3> QED BY <1>1, <1>2, <1>5, <2>0
  <2>2. named = Http!Named(req) /\ Cardinality(named) = Len(ids) /\ Len(ids) \in Nat \ {0}
    <3> HIDE DEF ids
    <3> QED BY <1>2, <1>3, <2>1 DEF IDsOK
  <2>3. Cardinality(Http!Named(req)) \in 1..MaxMessageActionIDs
    <3> HIDE DEF ids, named
    <3> QED BY <2>0, <2>1, <2>2
  <2> HIDE DEF named, ids, r
  <2>4. /\ Tables(e)
        /\ Http!Outcome(db, e, {}, IF req.body.action = "delete" THEN named ELSE {},
                        IF req.body.action = "delete" THEN {} ELSE named, req.body.action = "read")
    <3>1. CASE req.body.action = "delete"
      <4>1. Tables(e) /\ \A read : Http!Outcome(db, e, {}, named, {}, read)
        BY <3>1, WithoutMessagesIs
      <4> HIDE DEF e
      <4> QED BY <3>1, <4>1
    <3>2. CASE req.body.action # "delete"
      <4> DEFINE read == req.body.action = "read"
      <4>1. e = Http!WithRead(db, named, read) /\ read \in BOOLEAN
        BY <3>2
      <4> HIDE DEF e, read
      <4>2. Tables(e) /\ Http!Outcome(db, e, {}, {}, named, read)
        BY <4>1, WithReadIs
      <4> QED BY <3>2, <4>2 DEF read
    <3> QED BY <3>1, <3>2
  <2> HIDE DEF e
  <2>5. r.db = e /\ r.status = 200 /\ r.shows = "json"
    BY <2>1, ReplyIs
  <2> QED BY <2>2, <2>3, <2>4, <2>5 DEF r, ActDone
<1> QED BY <1>4, <1>5

\* What ServeStatic answers.
LEMMA ServeStaticAnswer ==
  ASSUME NEW req, NEW db
  PROVE  LET r == Http!ServeStatic(req, db) IN r.db = db /\ r.shows # "inline"
BY ReplyIs, ShowingIs DEF Http!ServeStatic

\* What the answer to a request says, kind by kind.
LEMMA DoneIs ==
  ASSUME NEW req, NEW db, NEW e
  PROVE  LET rest == SubSeq(req.path, 3, Len(req.path))
         IN  /\ Reads(req) /\ ReadDone(rest, db, e) => Http!Done(req, db, e)
             /\ Drops(req) /\ DropDone(rest, db, e) => Http!Done(req, db, e)
             /\ Acts(req) /\ ActDone(req, db, e) => Http!Done(req, db, e)
             /\ Wipes(req) /\ WipeDone(e) => Http!Done(req, db, e)
             /\ Plain(req) /\ e = db => Http!Done(req, db, e)
<1> DEFINE rest == SubSeq(req.path, 3, Len(req.path))
           R == ReadDone(rest, db, e)
           D == DropDone(rest, db, e)
           A == ActDone(req, db, e)
           W == WipeDone(e)
<1>1. Http!Done(req, db, e) <=>
         /\ Reads(req) => R
         /\ Acts(req) => A
         /\ Drops(req) => D
         /\ Wipes(req) => W
         /\ Plain(req) => e = db
  BY SameCardinality, Zenon
     DEF Http!Done, Reads, Acts, Drops, Wipes, Plain, ReadDone, DropDone, ActDone, WipeDone, InBoxes
<1> HIDE DEF R, D, A, W
<1>2. /\ Reads(req) /\ R => Http!Done(req, db, e)
      /\ Drops(req) /\ D => Http!Done(req, db, e)
      /\ Acts(req) /\ A => Http!Done(req, db, e)
      /\ Wipes(req) /\ W => Http!Done(req, db, e)
      /\ Plain(req) /\ e = db => Http!Done(req, db, e)
  BY <1>1, KindsApart DEF Plain
<1> QED BY <1>2 DEF R, D, A, W

\* The API does what it answers, and leaves tables that its next request can be given.
LEMMA HandleExact ==
  ASSUME NEW req \in Requests, NEW db, Tables(db), NEW fails \in BOOLEAN
  PROVE  Http!AnswerExact(req, db, fails) /\ Tables(Http!Handle(req, db, fails).db)
<1> DEFINE r == Http!Handle(req, db, fails)
           rest == SubSeq(req.path, 3, Len(req.path))
           Inline(a) == \/ db.attachments[a].type = "inert"
                        \/ db.attachments[a].type = "svg" /\ db.attachments[a].safe
           Same == r.status # 200 => r.db = db
           Did == r.status = 200 => Http!Done(req, db, r.db)
           Page == r.shows = "page" => ~(Len(req.path) >= 2 /\ req.path[1].w = Http!API)
           Shown == r.shows = "inline" => \E a \in Http!ParsedID(rest) : Inline(a)
           All == Tables(r.db) /\ Same /\ Did /\ Page /\ Shown
<1>1. req.path \in Seq(Segments) /\ req.body.ids \in Seq(Segments)
  BY HttpAssumption
<1>2. \/ Plain(req) /\ Quiet(r, db)
      \/ req.method = "DELETE" /\ Under(req, "mailboxes") /\ r = Http!DeleteMailbox(req, db, fails, rest)
      \/ Acts(req) /\ r = Http!MessageActions(req, db, fails)
      \/ req.method = "GET" /\ Under(req, "messages") /\ r = Http!GetMessage(req, db, fails, rest)
      \/ Plain(req) /\ r = Http!GetAttachment(req, db, fails, rest)
      \/ Wipes(req) /\ r = Http!WipeAll(db, fails)
      \/ /\ Plain(req) /\ r = Http!ServeStatic(req, db)
         /\ ~(Len(req.path) >= 2 /\ req.path[1].w = Http!API)
  BY <1>1, Dispatch
<1>3. /\ Reads(req) /\ ReadDone(rest, db, r.db) => Http!Done(req, db, r.db)
      /\ Drops(req) /\ DropDone(rest, db, r.db) => Http!Done(req, db, r.db)
      /\ Acts(req) /\ ActDone(req, db, r.db) => Http!Done(req, db, r.db)
      /\ Wipes(req) /\ WipeDone(r.db) => Http!Done(req, db, r.db)
      /\ Plain(req) /\ r.db = db => Http!Done(req, db, r.db)
  BY DoneIs
<1>4. req.method = "GET" /\ Under(req, "messages") /\ Http!ParsedID(rest) # {} => Reads(req)
  BY <1>1, NumberHasNoWord DEF Reads, Http!Asks
<1>5. req.method = "DELETE" /\ Under(req, "mailboxes") /\ Http!ParsedID(rest) # {} => Drops(req)
  BY <1>1, NumberHasNoWord DEF Drops, Http!Asks
<1> HIDE DEF r
<1>6. All
  <2> HIDE DEF rest
  <2>1. CASE Plain(req) /\ Quiet(r, db)
    BY <1>3, <2>1 DEF Quiet
  <2>2. CASE req.method = "DELETE" /\ Under(req, "mailboxes") /\ r = Http!DeleteMailbox(req, db, fails, rest)
    <3>1. /\ Tables(r.db) /\ Same /\ r.shows = "json"
          /\ r.status = 200 => DropDone(rest, db, r.db)
      BY <2>2, DeleteMailboxAnswer
    <3>2. r.status = 200 => Drops(req)
      BY <1>5, <2>2, <3>1 DEF DropDone
    <3> QED BY <1>3, <3>1, <3>2
  <2>3. CASE Acts(req) /\ r = Http!MessageActions(req, db, fails)
    <3>1. /\ Tables(r.db) /\ Same /\ r.shows = "json"
          /\ r.status = 200 => ActDone(req, db, r.db)
      BY <1>1, <2>3, MessageActionsAnswer
    <3> QED BY <1>3, <2>3, <3>1
  <2>4. CASE req.method = "GET" /\ Under(req, "messages") /\ r = Http!GetMessage(req, db, fails, rest)
    <3>1. /\ Tables(r.db) /\ Same /\ r.shows \in {"json", "message"}
          /\ r.status = 200 => ReadDone(rest, db, r.db)
      BY <2>4, GetMessageAnswer
    <3>2. r.status = 200 => Reads(req)
      BY <1>4, <2>4, <3>1 DEF ReadDone
    <3> QED BY <1>3, <3>1, <3>2
  <2>5. CASE Plain(req) /\ r = Http!GetAttachment(req, db, fails, rest)
    <3>1. r.db = db /\ r.shows # "page" /\ Shown
      BY <2>5, GetAttachmentAnswer
    <3> QED BY <1>3, <2>5, <3>1
  <2>6. CASE Wipes(req) /\ r = Http!WipeAll(db, fails)
    <3>1. /\ Tables(r.db) /\ Same /\ r.shows = "json"
          /\ r.status = 200 => WipeDone(r.db)
      BY <2>6, WipeAllAnswer
    <3> QED BY <1>3, <2>6, <3>1
  <2>7. CASE /\ Plain(req) /\ r = Http!ServeStatic(req, db)
             /\ ~(Len(req.path) >= 2 /\ req.path[1].w = Http!API)
    <3>1. r.db = db /\ r.shows # "inline"
      BY <2>7, ServeStaticAnswer
    <3> QED BY <1>3, <2>7, <3>1
  <2> QED BY <1>2, <2>1, <2>2, <2>3, <2>4, <2>5, <2>6, <2>7
<1>7. r.shows = "page" => Len(req.path) < 2 \/ req.path[1] # Http!W(Http!API)
  <2>1. Http!W(Http!API).w = Http!API /\ Len(req.path) \in Nat
    BY <1>1 DEF Http!W
  <2> QED BY <1>6, <2>1
<1>8. Http!AnswerExact(req, db, fails)
  <2> DEFINE Paged == r.shows = "page" => Len(req.path) < 2 \/ req.path[1] # Http!W(Http!API)
  <2>1. Http!AnswerExact(req, db, fails) <=> Same /\ Did /\ Paged /\ Shown
    BY DEF Http!AnswerExact, r
  <2>2. Paged
    BY <1>7
  <2> HIDE DEF Same, Did, Paged, Shown
  <2> QED BY <1>6, <2>1, <2>2
<1> QED BY <1>6, <1>8 DEF r

\* The API does what it answers, for every sequence of requests to tables of any size.
THEOREM FeedsAnswersExact == FeedsSpec => []AnswersExact
<1> DEFINE Inv == job = "http" => Tables(kept)
<1>1. FeedsInit => Inv
  BY HttpAssumption DEF FeedsInit, InitFeed
<1>2. Inv /\ [FeedsNext]_vars => Inv'
  <2> SUFFICES ASSUME Inv, [FeedsNext]_vars, job' = "http" PROVE Tables(kept')
    BY DEF Tables
  <2>1. ASSUME NEW req \in Requests, NEW fails \in BOOLEAN, FeedHttp(req, fails) PROVE Tables(kept')
    BY <2>1, HandleExact DEF FeedHttp
  <2>2. CASE UNCHANGED vars
    BY <2>2 DEF vars, feedVars
  <2> QED BY <2>1, <2>2 DEF FeedsNext, FeedCalendar, FeedHistory, FeedHtml, FeedWire, DataStep, feedVars
<1>3. Inv => AnswersExact
  BY HandleExact DEF AnswersExact
<1> QED BY <1>1, <1>2, <1>3, PTL DEF FeedsSpec

-----------------------------------------------------------------------------
(* The sanitizer. *)

SanitizerFields == {"containers", "open", "malformed", "emitted", "out"}

Active(token) == Html!Opens(token) /\ Html!IsActiveContent(token.n)
Recovers(token) == Html!Opens(token) /\ Html!IsActiveRecovery(token.n)

\* The last element of a name has an index, 0 when there is none.
LEMMA LastIndexIs ==
  ASSUME NEW names, Len(names) \in Nat, NEW name PROVE Html!LastIndex(names, name) \in 0..Len(names)
<1> DEFINE at == {i \in 1..Len(names) : names[i] = name}
<1>1. Html!Max(at) = Max(at)
  BY DEF Html!Max, Max
<1>2. at # {} => Max(at) \in 1..Len(names)
  <2>1. at \subseteq 1..Len(names)
    OBVIOUS
  <2> HIDE DEF at
  <2> QED BY <2>1, MaxOfIndices
<1>3. Html!LastIndex(names, name) = IF at = {} THEN 0 ELSE Max(at)
  BY <1>1 DEF Html!LastIndex
<1> HIDE DEF at
<1> QED BY <1>2, <1>3

\* The token is written, by a sanitizer that drops nothing or stops dropping.
Written(s, token, u) ==
    /\ u.out = Append(s.out, token) /\ ~Active(token) /\ u.containers = <<>>
    /\ \/ s.containers = <<>> /\ u.malformed = s.malformed
       \/ /\ s.containers # <<>> /\ u.malformed = FALSE
          /\ token.t = "end" \/ (s.malformed /\ Recovers(token))

\* The token is dropped.
Dropped(s, token, u) ==
    /\ u.out = s.out
    /\ \/ s.containers = <<>> /\ Active(token) /\ u.malformed = s.malformed
          /\ \E x : u.containers = Append(s.containers, x)
       \/ s.containers # <<>> /\ Active(token)
          /\ \/ u.containers = s.containers
             \/ \E x : u.containers = Append(s.containers, x)
       \/ s.containers # <<>> /\ ~Active(token) /\ u.containers = s.containers /\ u.malformed = s.malformed
       \/ s.containers # <<>> /\ ~Active(token) /\ token.t = "end"
          /\ \E n \in 0..Len(s.containers) : u.containers = SubSeq(s.containers, 1, n)

LEMMA ResetIs ==
  ASSUME NEW s, DOMAIN s = SanitizerFields, NEW u, u = Html!Reset(s)
  PROVE  DOMAIN u = SanitizerFields /\ u.containers = <<>> /\ u.malformed = FALSE /\ u.out = s.out
BY DEF Html!Reset, SanitizerFields

LEMMA EmitIs ==
  ASSUME NEW s, DOMAIN s = SanitizerFields, NEW token, NEW u, u = Html!Emit(s, token)
  PROVE  /\ DOMAIN u = SanitizerFields /\ u.containers = s.containers /\ u.malformed = s.malformed
         /\ u.out = Append(s.out, token)
BY DEF Html!Emit, SanitizerFields

Pushed(s, u) ==
    /\ DOMAIN u = SanitizerFields /\ u.malformed = s.malformed /\ u.out = s.out
    /\ \E x : u.containers = Append(s.containers, x)

LEMMA PushIs ==
  ASSUME NEW s, DOMAIN s = SanitizerFields, NEW name, NEW u, u = Html!Push(s, name)
  PROVE  Pushed(s, u)
BY DEF Html!Push, SanitizerFields, Pushed

LEMMA DropStartIs ==
  ASSUME NEW s, DOMAIN s = SanitizerFields, s.containers # <<>>,
         NEW token, Html!Opens(token), NEW u, u = Html!DropStart(s, token)
  PROVE  DOMAIN u = SanitizerFields /\ (Written(s, token, u) \/ Dropped(s, token, u))
<1>1. CASE Html!IsActiveContent(token.n)
  <2>1. PICK w : w = [s EXCEPT !.malformed = TRUE]
    OBVIOUS
  <2>2. DOMAIN w = SanitizerFields /\ w.out = s.out /\ w.containers = s.containers
    BY <2>1 DEF SanitizerFields
  <2>3. u = w \/ u = Html!Push(w, token.n)
    BY <1>1, <2>1 DEF Html!DropStart
  <2>4. /\ DOMAIN u = SanitizerFields /\ u.out = s.out
        /\ u.containers = s.containers \/ \E x : u.containers = Append(s.containers, x)
    <3>1. CASE u = w
      BY <2>2, <3>1
    <3>2. CASE u = Html!Push(w, token.n)
      <4>1. DOMAIN u = SanitizerFields /\ u.out = w.out /\ \E x : u.containers = Append(w.containers, x)
        <5>1. Pushed(w, u)
          BY <2>2, <3>2, PushIs
        <5> QED BY <5>1 DEF Pushed
      <4> QED BY <2>2, <4>1
    <3> QED BY <2>3, <3>1, <3>2
  <2> QED BY <1>1, <2>4 DEF Dropped, Active
<1>2. CASE ~Html!IsActiveContent(token.n) /\ s.malformed /\ s.open.len = 0 /\ Html!IsActiveRecovery(token.n)
  <2>1. PICK w : w = Html!Reset(s)
    OBVIOUS
  <2>2. DOMAIN w = SanitizerFields /\ w.containers = <<>> /\ w.malformed = FALSE /\ w.out = s.out
    BY <2>1, ResetIs
  <2>3. u = Html!Emit(w, token)
    BY <1>2, <2>1 DEF Html!DropStart
  <2>4. DOMAIN u = SanitizerFields /\ u.containers = <<>> /\ u.malformed = FALSE /\ u.out = Append(s.out, token)
    BY <2>2, <2>3, EmitIs
  <2> QED BY <1>2, <2>4 DEF Written, Active, Recovers
<1>3. CASE ~Html!IsActiveContent(token.n) /\ ~(s.malformed /\ s.open.len = 0 /\ Html!IsActiveRecovery(token.n))
  <2>1. u = s \/ u = [s EXCEPT !.open = Html!Grow(s.open, token.n)]
    BY <1>3 DEF Html!DropStart
  <2>2. /\ DOMAIN u = SanitizerFields /\ u.out = s.out /\ u.containers = s.containers
        /\ u.malformed = s.malformed
    BY <2>1 DEF SanitizerFields
  <2> QED BY <1>3, <2>2 DEF Dropped, Active
<1> QED BY <1>1, <1>2, <1>3

LEMMA DropEndIs ==
  ASSUME NEW s, DOMAIN s = SanitizerFields, s.containers # <<>>, NEW C, s.containers \in Seq(C),
         NEW token, token.t = "end", NEW u, u = Html!DropEnd(s, token)
  PROVE  DOMAIN u = SanitizerFields /\ (Written(s, token, u) \/ Dropped(s, token, u))
<1>1. PICK inner : inner = Html!LastIndex(Html!Elements(s.open), token.n)
  OBVIOUS
<1>2. PICK index : index = Html!LastIndex(Html!ContainerNames(s), token.n)
  OBVIOUS
<1>3. PICK back : back = Html!LastIndex(s.emitted, token.n)
  OBVIOUS
<1>4. PICK N : N = Len(s.containers) /\ N \in Nat
  OBVIOUS
<1>5. index \in 0..N
  <2> DEFINE names == Html!ContainerNames(s)
  <2>1. Len(names) = N
    BY <1>4 DEF Html!ContainerNames
  <2> HIDE DEF names
  <2>2. Html!LastIndex(names, token.n) \in 0..Len(names)
    BY <1>4, <2>1, LastIndexIs
  <2> QED BY <1>2, <2>1, <2>2 DEF names
<1>6. ~Active(token)
  BY DEF Active, Html!Opens
<1>7. u = IF inner > 0 THEN [s EXCEPT !.open = Html!Cut(s.open, inner - 1)]
          ELSE IF index = 1 THEN Html!Reset(s)
          ELSE IF index > 1
               THEN [s EXCEPT !.containers = SubSeq(s.containers, 1, index - 1),
                              !.open = Html!Cut(s.open, s.containers[index].depth)]
          ELSE IF back > 0 THEN Html!Emit(Html!Reset(s), token)
          ELSE s
  BY <1>1, <1>2, <1>3 DEF Html!DropEnd
<1>8. CASE u = s \/ u = [s EXCEPT !.open = Html!Cut(s.open, inner - 1)]
  <2>1. /\ DOMAIN u = SanitizerFields /\ u.out = s.out /\ u.containers = s.containers
        /\ u.malformed = s.malformed
    BY <1>8 DEF SanitizerFields
  <2> QED BY <1>6, <2>1 DEF Dropped
<1>9. CASE u = Html!Reset(s)
  <2>1. DOMAIN u = SanitizerFields /\ u.containers = <<>> /\ u.out = s.out
    BY <1>9, ResetIs
  <2>2. <<>> = SubSeq(s.containers, 1, 0) /\ 0 \in 0..Len(s.containers)
    BY <1>4
  <2>3. \E n \in 0..Len(s.containers) : u.containers = SubSeq(s.containers, 1, n)
    BY <2>1, <2>2
  <2> QED BY <1>6, <2>1, <2>3 DEF Dropped
<1>10. CASE index > 1 /\ u = [s EXCEPT !.containers = SubSeq(s.containers, 1, index - 1),
                                       !.open = Html!Cut(s.open, s.containers[index].depth)]
  <2>1. DOMAIN u = SanitizerFields /\ u.containers = SubSeq(s.containers, 1, index - 1) /\ u.out = s.out
    BY <1>10 DEF SanitizerFields
  <2>2. index - 1 \in 0..Len(s.containers)
    BY <1>4, <1>5, <1>10
  <2>3. \E n \in 0..Len(s.containers) : u.containers = SubSeq(s.containers, 1, n)
    BY <2>1, <2>2
  <2> QED BY <1>6, <2>1, <2>3 DEF Dropped
<1>11. CASE u = Html!Emit(Html!Reset(s), token)
  <2>1. PICK w : w = Html!Reset(s)
    OBVIOUS
  <2>2. DOMAIN w = SanitizerFields /\ w.containers = <<>> /\ w.malformed = FALSE /\ w.out = s.out
    BY <2>1, ResetIs
  <2>3. DOMAIN u = SanitizerFields /\ u.containers = <<>> /\ u.malformed = FALSE /\ u.out = Append(s.out, token)
    BY <1>11, <2>1, <2>2, EmitIs
  <2> QED BY <1>6, <2>3 DEF Written
<1> QED BY <1>7, <1>8, <1>9, <1>10, <1>11

LEMMA RewriteIs ==
  ASSUME NEW s, DOMAIN s = SanitizerFields, NEW C, s.containers \in Seq(C),
         NEW token, NEW u, u = Html!Rewrite(s, token)
  PROVE  DOMAIN u = SanitizerFields /\ (Written(s, token, u) \/ Dropped(s, token, u))
<1>1. CASE s.containers = <<>> /\ Active(token)
  <2>1. u = Html!Push(s, token.n)
    BY <1>1 DEF Html!Rewrite, Active
  <2>2. /\ DOMAIN u = SanitizerFields /\ u.malformed = s.malformed /\ u.out = s.out
        /\ \E x : u.containers = Append(s.containers, x)
    <3>1. Pushed(s, u)
      BY <2>1, PushIs
    <3> QED BY <3>1 DEF Pushed
  <2> QED BY <1>1, <2>2 DEF Dropped
<1>2. CASE s.containers = <<>> /\ ~Active(token)
  <2>1. u = Html!Emit(s, token)
    BY <1>2 DEF Html!Rewrite, Active
  <2>2. /\ DOMAIN u = SanitizerFields /\ u.containers = s.containers /\ u.malformed = s.malformed
        /\ u.out = Append(s.out, token)
    BY <2>1, EmitIs
  <2> QED BY <1>2, <2>2 DEF Written
<1>3. CASE s.containers # <<>> /\ Html!Opens(token)
  <2>1. u = Html!DropStart(s, token)
    BY <1>3 DEF Html!Rewrite
  <2> QED BY <1>3, <2>1, DropStartIs
<1>4. CASE s.containers # <<>> /\ ~Html!Opens(token) /\ token.t = "end"
  <2>1. u = Html!DropEnd(s, token)
    BY <1>4 DEF Html!Rewrite
  <2> QED BY <1>4, <2>1, DropEndIs
<1>5. CASE s.containers # <<>> /\ ~Html!Opens(token) /\ token.t # "end"
  <2>1. u = s
    BY <1>5 DEF Html!Rewrite
  <2> QED BY <1>5, <2>1 DEF Dropped, Active
<1> QED BY <1>1, <1>2, <1>3, <1>4, <1>5

-----------------------------------------------------------------------------
\* A sequence is also one of a larger set.
LEMMA Wider ==
  ASSUME NEW C, NEW s \in Seq(C), NEW x PROVE Append(s, x) \in Seq(C \cup {x}) /\ Append(s, x) # <<>>
<1>1. s \in Seq(C \cup {x})
  <2>1. Len(s) \in Nat /\ s \in [1..Len(s) -> C]
    OBVIOUS
  <2>2. s \in [1..Len(s) -> C \cup {x}]
    BY <2>1
  <2> QED BY <2>1, <2>2
<1> QED BY <1>1

\* One more token.
LEMMA OneMoreToken ==
  ASSUME NEW T, NEW tokens \in Seq(T), NEW token \in T, NEW more, more = Append(tokens, token),
         NEW n, n = Len(tokens)
  PROVE  /\ n \in Nat /\ more \in Seq(T) /\ Len(more) = n + 1 /\ more[n + 1] = token
         /\ \A i \in 1..n : more[i] = tokens[i]
OBVIOUS

\* The active start tags of a longer document.
Longer(tokens, token, more, n) ==
    /\ Html!ActiveAt(tokens) \subseteq 1..n
    /\ Html!ActiveAt(more) = Html!ActiveAt(tokens) \cup {i \in {n + 1} : Active(token)}

LEMMA MoreActive ==
  ASSUME NEW T, NEW tokens \in Seq(T), NEW token \in T, NEW more, more = Append(tokens, token),
         NEW n, n = Len(tokens)
  PROVE  Longer(tokens, token, more, n)
<1>1. /\ n \in Nat /\ Len(more) = n + 1 /\ more[n + 1] = token
      /\ \A i \in 1..n : more[i] = tokens[i]
  BY OneMoreToken
<1>2. Html!ActiveAt(tokens) = {i \in 1..n : Active(tokens[i])}
  BY DEF Html!ActiveAt, Active
<1>3. Html!ActiveAt(more) = {i \in 1..(n + 1) : Active(more[i])}
  BY <1>1 DEF Html!ActiveAt, Active
<1> QED BY <1>1, <1>2, <1>3 DEF Longer

\* What drops in a longer document dropped before, and goes on dropping.
Silent(tokens, token, more, i) ==
    /\ Html!Dropping(tokens, i) /\ token.t # "end"
    /\ Recovers(token) => Html!ActiveAt(more) = {i}

LEMMA StillDropping ==
  ASSUME NEW T, NEW tokens \in Seq(T), NEW token \in T, NEW more, more = Append(tokens, token),
         NEW i \in Html!ActiveAt(tokens), Html!Dropping(more, i)
  PROVE  Silent(tokens, token, more, i)
<1>1. PICK n : n = Len(tokens)
  OBVIOUS
<1>2. /\ n \in Nat /\ Len(more) = n + 1 /\ more[n + 1] = token
      /\ \A j \in 1..n : more[j] = tokens[j]
  BY <1>1, OneMoreToken
<1>3. i \in 1..n /\ Html!ActiveAt(tokens) \subseteq Html!ActiveAt(more)
  <2>1. Longer(tokens, token, more, n)
    BY <1>1, MoreActive, Zenon
  <2> QED BY <2>1 DEF Longer
<1>4. /\ \A j \in (i + 1)..(n + 1) : more[j].t # "end"
      /\ (\A j \in (i + 1)..(n + 1) : ~Recovers(more[j])) \/ Html!ActiveAt(more) = {i}
  BY <1>2 DEF Html!Dropping, Recovers
<1>5. n + 1 \in (i + 1)..(n + 1) /\ \A j \in (i + 1)..n : j \in (i + 1)..(n + 1) /\ more[j] = tokens[j]
  BY <1>2, <1>3
<1>6. /\ \A j \in (i + 1)..n : tokens[j].t # "end"
      /\ (\A j \in (i + 1)..n : ~Recovers(tokens[j])) \/ Html!ActiveAt(more) = {i}
  BY <1>4, <1>5
<1>7. Html!ActiveAt(more) = {i} => Html!ActiveAt(tokens) = {i}
  BY <1>3
<1>8. Html!Dropping(tokens, i)
  BY <1>1, <1>6, <1>7 DEF Html!Dropping, Recovers
<1> QED BY <1>2, <1>4, <1>5, <1>8 DEF Silent

\* What the sanitizer has written of these tokens.
Page(tokens, s) ==
    /\ tokens \in Seq(Tokens) /\ DOMAIN s = SanitizerFields /\ s.out \in Seq(Tokens)
    /\ \E C : s.containers \in Seq(C)
    /\ \A k \in 1..Len(s.out) : ~Active(s.out[k])
    /\ Len(s.out) <= Len(tokens)
    /\ Html!ActiveAt(tokens) = {} => s.containers = <<>> /\ ~s.malformed
    /\ \A i \in Html!ActiveAt(tokens) :
         Html!Dropping(tokens, i) =>
            /\ s.containers # <<>> /\ Len(s.out) < i
            /\ Html!ActiveAt(tokens) = {i} => ~s.malformed

LEMMA PageStep ==
  ASSUME NEW tokens, NEW s, Page(tokens, s), NEW token \in Tokens,
         NEW more, more = Append(tokens, token), NEW u, u = Html!Rewrite(s, token)
  PROVE  Page(more, u)
<1> DEFINE A == Html!ActiveAt(tokens)
           B == Html!ActiveAt(more)
<1>1. /\ tokens \in Seq(Tokens) /\ DOMAIN s = SanitizerFields /\ s.out \in Seq(Tokens)
      /\ \A k \in 1..Len(s.out) : ~Active(s.out[k])
      /\ Len(s.out) <= Len(tokens)
      /\ A = {} => s.containers = <<>> /\ ~s.malformed
  BY DEF Page
<1>2. PICK C : s.containers \in Seq(C)
  BY DEF Page
<1>3. DOMAIN u = SanitizerFields /\ (Written(s, token, u) \/ Dropped(s, token, u))
  BY <1>1, <1>2, RewriteIs
<1>4. PICK n : n = Len(tokens)
  OBVIOUS
<1>5. n \in Nat /\ more \in Seq(Tokens) /\ Len(more) = n + 1
  BY <1>1, <1>4, OneMoreToken
<1>6. A \subseteq 1..n /\ B = A \cup {i \in {n + 1} : Active(token)}
  <2>1. Longer(tokens, token, more, n)
    BY <1>1, <1>4, MoreActive, Zenon
  <2> QED BY <2>1 DEF Longer
<1>7. ASSUME NEW i \in A, Html!Dropping(more, i)
      PROVE  /\ s.containers # <<>> /\ Len(s.out) < i /\ token.t # "end"
             /\ A = {i} => ~s.malformed
             /\ Recovers(token) => B = {i}
  <2>1. Html!Dropping(tokens, i) /\ token.t # "end" /\ (Recovers(token) => B = {i})
    <3>1. Silent(tokens, token, more, i)
      BY <1>1, <1>7, StillDropping, Zenon
    <3> QED BY <3>1 DEF Silent
  <2>2. s.containers # <<>> /\ Len(s.out) < i /\ (A = {i} => ~s.malformed)
    BY <2>1 DEF Page
  <2> QED BY <2>1, <2>2
<1> HIDE DEF A, B
<1>8. CASE Written(s, token, u)
  <2>1. u.out = Append(s.out, token) /\ ~Active(token) /\ u.containers = <<>>
    BY <1>8 DEF Written
  <2>2. B = A
    BY <1>6, <2>1
  <2>3. /\ u.out \in Seq(Tokens) /\ Len(u.out) <= Len(more)
        /\ \A k \in 1..Len(u.out) : ~Active(u.out[k])
    BY <1>1, <1>4, <1>5, <2>1
  <2>4. B = {} => u.containers = <<>> /\ ~u.malformed
    BY <1>1, <1>8, <2>1, <2>2 DEF Written
  <2>5. ASSUME NEW i \in B, Html!Dropping(more, i) PROVE FALSE
    <3>1. s.containers # <<>> /\ token.t # "end" /\ (A = {i} => ~s.malformed) /\ (Recovers(token) => B = {i})
      BY <1>7, <2>2, <2>5
    <3>2. s.malformed /\ Recovers(token)
      BY <1>8, <3>1 DEF Written
    <3> QED BY <2>2, <3>1, <3>2
  <2>6. u.containers \in Seq(C)
    BY <2>1
  <2> QED BY <1>3, <1>5, <2>3, <2>4, <2>5, <2>6 DEF Page, B
<1>9. CASE Dropped(s, token, u)
  <2>1. u.out = s.out
    BY <1>9 DEF Dropped
  <2>2. /\ u.out \in Seq(Tokens) /\ Len(u.out) <= n /\ Len(u.out) \in Nat
        /\ \A k \in 1..Len(u.out) : ~Active(u.out[k])
    BY <1>1, <1>4, <2>1
  <2>3. \E D : u.containers \in Seq(D)
    <3>1. ASSUME NEW x, u.containers = Append(s.containers, x) PROVE u.containers \in Seq(C \cup {x})
      BY <1>2, <3>1, Wider
    <3>2. ASSUME NEW k \in 0..Len(s.containers), u.containers = SubSeq(s.containers, 1, k)
          PROVE  u.containers \in Seq(C)
      BY <1>2, <3>2
    <3>3. CASE u.containers = s.containers
      BY <1>2, <3>3
    <3> QED BY <1>9, <3>1, <3>2, <3>3 DEF Dropped
  <2>4. ASSUME NEW x, u.containers = Append(s.containers, x) PROVE u.containers # <<>>
    BY <1>2, <2>4, Wider
  <2>5. ASSUME Active(token) PROVE u.containers # <<>>
    BY <1>9, <2>4, <2>5 DEF Dropped
  <2>6. Active(token) => token.t # "end"
    BY DEF Active, Html!Opens
  <2>7. B = {} => u.containers = <<>> /\ ~u.malformed
    <3> SUFFICES ASSUME B = {} PROVE u.containers = <<>> /\ ~u.malformed
      OBVIOUS
    <3>1. A = {} /\ ~Active(token)
      BY <1>6
    <3> QED BY <1>1, <1>9, <3>1 DEF Dropped
  <2>8. ASSUME NEW i \in B, Html!Dropping(more, i)
        PROVE  u.containers # <<>> /\ Len(u.out) < i /\ (B = {i} => ~u.malformed)
    <3>1. CASE i \in A
      <4>1. /\ s.containers # <<>> /\ Len(s.out) < i /\ token.t # "end"
            /\ A = {i} => ~s.malformed
        BY <1>7, <2>8, <3>1
      <4>2. u.containers # <<>>
        BY <1>9, <2>5, <4>1 DEF Dropped
      <4>3. ASSUME B = {i} PROVE ~u.malformed
        <5>1. ~Active(token) /\ A = {i}
          BY <1>5, <1>6, <3>1, <4>3
        <5> QED BY <1>9, <4>1, <5>1 DEF Dropped
      <4> QED BY <2>1, <4>1, <4>2, <4>3
    <3>2. CASE i = n + 1 /\ Active(token)
      <4>1. u.containers # <<>> /\ Len(u.out) < i
        BY <1>5, <2>2, <2>5, <3>2
      <4>2. ASSUME B = {i} PROVE ~u.malformed
        <5>1. A = {}
          BY <1>5, <1>6, <3>2, <4>2
        <5> QED BY <1>1, <1>9, <3>2, <5>1 DEF Dropped
      <4> QED BY <4>1, <4>2
    <3> QED BY <1>6, <3>1, <3>2
  <2>9. Len(u.out) <= Len(more)
    BY <1>5, <2>2
  <2> QED BY <1>3, <1>5, <2>2, <2>3, <2>7, <2>8, <2>9 DEF Page, B
<1> QED BY <1>3, <1>8, <1>9

HtmlInv == job = "html" => Page(fed, kept)

LEMMA EmptyPage == Page(<<>>, Html!InitialSanitizer)
<1>1. PICK s : s = Html!InitialSanitizer
  OBVIOUS
<1>2. DOMAIN s = SanitizerFields /\ s.out = <<>> /\ s.containers = <<>> /\ s.malformed = FALSE
  BY <1>1 DEF Html!InitialSanitizer, SanitizerFields
<1>3. Html!ActiveAt(<<>>) = {}
  BY DEF Html!ActiveAt
<1>4. <<>> \in Seq(Tokens) /\ <<>> \in Seq({}) /\ Len(<<>>) = 0
  OBVIOUS
<1>5. Page(<<>>, s)
  BY <1>2, <1>3, <1>4 DEF Page
<1> QED BY <1>1, <1>5

-----------------------------------------------------------------------------
(* The sanitizer on a well-nested document. *)

LEMMA OutsideStepType ==
  ASSUME NEW tokens \in Seq(Tokens), NEW k \in 1..Len(tokens), NEW s \in Seq(Tokens)
  PROVE  (IF Html!IsOutside(tokens, k) THEN Append(s, tokens[k]) ELSE s) \in Seq(Tokens)
<1>1. tokens[k] \in Tokens
  OBVIOUS
<1> QED BY <1>1

\* The tokens outside are what the definition says.
LEMMA OutsideIs ==
  ASSUME NEW tokens \in Seq(Tokens)
  PROVE  LET o == Html!OutsideUpTo(tokens)
         IN  /\ o \in [0..Len(tokens) -> Seq(Tokens)] /\ o[0] = <<>>
             /\ \A k \in 1..Len(tokens) :
                  o[k] = IF Html!IsOutside(tokens, k) THEN Append(o[k - 1], tokens[k]) ELSE o[k - 1]
<1> DEFINE N == Len(tokens)
           V == Seq(Tokens)
           a == <<>>
           Out(s, k) == IF Html!IsOutside(tokens, k) THEN Append(s, tokens[k]) ELSE s
           G == [t \in V \X (1..N) |-> Out(t[1], t[2])]
           Is(f) == f = [k \in 0..N |-> IF k = 0 THEN a ELSE Out(f[k - 1], k)]
           g == CHOOSE h : Is(h)
<1>1. N \in Nat /\ a \in V
  OBVIOUS
<1>2. G \in [V \X (1..N) -> V]
  <2>1. ASSUME NEW t \in V \X (1..N) PROVE Out(t[1], t[2]) \in V
    <3>1. t[1] \in V /\ t[2] \in 1..N
      OBVIOUS
    <3> QED BY <3>1, OutsideStepType
  <2> HIDE DEF N, V, Out
  <2> QED BY <2>1
<1>3. PICK f : Loops(f, N, V, a, G)
  <2> HIDE DEF G, N, V, a
  <2> QED BY <1>1, <1>2, Iteration
<1> HIDE DEF Out
<1>4. ASSUME NEW i \in 1..N PROVE f[i] = Out(f[i - 1], i)
  <2>1. i - 1 \in 0..N
    OBVIOUS
  <2>2. <<f[i - 1], i>> \in V \X (1..N)
    BY <1>3, <2>1 DEF Loops
  <2> HIDE DEF V
  <2> QED BY <1>3, <2>2 DEF Loops
<1>5. Is(f)
  <2> HIDE DEF a
  <2> QED BY <1>3, <1>4 DEF Loops
<1>6. Is(g)
  <2> HIDE DEF Is
  <2> QED BY <1>5, Zenon
<1>7. Html!OutsideUpTo(tokens) = g
  BY DEF Html!OutsideUpTo, Out
<1> HIDE DEF g, a
<1>8. DOMAIN g = 0..N /\ g[0] = a /\ \A i \in 1..N : g[i] = Out(g[i - 1], i)
  <2> DEFINE Piece(i) == IF i = 0 THEN a ELSE Out(g[i - 1], i)
  <2>1. g = [i \in 0..N |-> Piece(i)]
    BY <1>6
  <2> HIDE DEF Piece
  <2>2. DOMAIN g = 0..N /\ \A i \in 0..N : g[i] = Piece(i)
    BY <2>1
  <2>3. Piece(0) = a /\ \A i \in 1..N : Piece(i) = Out(g[i - 1], i)
    BY DEF Piece
  <2> QED BY <1>1, <2>2, <2>3
<1>9. \A n \in Nat : n <= N => g[n] = f[n]
  <2> DEFINE S == {n \in Nat : n <= N => g[n] = f[n]}
  <2>1. 0 \in S
    BY <1>3, <1>8 DEF Loops
  <2>2. ASSUME NEW n \in Nat, n \in S PROVE n + 1 \in S
    <3> SUFFICES ASSUME n + 1 <= N PROVE g[n + 1] = f[n + 1]
      OBVIOUS
    <3>1. n + 1 \in 1..N /\ (n + 1) - 1 = n /\ g[n] = f[n]
      BY <2>2
    <3>2. g[n + 1] = Out(g[n], n + 1) /\ f[n + 1] = Out(f[n], n + 1)
      BY <1>4, <1>8, <3>1
    <3> QED BY <3>1, <3>2
  <2>3. \A n \in Nat : n \in S
    <3> HIDE DEF S
    <3> QED BY <2>1, <2>2, SetInduction
  <2> QED BY <2>3
<1>10. g \in [0..N -> V]
  <2>1. \A i \in 0..N : g[i] \in V
    BY <1>3, <1>9 DEF Loops
  <2>2. g = [i \in 0..N |-> g[i]]
    BY <1>6, <1>8
  <2> HIDE DEF V, N
  <2> QED BY <2>1, <2>2
<1> QED BY <1>7, <1>8, <1>10 DEF Out, a

LEMMA SameHtmlNumbers ==
  ASSUME NEW T PROVE Html!Max(T) = Max(T) /\ Html!Min(T) = Min(T) /\ Html!Cardinality(T) = Cardinality(T)
BY DEF Html!Max, Max, Html!Min, Min, Html!Cardinality, Cardinality

IsOpening(token) == token.t = "start" /\ ~Html!IsVoid(token.n)

\* How one more token changes the level.
LEMMA LevelStep ==
  ASSUME NEW tokens \in Seq(Tokens), NEW i \in 0..(Len(tokens) - 1)
  PROVE  LET before == Html!Level(tokens, i)
             after == Html!Level(tokens, i + 1)
             token == tokens[i + 1]
         IN  /\ before \in Int /\ after \in Int
             /\ IsOpening(token) => after = before + 1
             /\ token.t = "end" => after = before - 1
             /\ ~IsOpening(token) /\ token.t # "end" => after = before
<1> DEFINE N == Len(tokens)
           O(x) == {k \in Html!OpeningTags(tokens) : k <= x}
           E(x) == {k \in 1..x : tokens[k].t = "end"}
<1>1. N \in Nat /\ i \in Nat /\ i + 1 \in 1..N /\ IsFiniteSet(1..N)
  BY FS_Interval
<1>2. Html!OpeningTags(tokens) = {k \in 1..N : IsOpening(tokens[k])}
  BY DEF Html!OpeningTags, IsOpening
<1>3. O(i) \subseteq 1..N /\ E(i) \subseteq 1..N /\ O(i + 1) \subseteq 1..N /\ E(i + 1) \subseteq 1..N
  BY <1>1, <1>2
<1>4. /\ IsFiniteSet(O(i)) /\ IsFiniteSet(E(i)) /\ IsFiniteSet(O(i + 1)) /\ IsFiniteSet(E(i + 1))
  <2> HIDE DEF O, E, N
  <2> QED BY <1>1, <1>3, FS_Subset
<1>5. /\ Cardinality(O(i)) \in Nat /\ Cardinality(E(i)) \in Nat
      /\ Cardinality(O(i + 1)) \in Nat /\ Cardinality(E(i + 1)) \in Nat
  <2> HIDE DEF O, E
  <2> QED BY <1>4, FS_CardinalityType
<1>6. /\ Html!Level(tokens, i) = Cardinality(O(i)) - Cardinality(E(i))
      /\ Html!Level(tokens, i + 1) = Cardinality(O(i + 1)) - Cardinality(E(i + 1))
  BY SameHtmlNumbers DEF Html!Level
<1>7. ASSUME IsOpening(tokens[i + 1]) PROVE Cardinality(O(i + 1)) = Cardinality(O(i)) + 1
  <2>1. O(i + 1) = O(i) \cup {i + 1} /\ i + 1 \notin O(i)
    BY <1>1, <1>2, <1>7
  <2> HIDE DEF O
  <2> QED BY <1>4, <2>1, FS_AddElement
<1>8. ASSUME ~IsOpening(tokens[i + 1]) PROVE Cardinality(O(i + 1)) = Cardinality(O(i))
  <2>1. O(i + 1) = O(i)
    BY <1>1, <1>2, <1>8
  <2> QED BY <2>1
<1>9. ASSUME tokens[i + 1].t = "end" PROVE Cardinality(E(i + 1)) = Cardinality(E(i)) + 1
  <2>1. E(i + 1) = E(i) \cup {i + 1} /\ i + 1 \notin E(i)
    BY <1>1, <1>9
  <2> HIDE DEF E
  <2> QED BY <1>4, <2>1, FS_AddElement
<1>10. ASSUME tokens[i + 1].t # "end" PROVE Cardinality(E(i + 1)) = Cardinality(E(i))
  <2>1. E(i + 1) = E(i)
    BY <1>1, <1>10
  <2> QED BY <2>1
<1>11. IsOpening(tokens[i + 1]) => tokens[i + 1].t # "end"
  BY DEF IsOpening
<1> HIDE DEF O, E
<1> QED BY <1>5, <1>6, <1>7, <1>8, <1>9, <1>10, <1>11

LEMMA LevelType ==
  ASSUME NEW tokens \in Seq(Tokens), NEW i \in 0..Len(tokens) PROVE Html!Level(tokens, i) \in Int
<1>1. CASE i < Len(tokens)
  <2>1. i \in 0..(Len(tokens) - 1)
    BY <1>1
  <2> QED BY <2>1, LevelStep
<1>2. CASE i = Len(tokens) /\ i > 0
  <2>1. i - 1 \in 0..(Len(tokens) - 1) /\ (i - 1) + 1 = i
    BY <1>2
  <2> QED BY <2>1, LevelStep
<1>3. CASE i = 0
  <2> DEFINE O == {k \in Html!OpeningTags(tokens) : k <= 0}
             E == {k \in 1..0 : tokens[k].t = "end"}
  <2>1. O = {} /\ E = {}
    BY DEF Html!OpeningTags
  <2>2. Html!Level(tokens, 0) = Cardinality(O) - Cardinality(E)
    BY SameHtmlNumbers DEF Html!Level
  <2> HIDE DEF O, E
  <2> QED BY <1>3, <2>1, <2>2, FS_EmptySet
<1> QED BY <1>1, <1>2, <1>3

\* Where an element ends.
LEMMA EndingIs ==
  ASSUME NEW tokens \in Seq(Tokens), NEW i \in 1..Len(tokens), NEW e, e = Html!Ending(tokens, i)
  PROVE  /\ e \in Nat
         /\ e > 0 => /\ e \in (i + 1)..Len(tokens) /\ Html!Level(tokens, e) < Html!Level(tokens, i)
                     /\ \A x \in (i + 1)..(e - 1) : ~(Html!Level(tokens, x) < Html!Level(tokens, i))
         /\ \A j \in (i + 1)..Len(tokens) : Html!Level(tokens, j) < Html!Level(tokens, i) => e > 0 /\ e <= j
<1> DEFINE N == Len(tokens)
           at == {j \in (i + 1)..N : Html!Level(tokens, j) < Html!Level(tokens, i)}
<1>1. N \in Nat /\ at \subseteq 1..N
  OBVIOUS
<1>2. e = IF at = {} THEN 0 ELSE Min(at)
  BY SameHtmlNumbers DEF Html!Ending
<1>3. ASSUME NEW j \in at PROVE Min(at) \in at /\ Min(at) <= j
  <2> HIDE DEF at
  <2>1. at # {}
    OBVIOUS
  <2> QED BY <1>1, <2>1, MinOfIndices
<1>4. CASE at = {}
  BY <1>2, <1>4
<1>5. CASE at # {}
  <2>1. e \in at /\ \A j \in at : e <= j
    <3> HIDE DEF at
    <3> QED BY <1>2, <1>3, <1>5
  <2>2. e \in Nat /\ e > 0 /\ e \in (i + 1)..N /\ Html!Level(tokens, e) < Html!Level(tokens, i)
    BY <2>1
  <2>3. ASSUME NEW x \in (i + 1)..(e - 1) PROVE ~(Html!Level(tokens, x) < Html!Level(tokens, i))
    BY <2>1, <2>2
  <2>4. ASSUME NEW j \in (i + 1)..N, Html!Level(tokens, j) < Html!Level(tokens, i) PROVE e <= j
    BY <2>1, <2>4
  <2> QED BY <2>2, <2>3, <2>4
<1> QED BY <1>4, <1>5

LEMMA LastIndexTop ==
  ASSUME NEW C, NEW names \in Seq(C), NEW name, Len(names) > 0, names[Len(names)] = name
  PROVE  Html!LastIndex(names, name) = Len(names)
<1> DEFINE at == {i \in 1..Len(names) : names[i] = name}
<1>1. at \in SUBSET Int /\ Len(names) \in at /\ \A x \in at : x <= Len(names)
  OBVIOUS
<1>2. Max(at) = Len(names)
  <2> HIDE DEF at
  <2> QED BY <1>1, MaxIs
<1>3. Html!LastIndex(names, name) = IF at = {} THEN 0 ELSE Max(at)
  BY SameHtmlNumbers DEF Html!LastIndex
<1> HIDE DEF at
<1> QED BY <1>1, <1>2, <1>3

LEMMA LastIndexEmpty ==
  ASSUME NEW names, Len(names) = 0, NEW name PROVE Html!LastIndex(names, name) = 0
BY DEF Html!LastIndex

\* The slice of names of open elements.
Slice(open, C) ==
    /\ open = [array |-> open.array, len |-> open.len]
    /\ open.array \in Seq(C) /\ open.len \in 0..Len(open.array)

LEMMA CutIs ==
  ASSUME NEW open, NEW C, Slice(open, C), NEW n \in 0..open.len, NEW cut, cut = Html!Cut(open, n)
  PROVE  Slice(cut, C) /\ cut.array = open.array /\ cut.len = n
<1>1. cut = [array |-> open.array, len |-> n]
  BY DEF Html!Cut, Slice
<1> QED BY <1>1 DEF Slice

LEMMA ElementsAre ==
  ASSUME NEW open, NEW C, Slice(open, C)
  PROVE  /\ Html!Elements(open) \in Seq(C) /\ Len(Html!Elements(open)) = open.len
         /\ \A m \in 1..open.len : Html!Elements(open)[m] = open.array[m]
BY DEF Html!Elements, Slice

LEMMA GrowIs ==
  ASSUME NEW open, NEW C, Slice(open, C), NEW name \in C, NEW grown, grown = Html!Grow(open, name)
  PROVE  /\ Slice(grown, C) /\ grown.len = open.len + 1 /\ grown.array[open.len + 1] = name
         /\ \A m \in 1..open.len : grown.array[m] = open.array[m]
<1> DEFINE old == Len(open.array)
           n == open.len
           size == Max({old, n + 1})
           array == [i \in 1..size |-> IF i = n + 1 THEN name ELSE open.array[i]]
<1>1. old \in Nat /\ n \in 0..old /\ open.array \in Seq(C)
  BY DEF Slice
<1>2. size \in Nat /\ size >= old /\ size >= n + 1 /\ size <= old + 1 /\ (size = old \/ size = n + 1)
  <2>1. CASE old >= n + 1
    <3>1. {old, n + 1} \in SUBSET Int /\ old \in {old, n + 1} /\ \A x \in {old, n + 1} : x <= old
      BY <1>1, <2>1
    <3>2. size = old
      BY <3>1, MaxIs
    <3> QED BY <1>1, <2>1, <3>2
  <2>2. CASE ~(old >= n + 1)
    <3>1. {old, n + 1} \in SUBSET Int /\ n + 1 \in {old, n + 1} /\ \A x \in {old, n + 1} : x <= n + 1
      BY <1>1, <2>2
    <3>2. size = n + 1
      BY <3>1, MaxIs
    <3> QED BY <1>1, <2>2, <3>2
  <2> QED BY <2>1, <2>2
<1>3. grown = [array |-> array, len |-> n + 1]
  BY SameHtmlNumbers DEF Html!Grow
<1> HIDE DEF size
<1>4. \A i \in 1..size : i # n + 1 => i \in 1..old
  BY <1>1, <1>2
<1>5. array \in [1..size -> C]
  <2>1. \A i \in 1..old : open.array[i] \in C
    BY <1>1
  <2> HIDE DEF old, n
  <2> QED BY <1>4, <2>1
<1>6. array \in Seq(C) /\ Len(array) = size
  <2> HIDE DEF array
  <2> QED BY <1>2, <1>5
<1>7. array[n + 1] = name /\ \A m \in 1..n : array[m] = open.array[m]
  BY <1>1, <1>2
<1>8. n + 1 \in 0..size
  BY <1>1, <1>2
<1> HIDE DEF array, n
<1> QED BY <1>3, <1>6, <1>7, <1>8 DEF Slice, n

LEMMA PushedIs ==
  ASSUME NEW s, DOMAIN s = SanitizerFields, s.containers = <<>>, s.open.len = 0, NEW name,
         NEW u, u = Html!Push(s, name)
  PROVE  /\ DOMAIN u = SanitizerFields /\ u.malformed = s.malformed /\ u.out = s.out
         /\ u.open = s.open /\ u.containers = <<[name |-> name, depth |-> 0]>>
BY DEF Html!Push, SanitizerFields

LEMMA EmittedIs ==
  ASSUME NEW s, DOMAIN s = SanitizerFields, NEW token, NEW u, u = Html!Emit(s, token)
  PROVE  /\ DOMAIN u = SanitizerFields /\ u.containers = s.containers /\ u.malformed = s.malformed
         /\ u.out = Append(s.out, token) /\ u.open = s.open
BY DEF Html!Emit, SanitizerFields

LEMMA ResetOpen ==
  ASSUME NEW s, DOMAIN s = SanitizerFields, NEW u, u = Html!Reset(s)
  PROVE  /\ DOMAIN u = SanitizerFields /\ u.containers = <<>> /\ u.malformed = FALSE /\ u.out = s.out
         /\ u.open = Html!Cut(s.open, 0)
BY DEF Html!Reset, SanitizerFields

Names(tokens) == {tokens[k].n : k \in 1..Len(tokens)}

\* After i tokens, inside the active element at a: the elements opened since.
Nested(tokens, a, i, open) ==
    /\ Slice(open, Names(tokens))
    /\ open.len = Html!Level(tokens, i) - Html!Level(tokens, a)
    /\ \A m \in 1..open.len : \E k \in (a + 1)..i :
         /\ k \in Html!OpeningTags(tokens) /\ open.array[m] = tokens[k].n
         /\ Html!Level(tokens, k) = Html!Level(tokens, a) + m
         /\ \A x \in k..i : Html!Level(tokens, x) >= Html!Level(tokens, k)

\* The only container: the active element at a.
Dropper(tokens, a) == <<[name |-> tokens[a].n, depth |-> 0]>>

Inside(tokens, a, i) == a <= i /\ i < Html!Ending(tokens, a)

\* The sanitizer after i tokens of a well-nested document: outside of the active
\* elements, or inside of the one at a.
Outer(tokens, i, s) ==
    /\ DOMAIN s = SanitizerFields /\ s.malformed = FALSE /\ s.containers = <<>>
    /\ Slice(s.open, Names(tokens)) /\ s.open.len = 0
    /\ \A a \in Html!ActiveAt(tokens) : ~Inside(tokens, a, i)

Inner(tokens, i, s, a) ==
    /\ DOMAIN s = SanitizerFields /\ s.malformed = FALSE /\ s.containers = Dropper(tokens, a)
    /\ Inside(tokens, a, i) /\ Nested(tokens, a, i, s.open)

Clean(tokens, i, s) ==
    /\ s.out = Html!OutsideUpTo(tokens)[i]
    /\ Outer(tokens, i, s) \/ \E a \in Html!ActiveAt(tokens) : Inner(tokens, i, s, a)

\* What well-nested means for the active elements.
LEMMA ActiveElement ==
  ASSUME NEW tokens \in Seq(Tokens), Html!WellNested(tokens), NEW a \in Html!ActiveAt(tokens),
         NEW e, e = Html!Ending(tokens, a)
  PROVE  /\ a \in 1..Len(tokens) /\ a \in Html!OpeningTags(tokens)
         /\ e \in (a + 1)..Len(tokens) /\ tokens[e].n = tokens[a].n
         /\ Html!Level(tokens, e) < Html!Level(tokens, a)
         /\ \A x \in (a + 1)..(e - 1) : ~(Html!Level(tokens, x) < Html!Level(tokens, a))
         /\ \A b \in Html!ActiveAt(tokens) : b <= a \/ b > e
<1>1. a \in 1..Len(tokens)
  BY DEF Html!ActiveAt
<1>2. a \in Html!OpeningTags(tokens) /\ Html!ActiveAt(tokens) \cap (a + 1)..e = {}
  BY DEF Html!WellNested
<1>3. e > 0 /\ tokens[e].n = tokens[a].n
  BY <1>2 DEF Html!WellNested
<1>4. /\ e \in (a + 1)..Len(tokens) /\ Html!Level(tokens, e) < Html!Level(tokens, a)
      /\ \A x \in (a + 1)..(e - 1) : ~(Html!Level(tokens, x) < Html!Level(tokens, a))
  BY <1>1, <1>3, EndingIs
<1>5. \A b \in Html!ActiveAt(tokens) : b \in Int
  BY DEF Html!ActiveAt
<1> QED BY <1>1, <1>2, <1>3, <1>4, <1>5

\* A token that comes outside of the active elements.
LEMMA CleanOutside ==
  ASSUME NEW tokens \in Seq(Tokens), Html!WellNested(tokens), NEW i \in 0..(Len(tokens) - 1),
         NEW s, s.out = Html!OutsideUpTo(tokens)[i], Outer(tokens, i, s),
         NEW u, u = Html!Rewrite(s, tokens[i + 1])
  PROVE  Clean(tokens, i + 1, u)
<1> DEFINE A == Html!ActiveAt(tokens)
           token == tokens[i + 1]
<1>1. i \in Nat /\ i + 1 \in 1..Len(tokens) /\ (i + 1) - 1 = i
  OBVIOUS
<1>0. /\ DOMAIN s = SanitizerFields /\ s.malformed = FALSE /\ s.containers = <<>>
      /\ Slice(s.open, Names(tokens)) /\ s.open.len = 0
      /\ \A a \in Html!ActiveAt(tokens) : ~Inside(tokens, a, i)
  BY DEF Outer
<1>2. A = {k \in 1..Len(tokens) : Active(tokens[k])}
  BY DEF Html!ActiveAt, Active
<1>3. ASSUME NEW a \in A
      PROVE  a \in 1..Len(tokens) /\ Html!Ending(tokens, a) \in (a + 1)..Len(tokens) /\ (i < a \/ i >= Html!Ending(tokens, a))
  <2>1. a \in 1..Len(tokens) /\ Html!Ending(tokens, a) \in (a + 1)..Len(tokens)
    BY ActiveElement
  <2> QED BY <1>0, <1>1, <2>1 DEF Inside
<1>4. Html!OutsideUpTo(tokens)[i + 1] =
        IF Html!IsOutside(tokens, i + 1) THEN Append(s.out, token) ELSE s.out
  BY <1>1, OutsideIs
<1> HIDE DEF A
<1>5. CASE Active(token)
  <2>1. i + 1 \in A /\ i + 1 < Html!Ending(tokens, i + 1) /\ Inside(tokens, i + 1, i + 1)
    BY <1>1, <1>2, <1>3, <1>5 DEF Inside
  <2>2. ~Html!IsOutside(tokens, i + 1)
    BY <1>1, <1>3, <2>1 DEF Html!IsOutside, A
  <2>3. u = Html!Push(s, token.n)
    BY <1>0, <1>5 DEF Html!Rewrite, Active
  <2>4. /\ DOMAIN u = SanitizerFields /\ u.malformed = FALSE /\ u.out = s.out
        /\ u.open = s.open /\ u.containers = <<[name |-> token.n, depth |-> 0]>>
    BY <1>0, <2>3, PushedIs
  <2>5. Html!Level(tokens, i + 1) \in Int
    BY <1>1, LevelType
  <2>6. Nested(tokens, i + 1, i + 1, u.open)
    BY <1>0, <2>4, <2>5 DEF Nested
  <2>7. u.containers = Dropper(tokens, i + 1)
    BY <2>4 DEF Dropper
  <2> QED BY <1>4, <2>1, <2>2, <2>4, <2>6, <2>7 DEF Clean, Inner, A
<1>6. CASE ~Active(token)
  <2>1. ASSUME NEW a \in A PROVE i + 1 < a \/ i + 1 > Html!Ending(tokens, a)
    <3>1. a # i + 1
      BY <1>2, <1>6
    <3>2. PICK e : e = Html!Ending(tokens, a)
      OBVIOUS
    <3>3. a \in Nat /\ e \in Nat /\ (i < a \/ i >= e)
      BY <1>3, <3>2
    <3>4. i + 1 < a \/ i + 1 > e
      BY <1>1, <3>1, <3>3
    <3> QED BY <3>2, <3>4
  <2>2. Html!IsOutside(tokens, i + 1)
    BY <2>1 DEF Html!IsOutside, A
  <2>3. ASSUME NEW a \in A PROVE ~Inside(tokens, a, i + 1)
    BY <1>1, <1>3, <2>1 DEF Inside
  <2>4. u = Html!Emit(s, token)
    BY <1>0, <1>6 DEF Html!Rewrite, Active
  <2>5. /\ DOMAIN u = SanitizerFields /\ u.containers = <<>> /\ u.malformed = FALSE
        /\ u.out = Append(s.out, token) /\ u.open = s.open
    BY <1>0, <2>4, EmittedIs
  <2> QED BY <1>0, <1>4, <2>2, <2>3, <2>5 DEF Clean, Outer, A
<1> QED BY <1>5, <1>6

\* The elements opened inside of an active element are still nested after a token
\* that opens none and closes none.
LEMMA NestedSame ==
  ASSUME NEW tokens \in Seq(Tokens), NEW a \in 1..Len(tokens), NEW i \in 0..(Len(tokens) - 1), a <= i,
         NEW open, Nested(tokens, a, i, open),
         NEW n \in 0..open.len, NEW cut, Slice(cut, Names(tokens)), cut.len = n,
         \A m \in 1..n : cut.array[m] = open.array[m],
         Html!Level(tokens, i + 1) = Html!Level(tokens, a) + n
  PROVE  Nested(tokens, a, i + 1, cut)
<1> DEFINE L(x) == Html!Level(tokens, x)
<1>1. L(a) \in Int /\ L(i) \in Int /\ L(i + 1) \in Int /\ open.len = L(i) - L(a) /\ open.len \in Nat
  <2>1. a \in 0..Len(tokens) /\ i \in 0..Len(tokens) /\ i + 1 \in 0..Len(tokens)
    OBVIOUS
  <2> QED BY <2>1, LevelType DEF Nested, Slice
<1>2. ASSUME NEW m \in 1..n
      PROVE  \E k \in (a + 1)..(i + 1) :
               /\ k \in Html!OpeningTags(tokens) /\ cut.array[m] = tokens[k].n
               /\ L(k) = L(a) + m /\ \A x \in k..(i + 1) : L(x) >= L(k)
  <2>1. m \in 1..open.len /\ cut.array[m] = open.array[m]
    BY <1>1
  <2>2. PICK k \in (a + 1)..i :
          /\ k \in Html!OpeningTags(tokens) /\ open.array[m] = tokens[k].n
          /\ L(k) = L(a) + m /\ \A x \in k..i : L(x) >= L(k)
    BY <2>1 DEF Nested
  <2>3. k \in (a + 1)..(i + 1) /\ L(i + 1) >= L(k)
    BY <1>1, <2>2
  <2>4. ASSUME NEW x \in k..(i + 1) PROVE L(x) >= L(k)
    <3>1. x \in k..i \/ x = i + 1
      BY <2>2
    <3> QED BY <2>2, <2>3, <3>1
  <2> QED BY <2>1, <2>2, <2>3, <2>4
<1>3. cut.len = L(i + 1) - L(a)
  BY <1>1
<1> QED BY <1>2, <1>3 DEF Nested

\* A start tag inside of an active element.
LEMMA CleanStart ==
  ASSUME NEW tokens \in Seq(Tokens), Html!WellNested(tokens), NEW i \in 0..(Len(tokens) - 1),
         NEW s, NEW a \in Html!ActiveAt(tokens), Inner(tokens, i, s, a), Html!Opens(tokens[i + 1]),
         NEW u, u = Html!Rewrite(s, tokens[i + 1])
  PROVE  u.out = s.out /\ Inner(tokens, i + 1, u, a)
<1> DEFINE L(x) == Html!Level(tokens, x)
           token == tokens[i + 1]
           e == Html!Ending(tokens, a)
<1>1. i + 1 \in 1..Len(tokens) /\ i \in Nat /\ Len(tokens) \in Nat
  OBVIOUS
<1>0. /\ DOMAIN s = SanitizerFields /\ s.malformed = FALSE /\ s.containers = Dropper(tokens, a)
      /\ Inside(tokens, a, i) /\ Nested(tokens, a, i, s.open)
  BY DEF Inner
<1>2. /\ a \in 1..Len(tokens) /\ e \in (a + 1)..Len(tokens) /\ L(e) < L(a)
      /\ \A b \in Html!ActiveAt(tokens) : b <= a \/ b > e
  BY ActiveElement
<1>3. a <= i /\ i < e
  BY <1>0 DEF Inside
<1> HIDE DEF e
<1>4. ~Html!IsActiveContent(token.n)
  <2>1. i + 1 > a /\ i + 1 <= e
    BY <1>1, <1>2, <1>3
  <2>2. i + 1 \notin Html!ActiveAt(tokens)
    BY <1>2, <2>1
  <2> QED BY <1>1, <2>2 DEF Html!ActiveAt
<1>5. L(a) \in Int /\ L(i) \in Int /\ L(i + 1) \in Int /\ s.open.len = L(i) - L(a) /\ s.open.len \in Nat
  <2>1. a \in 0..Len(tokens) /\ i \in 0..Len(tokens) /\ i + 1 \in 0..Len(tokens)
    BY <1>1, <1>2
  <2>2. L(a) \in Int /\ L(i) \in Int /\ L(i + 1) \in Int
    BY <2>1, LevelType
  <2> QED BY <1>0, <2>2 DEF Nested, Slice
<1>6. /\ IsOpening(token) => L(i + 1) = L(i) + 1
      /\ ~IsOpening(token) => L(i + 1) = L(i)
  <2>1. token.t # "end"
    BY DEF Html!Opens
  <2> QED BY <2>1, LevelStep
<1>7. Inside(tokens, a, i + 1)
  <2>1. L(i + 1) >= L(a)
    BY <1>5, <1>6
  <2>2. i + 1 # e
    BY <1>2, <1>5, <2>1
  <2>3. a <= i + 1 /\ i + 1 < e
    BY <1>1, <1>2, <1>3, <2>2
  <2> QED BY <2>3 DEF Inside, e
<1>8. u = IF IsOpening(token) THEN [s EXCEPT !.open = Html!Grow(s.open, token.n)] ELSE s
  <2>1. s.containers # <<>>
    BY <1>0 DEF Dropper
  <2>2. u = Html!DropStart(s, token)
    BY <2>1 DEF Html!Rewrite
  <2>3. ~s.malformed
    BY <1>0
  <2> QED BY <1>4, <2>2, <2>3 DEF Html!DropStart, IsOpening
<1>9. CASE IsOpening(token)
  <2>1. /\ DOMAIN u = SanitizerFields /\ u.malformed = FALSE /\ u.out = s.out /\ u.containers = s.containers
        /\ u.open = Html!Grow(s.open, token.n)
    BY <1>0, <1>8, <1>9 DEF SanitizerFields
  <2>2. token.n \in Names(tokens) /\ Slice(s.open, Names(tokens))
    BY <1>0, <1>1 DEF Names, Nested
  <2> DEFINE old == s.open
             open == u.open
             n == old.len
  <2>3. /\ Slice(open, Names(tokens)) /\ open.len = n + 1 /\ open.array[n + 1] = token.n
        /\ \A m \in 1..n : open.array[m] = old.array[m]
    BY <2>1, <2>2, GrowIs
  <2>4. i + 1 \in Html!OpeningTags(tokens)
    BY <1>1, <1>9 DEF Html!OpeningTags, IsOpening
  <2>5. ASSUME NEW m \in 1..open.len
        PROVE  \E k \in (a + 1)..(i + 1) :
                 /\ k \in Html!OpeningTags(tokens) /\ open.array[m] = tokens[k].n
                 /\ L(k) = L(a) + m /\ \A x \in k..(i + 1) : L(x) >= L(k)
    <3>1. CASE m = n + 1
      <4>1. i + 1 \in (a + 1)..(i + 1) /\ L(i + 1) = L(a) + m /\ \A x \in (i + 1)..(i + 1) : L(x) >= L(i + 1)
        BY <1>1, <1>2, <1>3, <1>5, <1>6, <1>9, <3>1
      <4> QED BY <2>3, <2>4, <3>1, <4>1
    <3>2. CASE m # n + 1
      <4>1. m \in 1..n
        BY <1>5, <2>3, <3>2
      <4>2. PICK k \in (a + 1)..i :
              /\ k \in Html!OpeningTags(tokens) /\ old.array[m] = tokens[k].n
              /\ L(k) = L(a) + m /\ \A x \in k..i : L(x) >= L(k)
        BY <1>0, <4>1 DEF Nested
      <4>3. k \in (a + 1)..(i + 1) /\ L(i + 1) >= L(k) /\ open.array[m] = tokens[k].n
        <5>1. k \in (a + 1)..(i + 1)
          BY <1>1, <1>2, <4>2
        <5>2. L(k) <= L(i + 1)
          <6>1. L(i + 1) = L(a) + n + 1 /\ n \in Nat /\ m \in Nat /\ m <= n
            BY <1>5, <1>6, <1>9, <4>1
          <6> HIDE DEF L, n
          <6> QED BY <1>5, <4>1, <4>2, <6>1
        <5>3. open.array[m] = tokens[k].n
          BY <2>3, <4>1, <4>2
        <5>4. L(k) \in Int
          BY <1>5, <4>1, <4>2
        <5> HIDE DEF L, open
        <5> QED BY <1>5, <5>1, <5>2, <5>3, <5>4
      <4>4. ASSUME NEW x \in k..(i + 1) PROVE L(x) >= L(k)
        <5>1. x \in k..i \/ x = i + 1
          BY <1>1, <1>2, <4>2
        <5> QED BY <4>2, <4>3, <5>1
      <4> QED BY <4>2, <4>3, <4>4
    <3> QED BY <3>1, <3>2
  <2>6. open.len = L(i + 1) - L(a)
    BY <1>5, <1>6, <1>9, <2>3
  <2>7. Nested(tokens, a, i + 1, open)
    <3> HIDE DEF open
    <3> QED BY <2>3, <2>5, <2>6 DEF Nested
  <2> QED BY <1>0, <1>7, <2>1, <2>7 DEF Inner
<1>10. CASE ~IsOpening(token)
  <2>1. u = s
    BY <1>8, <1>10
  <2> DEFINE open == s.open
  <2>2. Slice(open, Names(tokens)) /\ open.len \in 0..open.len /\ L(i + 1) = L(a) + open.len
    BY <1>0, <1>5, <1>6, <1>10 DEF Nested
  <2>3. Nested(tokens, a, i + 1, open)
    <3> HIDE DEF open
    <3>1. Nested(tokens, a, i, open)
      BY <1>0 DEF open
    <3> QED BY <1>2, <1>3, <2>2, <3>1, NestedSame
  <2> QED BY <1>0, <1>7, <2>1, <2>3 DEF Inner
<1> QED BY <1>9, <1>10

\* An end tag inside of an active element closes the last one opened inside of it.
LEMMA CleanInnerEnd ==
  ASSUME NEW tokens \in Seq(Tokens), Html!WellNested(tokens), NEW i \in 0..(Len(tokens) - 1),
         NEW s, NEW a \in Html!ActiveAt(tokens), Inner(tokens, i, s, a), tokens[i + 1].t = "end", s.open.len > 0,
         NEW u, u = Html!Rewrite(s, tokens[i + 1])
  PROVE  u.out = s.out /\ Inner(tokens, i + 1, u, a)
<1> DEFINE L(x) == Html!Level(tokens, x)
           token == tokens[i + 1]
           e == Html!Ending(tokens, a)
           open == s.open
           n == open.len
<1>1. i + 1 \in 1..Len(tokens) /\ i \in Nat /\ Len(tokens) \in Nat
  OBVIOUS
<1>0. /\ DOMAIN s = SanitizerFields /\ s.malformed = FALSE /\ s.containers = Dropper(tokens, a)
      /\ Inside(tokens, a, i) /\ Nested(tokens, a, i, s.open)
  BY DEF Inner
<1>2. a \in 1..Len(tokens) /\ e \in (a + 1)..Len(tokens) /\ L(e) < L(a)
  BY ActiveElement
<1>3. a <= i /\ i < e
  BY <1>0 DEF Inside
<1> HIDE DEF e
<1>4. L(a) \in Int /\ L(i) \in Int /\ L(i + 1) \in Int /\ n = L(i) - L(a) /\ n \in Nat
  <2>1. a \in 0..Len(tokens) /\ i \in 0..Len(tokens) /\ i + 1 \in 0..Len(tokens)
    BY <1>1, <1>2
  <2>2. L(a) \in Int /\ L(i) \in Int /\ L(i + 1) \in Int
    BY <2>1, LevelType
  <2> QED BY <1>0, <2>2 DEF Nested, Slice
<1>5. L(i + 1) = L(i) - 1
  BY LevelStep
<1>6. Inside(tokens, a, i + 1)
  <2>1. L(i + 1) >= L(a)
    BY <1>4, <1>5
  <2>2. i + 1 # e
    BY <1>2, <1>4, <2>1
  <2>3. a <= i + 1 /\ i + 1 < e
    BY <1>1, <1>2, <1>3, <2>2
  <2> QED BY <2>3 DEF Inside, e
<1>7. open.array[n] = token.n
  <2>1. n \in 1..n
    BY <1>4
  <2>2. PICK k \in (a + 1)..i :
          /\ k \in Html!OpeningTags(tokens) /\ open.array[n] = tokens[k].n
          /\ L(k) = L(a) + n /\ \A x \in k..i : L(x) >= L(k)
    BY <1>0, <2>1 DEF Nested
  <2>3. k \in 1..Len(tokens) /\ L(i + 1) < L(k) /\ i + 1 \in (k + 1)..Len(tokens)
    <3>1. k \in 1..Len(tokens) /\ i + 1 \in (k + 1)..Len(tokens)
      BY <1>1, <1>2, <2>2
    <3>2. L(k) = L(i)
      BY <1>4, <2>2
    <3> HIDE DEF L
    <3>3. L(i + 1) < L(k)
      BY <1>4, <1>5, <3>2
    <3> QED BY <3>1, <3>3
  <2> DEFINE f == Html!Ending(tokens, k)
  <2>4. f > 0 /\ f \in (k + 1)..Len(tokens) /\ L(f) < L(k) /\ f <= i + 1
    BY <2>3, EndingIs
  <2> HIDE DEF f
  <2>5. f = i + 1
    <3>1. ASSUME f <= i PROVE FALSE
      <4>1. f \in k..i
        BY <2>2, <2>4, <3>1
      <4>2. L(f) >= L(k) /\ L(k) \in Int
        BY <1>4, <2>2, <4>1
      <4>3. f \in 0..Len(tokens)
        BY <1>2, <2>3, <2>4
      <4>4. L(f) \in Int
        BY <4>3, LevelType
      <4> QED BY <2>4, <4>2, <4>4
    <3> QED BY <1>1, <2>3, <2>4, <3>1
  <2>6. tokens[f].n = tokens[k].n
    BY <2>2 DEF Html!WellNested, f
  <2> QED BY <2>2, <2>5, <2>6
<1>8. Slice(open, Names(tokens))
  BY <1>0 DEF Nested
<1> HIDE DEF open, n
<1>9. Html!LastIndex(Html!Elements(open), token.n) = n
  <2> DEFINE names == Html!Elements(open)
  <2>1. names \in Seq(Names(tokens)) /\ Len(names) = n /\ \A m \in 1..n : names[m] = open.array[m]
    BY <1>8, ElementsAre DEF n
  <2> HIDE DEF names
  <2>2. Len(names) > 0 /\ names[Len(names)] = token.n
    BY <1>4, <1>7, <2>1 DEF n, open
  <2>3. Html!LastIndex(names, token.n) = Len(names)
    BY <2>1, <2>2, LastIndexTop
  <2> QED BY <2>1, <2>3 DEF names
<1>10. u = [s EXCEPT !.open = Html!Cut(open, n - 1)]
  <2>1. s.containers # <<>>
    BY <1>0 DEF Dropper
  <2>2. u = Html!DropEnd(s, token)
    BY <2>1 DEF Html!Rewrite, Html!Opens
  <2>3. n > 0
    BY DEF n, open
  <2> QED BY <1>9, <2>2, <2>3 DEF Html!DropEnd, open
<1>11. /\ DOMAIN u = SanitizerFields /\ u.malformed = FALSE /\ u.out = s.out /\ u.containers = s.containers
       /\ u.open = Html!Cut(open, n - 1)
  BY <1>0, <1>10 DEF SanitizerFields
<1>12. n - 1 \in 0..open.len /\ n > 0
  BY <1>4 DEF n, open
<1>13. PICK cut : cut = u.open
  OBVIOUS
<1>14. Slice(cut, Names(tokens)) /\ cut.array = open.array /\ cut.len = n - 1
  BY <1>8, <1>11, <1>12, <1>13, CutIs
<1>15. Nested(tokens, a, i + 1, cut)
  <2>1. Nested(tokens, a, i, open) /\ L(i + 1) = L(a) + (n - 1)
    BY <1>0, <1>4, <1>5 DEF open
  <2> QED BY <1>2, <1>3, <1>12, <1>14, <2>1, NestedSame
<1> QED BY <1>0, <1>6, <1>11, <1>13, <1>15 DEF Inner

\* The end tag of an active element.
LEMMA CleanEnd ==
  ASSUME NEW tokens \in Seq(Tokens), Html!WellNested(tokens), NEW i \in 0..(Len(tokens) - 1),
         NEW s, NEW a \in Html!ActiveAt(tokens), Inner(tokens, i, s, a), tokens[i + 1].t = "end", s.open.len = 0,
         NEW u, u = Html!Rewrite(s, tokens[i + 1])
  PROVE  u.out = s.out /\ Outer(tokens, i + 1, u)
<1> DEFINE L(x) == Html!Level(tokens, x)
           token == tokens[i + 1]
           e == Html!Ending(tokens, a)
<1>1. i + 1 \in 1..Len(tokens) /\ i \in Nat /\ Len(tokens) \in Nat
  OBVIOUS
<1>0. /\ DOMAIN s = SanitizerFields /\ s.malformed = FALSE /\ s.containers = Dropper(tokens, a)
      /\ Inside(tokens, a, i) /\ Nested(tokens, a, i, s.open)
  BY DEF Inner
<1>2. /\ a \in 1..Len(tokens) /\ e \in (a + 1)..Len(tokens) /\ L(e) < L(a) /\ tokens[e].n = tokens[a].n
      /\ \A b \in Html!ActiveAt(tokens) : b <= a \/ b > e
  BY ActiveElement
<1>3. a <= i /\ i < e
  BY <1>0 DEF Inside
<1>4. L(a) \in Int /\ L(i) \in Int /\ L(i + 1) \in Int /\ L(i) = L(a)
  <2>1. a \in 0..Len(tokens) /\ i \in 0..Len(tokens) /\ i + 1 \in 0..Len(tokens)
    BY <1>1, <1>2
  <2>2. L(a) \in Int /\ L(i) \in Int /\ L(i + 1) \in Int
    BY <2>1, LevelType
  <2>3. 0 = L(i) - L(a)
    BY <1>0 DEF Nested
  <2> QED BY <2>2, <2>3
<1>5. L(i + 1) < L(a)
  <2>1. L(i + 1) = L(i) - 1
    BY LevelStep
  <2> QED BY <1>4, <2>1
<1>6. e = i + 1
  <2>1. i + 1 \in (a + 1)..Len(tokens)
    BY <1>1, <1>2, <1>3
  <2>2. e <= i + 1
    BY <1>2, <1>5, <2>1, EndingIs
  <2> QED BY <1>1, <1>2, <1>3, <2>2
<1>7. Slice(s.open, Names(tokens))
  BY <1>0 DEF Nested
<1>8. u = Html!Reset(s)
  <2>1. s.containers # <<>>
    BY <1>0 DEF Dropper
  <2>2. u = Html!DropEnd(s, token)
    BY <2>1 DEF Html!Rewrite, Html!Opens
  <2>3. Html!LastIndex(Html!Elements(s.open), token.n) = 0
    BY <1>7, ElementsAre, LastIndexEmpty
  <2>4. Html!LastIndex(Html!ContainerNames(s), token.n) = 1
    <3> DEFINE names == Html!ContainerNames(s)
    <3>1. names = [k \in 1..1 |-> tokens[a].n]
      BY <1>0 DEF Html!ContainerNames, Dropper
    <3>2. names \in Seq(Names(tokens)) /\ Len(names) = 1 /\ names[1] = tokens[a].n
      <4>1. tokens[a].n \in Names(tokens)
        BY <1>2 DEF Names
      <4> QED BY <3>1, <4>1
    <3> HIDE DEF names
    <3>3. Len(names) > 0 /\ names[Len(names)] = token.n
      <4>1. token.n = tokens[a].n
        BY <1>2, <1>6
      <4> HIDE DEF token
      <4> QED BY <3>2, <4>1
    <3> HIDE DEF token
    <3>4. Html!LastIndex(names, token.n) = Len(names)
      BY <3>2, <3>3, LastIndexTop
    <3> QED BY <3>2, <3>4 DEF names
  <2>5. PICK inner : inner = Html!LastIndex(Html!Elements(s.open), token.n)
    OBVIOUS
  <2>6. PICK index : index = Html!LastIndex(Html!ContainerNames(s), token.n)
    OBVIOUS
  <2>7. PICK back : back = Html!LastIndex(s.emitted, token.n)
    OBVIOUS
  <2>8. u = IF inner > 0 THEN [s EXCEPT !.open = Html!Cut(s.open, inner - 1)]
            ELSE IF index = 1 THEN Html!Reset(s)
            ELSE IF index > 1
                 THEN [s EXCEPT !.containers = SubSeq(s.containers, 1, index - 1),
                                !.open = Html!Cut(s.open, s.containers[index].depth)]
            ELSE IF back > 0 THEN Html!Emit(Html!Reset(s), token)
            ELSE s
    BY <2>2, <2>5, <2>6, <2>7 DEF Html!DropEnd
  <2> QED BY <2>3, <2>4, <2>5, <2>6, <2>8
<1>9. /\ DOMAIN u = SanitizerFields /\ u.containers = <<>> /\ u.malformed = FALSE /\ u.out = s.out
      /\ u.open = Html!Cut(s.open, 0)
  BY <1>0, <1>8, ResetOpen
<1>10. Slice(u.open, Names(tokens)) /\ u.open.len = 0
  BY <1>7, <1>9, CutIs
<1>11. ASSUME NEW b \in Html!ActiveAt(tokens), Inside(tokens, b, i + 1) PROVE FALSE
  <2> DEFINE f == Html!Ending(tokens, b)
  <2>1. /\ b \in 1..Len(tokens) /\ f \in (b + 1)..Len(tokens)
        /\ a <= b \/ a > f
    BY ActiveElement
  <2>2. b <= i + 1 /\ i + 1 < f
    BY <1>11 DEF Inside
  <2> HIDE DEF e, f
  <2>3. b = a
    BY <1>1, <1>2, <1>3, <1>6, <2>1, <2>2
  <2> QED BY <1>6, <2>2, <2>3 DEF e, f
<1> QED BY <1>9, <1>10, <1>11 DEF Outer

LEMMA CleanStep ==
  ASSUME NEW tokens \in Seq(Tokens), Html!WellNested(tokens), NEW i \in 0..(Len(tokens) - 1),
         NEW s, Clean(tokens, i, s), NEW u, u = Html!Rewrite(s, tokens[i + 1])
  PROVE  Clean(tokens, i + 1, u)
<1>1. s.out = Html!OutsideUpTo(tokens)[i]
  BY DEF Clean
<1>2. CASE Outer(tokens, i, s)
  BY <1>1, <1>2, CleanOutside
<1>3. ASSUME NEW a \in Html!ActiveAt(tokens), Inner(tokens, i, s, a) PROVE Clean(tokens, i + 1, u)
  <2>0. /\ s.containers = Dropper(tokens, a) /\ Inside(tokens, a, i) /\ Nested(tokens, a, i, s.open)
        /\ DOMAIN s = SanitizerFields /\ s.malformed = FALSE
    BY <1>3 DEF Inner
  <2>1. Html!OutsideUpTo(tokens)[i + 1] = s.out
    <3> DEFINE e == Html!Ending(tokens, a)
    <3>1. i + 1 \in 1..Len(tokens) /\ (i + 1) - 1 = i /\ i \in Nat
      OBVIOUS
    <3>2. a \in 1..Len(tokens) /\ e \in (a + 1)..Len(tokens) /\ a <= i /\ i < e
      BY <2>0, ActiveElement DEF Inside
    <3> HIDE DEF e
    <3>3. ~(i + 1 < a \/ i + 1 > e)
      BY <3>1, <3>2
    <3>4. ~Html!IsOutside(tokens, i + 1)
      BY <3>3 DEF Html!IsOutside, e
    <3> QED BY <1>1, <3>1, <3>4, OutsideIs
  <2>2. CASE Html!Opens(tokens[i + 1])
    <3>1. u.out = s.out /\ Inner(tokens, i + 1, u, a)
      BY <1>3, <2>2, CleanStart
    <3> QED BY <2>1, <3>1 DEF Clean
  <2>3. CASE tokens[i + 1].t = "end" /\ s.open.len > 0
    <3>1. u.out = s.out /\ Inner(tokens, i + 1, u, a)
      BY <1>3, <2>3, CleanInnerEnd
    <3> QED BY <2>1, <3>1 DEF Clean
  <2>4. CASE tokens[i + 1].t = "end" /\ s.open.len = 0
    <3>1. u.out = s.out /\ Outer(tokens, i + 1, u)
      BY <1>3, <2>4, CleanEnd
    <3> QED BY <2>1, <3>1 DEF Clean
  <2>5. CASE ~Html!Opens(tokens[i + 1]) /\ tokens[i + 1].t # "end"
    <3> DEFINE L(x) == Html!Level(tokens, x)
               open == s.open
               e == Html!Ending(tokens, a)
    <3>1. s.containers # <<>> /\ u = s
      <4>1. s.containers # <<>>
        BY <2>0 DEF Dropper
      <4> QED BY <2>5, <4>1 DEF Html!Rewrite
    <3>2. L(i + 1) = L(i) /\ L(i) \in Int
      BY <2>5, LevelStep DEF IsOpening, Html!Opens
    <3>3. /\ a \in 1..Len(tokens) /\ e \in (a + 1)..Len(tokens) /\ L(e) < L(a)
          /\ a <= i /\ i < e
      BY <2>0, ActiveElement DEF Inside
    <3>4. L(a) \in Int /\ open.len = L(i) - L(a) /\ Slice(open, Names(tokens)) /\ open.len \in Nat
      <4>1. a \in 0..Len(tokens)
        BY <3>3
      <4>2. L(a) \in Int
        BY <4>1, LevelType
      <4> QED BY <2>0, <4>2 DEF Nested, Slice
    <3>5. Nested(tokens, a, i + 1, open)
      <4>1. open.len \in 0..open.len /\ L(i + 1) = L(a) + open.len
        BY <3>2, <3>4
      <4>2. Nested(tokens, a, i, open)
        BY <2>0
      <4> HIDE DEF open
      <4> QED BY <3>3, <3>4, <4>1, <4>2, NestedSame
    <3>6. Inside(tokens, a, i + 1)
      <4>1. i + 1 # e
        BY <3>2, <3>3, <3>4
      <4> HIDE DEF e
      <4>2. a <= i + 1 /\ i + 1 < e
        BY <3>3, <4>1
      <4> QED BY <4>2 DEF Inside, e
    <3> QED BY <2>0, <2>1, <3>1, <3>5, <3>6 DEF Clean, Inner
  <2>6. s.open.len \in Nat
    BY <2>0 DEF Nested, Slice
  <2> QED BY <2>2, <2>3, <2>4, <2>5, <2>6
<1> QED BY <1>2, <1>3 DEF Clean

LEMMA CleanAtFirst ==
  ASSUME NEW tokens \in Seq(Tokens), Html!WellNested(tokens), NEW s, s = Html!InitialSanitizer
  PROVE  Clean(tokens, 0, s)
<1>1. /\ DOMAIN s = SanitizerFields /\ s.malformed = FALSE /\ s.out = <<>> /\ s.containers = <<>>
      /\ s.open = [array |-> <<>>, len |-> 0]
  BY DEF Html!InitialSanitizer, SanitizerFields
<1>2. Slice(s.open, Names(tokens)) /\ s.open.len = 0
  <2>1. <<>> \in Seq(Names(tokens)) /\ Len(<<>>) = 0
    OBVIOUS
  <2> QED BY <1>1, <2>1 DEF Slice
<1>3. ASSUME NEW a \in Html!ActiveAt(tokens) PROVE ~Inside(tokens, a, 0)
  BY ActiveElement DEF Inside
<1>4. Html!OutsideUpTo(tokens)[0] = <<>>
  BY OutsideIs
<1> QED BY <1>1, <1>2, <1>3, <1>4 DEF Clean, Outer

\* A document of which these are the first tokens.
BeginsAs(tokens, whole) == Len(tokens) <= Len(whole) /\ \A x \in 1..Len(tokens) : whole[x] = tokens[x]

\* Whatever well-nested document this becomes, nothing but its active elements is
\* lost so far.
CleanInv ==
    job = "html" =>
        \A whole \in Seq(Tokens) :
            Html!WellNested(whole) /\ BeginsAs(fed, whole) => Clean(whole, Len(fed), kept)

LEMMA CleanInvStep ==
  ASSUME NEW tokens \in Seq(Tokens), NEW s,
         \A whole \in Seq(Tokens) : Html!WellNested(whole) /\ BeginsAs(tokens, whole) => Clean(whole, Len(tokens), s),
         NEW token \in Tokens, NEW more, more = Append(tokens, token), NEW u, u = Html!Rewrite(s, token),
         NEW whole \in Seq(Tokens), Html!WellNested(whole), BeginsAs(more, whole)
  PROVE  Clean(whole, Len(more), u)
<1>1. PICK n : n = Len(tokens)
  OBVIOUS
<1>2. /\ n \in Nat /\ more \in Seq(Tokens) /\ Len(more) = n + 1 /\ more[n + 1] = token
      /\ \A i \in 1..n : more[i] = tokens[i]
  BY <1>1, OneMoreToken
<1>3. n + 1 <= Len(whole) /\ Len(whole) \in Nat /\ \A x \in 1..(n + 1) : whole[x] = more[x]
  BY <1>2 DEF BeginsAs
<1>4. n \in 0..(Len(whole) - 1) /\ whole[n + 1] = token /\ \A x \in 1..n : whole[x] = tokens[x]
  BY <1>2, <1>3
<1>5. BeginsAs(tokens, whole)
  BY <1>1, <1>2, <1>3, <1>4 DEF BeginsAs
<1>6. Clean(whole, n, s)
  BY <1>1, <1>5
<1>7. Clean(whole, n + 1, u)
  BY <1>4, <1>6, CleanStep
<1> QED BY <1>2, <1>7

\* No active element reaches the page of a message body of any length; a well-nested
\* document loses its active elements and nothing else; and nothing is written after
\* an active start tag before something ends the dropping (rewriteEmailURLs).
THEOREM FeedsBodiesSanitized == FeedsSpec => []BodiesSanitized
<1> DEFINE Inv == HtmlInv /\ CleanInv
<1>1. FeedsInit => Inv
  <2> SUFFICES ASSUME FeedsInit, job = "html" PROVE HtmlInv /\ CleanInv
    BY DEF HtmlInv, CleanInv
  <2>1. fed = <<>> /\ kept = Html!InitialSanitizer /\ Len(fed) = 0
    BY DEF FeedsInit, InitFeed
  <2> QED BY <2>1, EmptyPage, CleanAtFirst DEF HtmlInv, CleanInv
<1>2. Inv /\ [FeedsNext]_vars => Inv'
  <2> SUFFICES ASSUME Inv, [FeedsNext]_vars, job' = "html" PROVE HtmlInv' /\ CleanInv'
    BY DEF HtmlInv, CleanInv
  <2>1. CASE UNCHANGED feedVars
    BY <2>1 DEF HtmlInv, CleanInv, feedVars
  <2>2. ASSUME NEW token \in Tokens, FeedHtml(token) PROVE HtmlInv' /\ CleanInv'
    <3>1. Page(fed, kept) /\ job = "html" /\ fed' = Append(fed, token) /\ kept' = Html!Rewrite(kept, token)
      BY <2>2 DEF HtmlInv, FeedHtml
    <3>2. Page(fed', kept') /\ fed \in Seq(Tokens)
      BY <3>1, PageStep DEF Page
    <3>3. ASSUME NEW whole \in Seq(Tokens), Html!WellNested(whole), BeginsAs(fed', whole)
          PROVE  Clean(whole, Len(fed'), kept')
      <4>1. \A w \in Seq(Tokens) : Html!WellNested(w) /\ BeginsAs(fed, w) => Clean(w, Len(fed), kept)
        BY <3>1 DEF CleanInv
      <4> QED BY <3>1, <3>2, <3>3, <4>1, CleanInvStep
    <3> QED BY <3>2, <3>3 DEF HtmlInv, CleanInv
  <2> QED BY <2>1, <2>2
       DEF FeedsNext, DataStep, FeedCalendar, FeedHistory, FeedHttp, FeedWire, vars
<1>3. ASSUME Inv PROVE BodiesSanitized
  <2> SUFFICES ASSUME job = "html" PROVE Html!Sanitized(fed, kept)
    BY DEF BodiesSanitized
  <2>1. Page(fed, kept)
    BY <1>3 DEF HtmlInv
  <2>2. Html!Inert(kept) /\ \A i \in Html!ActiveAt(fed) : Html!Dropping(fed, i) => Len(kept.out) < i
    BY <2>1 DEF Page, Html!Inert, Active
  <2>3. ASSUME Html!WellNested(fed) PROVE kept.out = Html!Outside(fed)
    <3>1. fed \in Seq(Tokens) /\ BeginsAs(fed, fed)
      BY <2>1 DEF Page, BeginsAs
    <3>2. Clean(fed, Len(fed), kept)
      BY <1>3, <2>3, <3>1 DEF CleanInv
    <3> QED BY <3>2 DEF Clean, Html!Outside
  <2> QED BY <2>2, <2>3 DEF Html!Sanitized
<1> QED BY <1>1, <1>2, <1>3, PTL DEF FeedsSpec
=============================================================================
