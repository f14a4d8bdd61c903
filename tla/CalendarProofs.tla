--------------------------- MODULE CalendarProofs ---------------------------
(***************************************************************************)
(* What ParseICS makes of an iCalendar object, for any number of lines,    *)
(* components and events.                                                  *)
(*                                                                         *)
(* CalendarRead describes the tree that the lines draw and never mentions  *)
(* a parser, so the proof relates the parser's state after each line to    *)
(* that tree: its stack is the components that are open (Tree), what it    *)
(* has read is well formed (Formed), its builder holds the first lines of  *)
(* the VEVENT that is open (Building), and its events are those of the     *)
(* VEVENTs that have been closed (Gathered).                               *)
(***************************************************************************)
EXTENDS FeedsProofs

-----------------------------------------------------------------------------
(* The tree that the lines of a calendar draw. *)

LEMMA LineFields ==
  ASSUME NEW l \in ContentLines
  PROVE  /\ l.name \in STRING /\ l.text \in STRING /\ l.num \in -(MaxInt + 1)..MaxInt
         /\ l.ok \in BOOLEAN /\ l.date \in BOOLEAN /\ (l.name = "DURATION" => l.num >= 0)
BY DEF ContentLines

\* How one more line changes the depth.
LEMMA DepthStep ==
  ASSUME NEW lines \in Seq(ContentLines), NEW i \in 0..(Len(lines) - 1)
  PROVE  LET before == Level(lines, i)
             after == Level(lines, i + 1)
             name == lines[i + 1].name
         IN  /\ before \in Int /\ after \in Int
             /\ name = "BEGIN" => after = before + 1
             /\ name = "END" => after = before - 1
             /\ name \notin {"BEGIN", "END"} => after = before
<1> DEFINE B(x) == {k \in 1..x : lines[k].name = "BEGIN"}
           E(x) == {k \in 1..x : lines[k].name = "END"}
<1>1. i \in Nat /\ i + 1 \in Nat
  OBVIOUS
<1>2. /\ IsFiniteSet(B(i)) /\ IsFiniteSet(E(i)) /\ IsFiniteSet(B(i + 1)) /\ IsFiniteSet(E(i + 1))
  <2>1. IsFiniteSet(1..i) /\ IsFiniteSet(1..(i + 1))
    BY <1>1, FS_Interval
  <2>2. /\ B(i) \subseteq 1..i /\ B(i + 1) \subseteq 1..(i + 1)
        /\ E(i) \subseteq 1..i /\ E(i + 1) \subseteq 1..(i + 1)
    OBVIOUS
  <2> HIDE DEF B, E
  <2> QED BY <2>1, <2>2, FS_Subset
<1>3. /\ Cardinality(B(i)) \in Nat /\ Cardinality(E(i)) \in Nat
      /\ Cardinality(B(i + 1)) \in Nat /\ Cardinality(E(i + 1)) \in Nat
  <2> HIDE DEF B, E
  <2> QED BY <1>2, FS_CardinalityType
<1>4. /\ Level(lines, i) = Cardinality(B(i)) - Cardinality(E(i))
      /\ Level(lines, i + 1) = Cardinality(B(i + 1)) - Cardinality(E(i + 1))
  BY DEF Level
<1>5. ASSUME lines[i + 1].name = "BEGIN" PROVE Cardinality(B(i + 1)) = Cardinality(B(i)) + 1
  <2>1. B(i + 1) = B(i) \cup {i + 1} /\ i + 1 \notin B(i)
    BY <1>1, <1>5
  <2> HIDE DEF B
  <2> QED BY <1>2, <2>1, FS_AddElement
<1>6. ASSUME lines[i + 1].name # "BEGIN" PROVE Cardinality(B(i + 1)) = Cardinality(B(i))
  <2>1. B(i + 1) = B(i)
    BY <1>1, <1>6
  <2> QED BY <2>1
<1>7. ASSUME lines[i + 1].name = "END" PROVE Cardinality(E(i + 1)) = Cardinality(E(i)) + 1
  <2>1. E(i + 1) = E(i) \cup {i + 1} /\ i + 1 \notin E(i)
    BY <1>1, <1>7
  <2> HIDE DEF E
  <2> QED BY <1>2, <2>1, FS_AddElement
<1>8. ASSUME lines[i + 1].name # "END" PROVE Cardinality(E(i + 1)) = Cardinality(E(i))
  <2>1. E(i + 1) = E(i)
    BY <1>1, <1>8
  <2> QED BY <2>1
<1> HIDE DEF B, E
<1> QED BY <1>3, <1>4, <1>5, <1>6, <1>7, <1>8

\* Nothing is open before the first line.
LEMMA DepthAtFirst == ASSUME NEW lines PROVE Level(lines, 0) = 0
<1> DEFINE B == {k \in 1..0 : lines[k].name = "BEGIN"}
           E == {k \in 1..0 : lines[k].name = "END"}
<1>1. B = {} /\ E = {}
  OBVIOUS
<1>2. Level(lines, 0) = Cardinality(B) - Cardinality(E)
  BY DEF Level
<1> HIDE DEF B, E
<1> QED BY <1>1, <1>2, FS_EmptySet

\* The number of components that are open after a line is an integer.
LEMMA DepthType ==
  ASSUME NEW lines \in Seq(ContentLines), NEW i \in 0..Len(lines) PROVE Level(lines, i) \in Int
<1>1. CASE i = 0
  BY <1>1, DepthAtFirst
<1>2. CASE i > 0
  <2>1. i - 1 \in 0..(Len(lines) - 1) /\ (i - 1) + 1 = i
    BY <1>2
  <2> QED BY <2>1, DepthStep
<1> QED BY <1>1, <1>2

\* The component that begins at b is open after line i.
IsOpen(lines, b, i) ==
    b \in Begins(lines) /\ b <= i /\ \A x \in b..i : Level(lines, x) >= Level(lines, b)

\* The BEGINs are the indices of the lines named BEGIN.
LEMMA BeginIs ==
  ASSUME NEW lines \in Seq(ContentLines), NEW b
  PROVE  b \in Begins(lines) <=> b \in 1..Len(lines) /\ lines[b].name = "BEGIN"
BY DEF Begins

\* A component is open after the line that begins it, one level deeper than before it.
LEMMA OpensHere ==
  ASSUME NEW lines \in Seq(ContentLines), NEW b \in Begins(lines)
  PROVE  /\ IsOpen(lines, b, b) /\ b \in 1..Len(lines)
         /\ Level(lines, b) = Level(lines, b - 1) + 1 /\ Level(lines, b) \in Int /\ Level(lines, b - 1) \in Int
<1>1. b \in 1..Len(lines) /\ lines[b].name = "BEGIN"
  BY BeginIs
<1>2. b - 1 \in 0..(Len(lines) - 1) /\ (b - 1) + 1 = b
  BY <1>1
<1>3. Level(lines, b) = Level(lines, b - 1) + 1 /\ Level(lines, b) \in Int /\ Level(lines, b - 1) \in Int
  BY <1>1, <1>2, DepthStep
<1>4. \A x \in b..b : Level(lines, x) >= Level(lines, b)
  <2>1. \A x \in b..b : x = b
    BY <1>1
  <2> QED BY <1>3, <2>1
<1> QED BY <1>1, <1>3, <1>4 DEF IsOpen

\* Where a component ends.
LEMMA ClosingIs ==
  ASSUME NEW lines \in Seq(ContentLines), NEW b \in Begins(lines), NEW c, c = Closing(lines, b)
  PROVE  /\ c \in Nat
         /\ c > 0 => /\ c \in (b + 1)..Len(lines) /\ Level(lines, c) < Level(lines, b)
                     /\ \A x \in b..(c - 1) : Level(lines, x) >= Level(lines, b)
         /\ c = 0 => \A x \in b..Len(lines) : Level(lines, x) >= Level(lines, b)
<1> DEFINE N == Len(lines)
           at == {j \in (b + 1)..N : Level(lines, j) < Level(lines, b)}
<1>1. N \in Nat /\ b \in 1..N /\ at \subseteq 1..N /\ Level(lines, b) \in Int
  BY OpensHere
<1>2. c = IF at = {} THEN 0 ELSE Min(at)
  BY DEF Closing
<1>3. ASSUME NEW j \in at PROVE Min(at) \in at /\ Min(at) <= j
  <2> HIDE DEF at
  <2>1. at # {}
    OBVIOUS
  <2> QED BY <1>1, <2>1, MinOfIndices
<1>4. ASSUME NEW x \in b..N, x \notin at PROVE Level(lines, x) >= Level(lines, b)
  <2>1. x \in 0..N
    BY <1>1
  <2>2. Level(lines, x) \in Int
    BY <2>1, DepthType
  <2>3. x = b \/ x \in (b + 1)..N
    BY <1>1
  <2> QED BY <1>1, <1>4, <2>2, <2>3
<1>5. CASE at = {}
  <2>1. c = 0
    BY <1>2, <1>5
  <2>2. \A x \in b..N : Level(lines, x) >= Level(lines, b)
    <3> HIDE DEF at
    <3> QED BY <1>4, <1>5
  <2> QED BY <2>1, <2>2
<1>6. CASE at # {}
  <2>1. c \in at /\ \A j \in at : c <= j
    <3> HIDE DEF at
    <3>1. c = Min(at)
      BY <1>2, <1>6
    <3>2. PICK j \in at : TRUE
      BY <1>6
    <3> QED BY <1>3, <3>1, <3>2
  <2>2. c \in Nat /\ c > 0 /\ c \in (b + 1)..N /\ Level(lines, c) < Level(lines, b)
    BY <1>1, <2>1
  <2>3. ASSUME NEW x \in b..(c - 1) PROVE Level(lines, x) >= Level(lines, b)
    <3>1. x \in b..N /\ x < c
      BY <1>1, <2>2
    <3>2. x \in Nat /\ c \in Nat /\ ~(c <= x)
      BY <1>1, <2>2, <3>1
    <3>3. x \notin at
      <4> HIDE DEF at
      <4> QED BY <2>1, <3>2
    <3> QED BY <1>4, <3>1, <3>3
  <2> QED BY <2>2, <2>3
<1> QED BY <1>5, <1>6

\* Open, and not closed yet.
LEMMA OpenUntilClosed ==
  ASSUME NEW lines \in Seq(ContentLines), NEW b \in Begins(lines), NEW i \in b..Len(lines)
  PROVE  IsOpen(lines, b, i) <=> (Closing(lines, b) > i \/ Closing(lines, b) = 0)
<1> DEFINE N == Len(lines)
<1>1. b \in 1..N /\ N \in Nat /\ i \in Nat /\ Level(lines, b) \in Int
  BY OpensHere
<1>2. PICK c : c = Closing(lines, b)
  OBVIOUS
<1>3. /\ c \in Nat
      /\ c > 0 => /\ c \in (b + 1)..N /\ Level(lines, c) < Level(lines, b)
                  /\ \A x \in b..(c - 1) : Level(lines, x) >= Level(lines, b)
      /\ c = 0 => \A x \in b..N : Level(lines, x) >= Level(lines, b)
  BY <1>2, ClosingIs
<1>4. ASSUME c > i \/ c = 0 PROVE IsOpen(lines, b, i)
  <2>1. \A x \in b..i : Level(lines, x) >= Level(lines, b)
    BY <1>1, <1>3, <1>4
  <2> QED BY <2>1 DEF IsOpen
<1>5. ASSUME IsOpen(lines, b, i), c > 0, c <= i PROVE FALSE
  <2>1. c \in b..i /\ c \in 0..N
    BY <1>1, <1>3, <1>5
  <2>2. Level(lines, c) >= Level(lines, b)
    BY <1>5, <2>1 DEF IsOpen
  <2>3. Level(lines, c) \in Int
    BY <2>1, DepthType
  <2> QED BY <1>1, <1>3, <1>5, <2>2, <2>3
<1> QED BY <1>1, <1>2, <1>3, <1>4, <1>5

\* The component a line stands in.
LEMMA OwnerIs ==
  ASSUME NEW lines \in Seq(ContentLines), NEW i \in 1..Len(lines), NEW b, IsOpen(lines, b, i - 1),
         Level(lines, b) = Level(lines, i - 1), Level(lines, i) >= Level(lines, i - 1)
  PROVE  Owner(lines, i) = b
<1> DEFINE N == Len(lines)
           L(x) == Level(lines, x)
           around == {c \in Begins(lines) : c < i /\ (Closing(lines, c) > i \/ Closing(lines, c) = 0)}
<1>1. b \in Begins(lines) /\ b \in 1..N /\ b <= i - 1 /\ i \in Nat /\ N \in Nat /\ L(b) \in Int
  BY OpensHere DEF IsOpen
<1>2. \A x \in b..(i - 1) : L(x) >= L(b)
  BY DEF IsOpen
<1>3. b \in around
  <2>1. L(i) >= L(b)
    BY <1>1
  <2>2. \A x \in b..i : L(x) >= L(b)
    <3>1. \A x \in b..i : x \in b..(i - 1) \/ x = i
      BY <1>1
    <3> QED BY <1>2, <2>1, <3>1
  <2>3. IsOpen(lines, b, i) /\ i \in b..N
    BY <1>1, <2>2 DEF IsOpen
  <2>4. Closing(lines, b) > i \/ Closing(lines, b) = 0
    BY <1>1, <2>3, OpenUntilClosed
  <2> QED BY <1>1, <2>4
<1>4. ASSUME NEW c \in around PROVE c <= b
  <2> SUFFICES ASSUME c > b PROVE FALSE
    <3>1. c \in 1..N
      BY OpensHere
    <3> QED BY <1>1, <3>1
  <2>1. /\ c \in Begins(lines) /\ c < i /\ c \in 1..N /\ L(c) = L(c - 1) + 1 /\ L(c) \in Int /\ L(c - 1) \in Int
    BY OpensHere
  <2>2. IsOpen(lines, c, i)
    <3>1. i \in c..N
      BY <1>1, <2>1
    <3> QED BY <2>1, <3>1, OpenUntilClosed
  <2>3. i - 1 \in c..i /\ c - 1 \in b..(i - 1)
    BY <1>1, <2>1
  <2>4. L(i - 1) >= L(c)
    BY <2>2, <2>3 DEF IsOpen
  <2>5. L(c - 1) >= L(b)
    BY <1>2, <2>3
  <2>6. L(b) = L(i - 1)
    OBVIOUS
  <2> HIDE DEF L, around
  <2> QED BY <1>1, <2>1, <2>4, <2>5, <2>6
<1>5. around \in SUBSET Int
  <2>1. Begins(lines) \subseteq 1..N
    BY DEF Begins
  <2> QED BY <2>1
<1>6. Owner(lines, i) = IF around = {} THEN 0 ELSE Max(around)
  BY DEF Owner
<1> HIDE DEF around
<1>7. Max(around) = b
  BY <1>3, <1>4, <1>5, MaxIs
<1> QED BY <1>3, <1>6, <1>7

\* The component that a line stands directly in is open at that line and began before it.
LEMMA OwnerOpen ==
  ASSUME NEW lines \in Seq(ContentLines), NEW i \in 1..Len(lines), NEW b, b = Owner(lines, i), b # 0
  PROVE  b \in Begins(lines) /\ b \in 1..Len(lines) /\ b < i /\ IsOpen(lines, b, i)
<1> DEFINE N == Len(lines)
           around == {c \in Begins(lines) : c < i /\ (Closing(lines, c) > i \/ Closing(lines, c) = 0)}
<1>1. around \subseteq 1..N /\ N \in Nat
  BY DEF Begins
<1>2. b = IF around = {} THEN 0 ELSE Max(around)
  BY DEF Owner
<1>3. b \in around
  <2> HIDE DEF around
  <2>1. around # {} /\ b = Max(around)
    BY <1>2
  <2> QED BY <1>1, <2>1, MaxOfIndices
<1>4. b \in Begins(lines) /\ b < i /\ (Closing(lines, b) > i \/ Closing(lines, b) = 0) /\ b \in 1..N
  BY <1>1, <1>3
<1>5. i \in b..N
  BY <1>4
<1>6. IsOpen(lines, b, i)
  BY <1>4, <1>5, OpenUntilClosed
<1> QED BY <1>4, <1>6

\* Two open components of one depth are the same.
LEMMA OneOfDepth ==
  ASSUME NEW lines \in Seq(ContentLines), NEW i \in 0..Len(lines), NEW b, NEW c,
         IsOpen(lines, b, i), IsOpen(lines, c, i), Level(lines, b) = Level(lines, c)
  PROVE  b = c
<1> DEFINE L(x) == Level(lines, x)
<1>1. ASSUME NEW u, NEW v, IsOpen(lines, u, i), IsOpen(lines, v, i), L(u) = L(v), u < v PROVE FALSE
  <2>1. u \in Begins(lines) /\ v \in Begins(lines) /\ v <= i /\ \A x \in u..i : L(x) >= L(u)
    BY <1>1 DEF IsOpen
  <2>2. u \in 1..Len(lines) /\ v \in 1..Len(lines) /\ L(v) = L(v - 1) + 1 /\ L(v) \in Int /\ L(v - 1) \in Int
    BY <2>1, OpensHere
  <2>3. v - 1 \in u..i
    BY <1>1, <2>1, <2>2
  <2>4. L(v - 1) >= L(u)
    BY <2>1, <2>3
  <2> HIDE DEF L
  <2> QED BY <1>1, <2>2, <2>4
<1>2. b \in Int /\ c \in Int
  <2>1. b \in Begins(lines) /\ c \in Begins(lines)
    BY DEF IsOpen
  <2> QED BY <2>1, OpensHere
<1>3. ~(b < c)
  <2>1. L(b) = L(c)
    OBVIOUS
  <2> QED BY <1>1, <2>1
<1>4. ~(c < b)
  <2>1. L(c) = L(b)
    OBVIOUS
  <2> QED BY <1>1, <2>1
<1> QED BY <1>2, <1>3, <1>4

-----------------------------------------------------------------------------
(* The sum of a date and a DURATION. *)

LEMMA WrapRange == ASSUME NEW x \in Int PROVE Wrap(x) \in -(MaxInt + 1)..MaxInt
<1>1. MaxInt \in Nat
  BY IcsAssumption
<1> DEFINE m == 2 * (MaxInt + 1)
           r == (x + MaxInt + 1) % m
<1>2. m \in Nat /\ m > 0 /\ m = MaxInt + MaxInt + 2
  BY <1>1
<1>3. r \in 0..(m - 1)
  BY <1>1, <1>2
<1>4. Wrap(x) = r - MaxInt - 1
  BY DEF Wrap
<1> HIDE DEF m, r
<1> QED BY <1>1, <1>2, <1>3, <1>4

\* A number is at most a quotient just when its product is at most the dividend.
LEMMA QuotientBounds ==
  ASSUME NEW m \in Nat, NEW b \in Nat \ {0}, NEW a \in Nat
  PROVE  a <= m \div b <=> a * b <= m
<1>1. ASSUME a > m \div b PROVE ~(a * b <= m)
  <2> DEFINE q == m \div b
             r == m % b
  <2>1. q \in Nat /\ r \in Nat /\ m = b * q + r /\ r < b /\ a >= q + 1
    BY <1>1, Division
  <2> HIDE DEF q, r
  <2>2. a * b >= (q + 1) * b
    BY <2>1
  <2>3. (q + 1) * b = b * q + b
    BY <2>1
  <2>4. a * b \in Nat /\ b * q \in Nat
    BY <2>1
  <2> DEFINE ab == a * b
             bq == b * q
  <2>5. ab >= bq + b /\ m = bq + r /\ ab \in Nat /\ bq \in Nat
    BY <2>1, <2>2, <2>3, <2>4
  <2> HIDE DEF ab, bq
  <2>6. ~(ab <= m)
    BY <2>1, <2>5
  <2> QED BY <2>6 DEF ab
<1>2. m \div b \in Nat
  BY Division
<1> QED BY <1>1, <1>2, Quotient

\* A DURATION of days is added when it fits, and exactly.
LEMMA DaysAdded ==
  ASSUME NEW n \in 0..MaxInt, NEW start \in -(MaxInt + 1)..MaxInt, NEW sum, sum = AddTo(Days(n), start)
  PROVE  /\ sum.valid \in BOOLEAN /\ sum.end \in Int
         /\ sum.valid <=> n * DayMillis <= MaxInt /\ start + n * DayMillis <= MaxInt
         /\ sum.valid => sum.end = start + n * DayMillis
<1> DEFINE d == Days(n)
           maxDays == MaxInt \div DayMillis
           part == n * DayMillis
           days == Wrap(d.sign * Wrap(Wrap(d.weeks * 7) + d.days))
           end == start + days * DayMillis + Wrap(d.sign * Clock(d)) \div Milli
<1>1. /\ d.sign = 1 /\ d.weeks = 0 /\ d.days = n /\ d.hours = 0 /\ d.minutes = 0 /\ d.seconds = 0
      /\ n \in Nat /\ n <= MaxInt /\ MaxInt \in Nat /\ start \in Int /\ -MaxInt - 1 <= start /\ start <= MaxInt
  BY Positive DEF Days
<1>2. Wrap(0) = 0 /\ Wrap(n) = n
  BY <1>1, NoWrap
<1>3. \A unit \in Nat \ {0} : ClockStep(0, 0, unit) = 0
  <2> TAKE unit \in Nat \ {0}
  <2>1. MaxInt \div unit \in Nat
    BY <1>1, Division
  <2>2. 0 * unit = 0
    OBVIOUS
  <2> QED BY <1>1, <1>2, <2>1, <2>2 DEF ClockStep
<1>4. Clock(d) = 0
  BY <1>1, <1>3, Positive DEF Clock
<1>5. days = n
  BY <1>1, <1>2
<1>6. maxDays \in Nat /\ (n <= maxDays <=> n * DayMillis <= MaxInt)
  BY <1>1, Positive, Division, QuotientBounds
<1>7. DaysFit(d) <=> part <= MaxInt
  <2>1. maxDays \div 7 \in Nat
    BY <1>6, Division
  <2>2. DaysFit(d) <=> d.weeks <= maxDays \div 7 /\ d.days <= maxDays - Wrap(d.weeks * 7)
    BY DEF DaysFit
  <2> HIDE DEF maxDays, d
  <2>3. d.weeks * 7 = 0
    BY <1>1
  <2> QED BY <1>1, <1>2, <1>6, <2>1, <2>2, <2>3
<1>8. part \in Nat
  BY <1>1, Positive
<1>9. end = start + part
  <2>1. 0 \div Milli = 0
    BY Positive
  <2>2. d.sign * Clock(d) = 0
    BY <1>1, <1>4
  <2>3. Wrap(d.sign * Clock(d)) \div Milli = 0
    BY <1>2, <2>1, <2>2
  <2>4. end = start + n * DayMillis + 0
    BY <1>5, <2>3
  <2> QED BY <1>1, <1>8, <2>4
<1>10. sum = IF DaysFit(d) /\ Clock(d) >= 0 /\ Wrap(end) = end
             THEN [valid |-> TRUE, end |-> end] ELSE [valid |-> FALSE, end |-> 0]
  BY DEF AddTo
<1> HIDE DEF d, maxDays, part, days, end
<1>11. end \in Int /\ end >= start
  BY <1>1, <1>8, <1>9
<1>12. Wrap(end) = end <=> end <= MaxInt
  <2>1. Wrap(end) = end => end <= MaxInt
    BY <1>1, <1>11, WrapRange
  <2>2. end <= MaxInt => Wrap(end) = end
    BY <1>1, <1>11, NoWrap
  <2> QED BY <2>1, <2>2
<1>13. sum.valid <=> part <= MaxInt /\ start + part <= MaxInt
  BY <1>4, <1>7, <1>9, <1>10, <1>12
<1>14. sum.valid \in BOOLEAN /\ sum.end \in Int /\ (sum.valid => sum.end = start + part)
  BY <1>9, <1>10, <1>11
<1> QED BY <1>13, <1>14 DEF part

-----------------------------------------------------------------------------
(* The parser's state after each line. *)

\* The texts there are, with the ones of a line that is not there and of METHOD's default.
Words == STRING \cup {"", "PUBLISH"}
Builders == [properties : Seq(ContentLines), attendees : Seq(ContentLines), open : BOOLEAN]
ParsedEvents ==
    [method : Words, uid : Words, seq : Int, status : Words, attendees : Seq(Words),
     start : Int, end : SUBSET Int, allDay : BOOLEAN]
Parsers ==
    [failed : BOOLEAN, method : Words, stack : Seq(STRING), events : Seq(ParsedEvents), current : Builders,
     seenCalendar : BOOLEAN, closedCalendar : BOOLEAN, seenComponent : BOOLEAN, eventCount : Nat]

\* The types of the fields of a builder, for leaves that must not expand it.
LEMMA BuilderFields ==
  ASSUME NEW b \in Builders
  PROVE  b.properties \in Seq(ContentLines) /\ b.attendees \in Seq(ContentLines) /\ b.open \in BOOLEAN
BY DEF Builders

\* The types of the fields of the parser.
LEMMA ParserFields ==
  ASSUME NEW p \in Parsers
  PROVE  /\ p.failed \in BOOLEAN /\ p.method \in Words /\ p.stack \in Seq(STRING)
         /\ p.events \in Seq(ParsedEvents) /\ p.current \in Builders /\ p.seenCalendar \in BOOLEAN
         /\ p.closedCalendar \in BOOLEAN /\ p.seenComponent \in BOOLEAN /\ p.eventCount \in Nat
BY DEF Parsers

\* Zero is one of the numbers that a line may carry.
LEMMA ZeroFits == 0 \in -(MaxInt + 1)..MaxInt
<1>1. MaxInt \in Nat
  BY IcsAssumption
<1>2. ASSUME NEW m \in Nat PROVE 0 \in -(m + 1)..m
  OBVIOUS
<1> QED BY <1>1, <1>2

\* A line of which only the name is known, which also stands for a property that is absent.
LEMMA EmptyLine ==
  ASSUME NEW name, NEW l, l = Line(name)
  PROVE  /\ l.name = name /\ l.text \in Words /\ l.num \in -(MaxInt + 1)..MaxInt
         /\ l.ok \in BOOLEAN /\ l.date \in BOOLEAN /\ (l.name = "DURATION" => l.num >= 0)
         /\ l.text = "" /\ l.num = 0
<1>1. l.name = name
  BY DEF Line
<1>2. l.text = "" /\ l.num = 0
  BY DEF Line
<1>3. l.ok = TRUE
  BY DEF Line
<1>4. l.date = FALSE
  BY DEF Line
<1>5. l.text \in Words
  BY <1>2 DEF Words
<1>6. l.num \in -(MaxInt + 1)..MaxInt
  BY <1>2, ZeroFits, Zenon
<1>7. l.ok \in BOOLEAN /\ l.date \in BOOLEAN
  BY <1>3, <1>4
<1>8. l.num >= 0
  <2>1. 0 >= 0
    OBVIOUS
  <2> QED BY <1>2, <2>1, Zenon
<1> QED BY <1>1, <1>2, <1>5, <1>6, <1>7, <1>8

\* The property of a name, or an empty line.
LEMMA PropertyIs ==
  ASSUME NEW b \in Builders, NEW name, NEW l, l = Property(b, name)
  PROVE  /\ l.name = name /\ l.text \in Words /\ l.num \in -(MaxInt + 1)..MaxInt
         /\ l.ok \in BOOLEAN /\ l.date \in BOOLEAN /\ (l.name = "DURATION" => l.num >= 0)
         /\ (~Has(b, name) => l = Line(name))
<1> DEFINE P == b.properties
           at == {i \in 1..Len(P) : P[i].name = name}
<1>1. P \in Seq(ContentLines) /\ Len(P) \in Nat
  BY BuilderFields
<1>2. Has(b, name) <=> at # {}
  BY DEF Has
<1>3. CASE Has(b, name)
  <2>1. Min(at) \in at
    <3>1. at \subseteq 1..Len(P)
      OBVIOUS
    <3> HIDE DEF at
    <3> QED BY <1>1, <1>2, <1>3, <3>1, MinOfIndices
  <2>2. l = P[Min(at)]
    BY <1>3 DEF Property
  <2>3. Min(at) \in 1..Len(P) /\ P[Min(at)].name = name
    BY <2>1
  <2>4. l \in ContentLines /\ l.name = name
    <3> HIDE DEF at, P
    <3> QED BY <1>1, <2>2, <2>3
  <2> QED BY <1>3, <2>4, LineFields DEF Words
<1>4. CASE ~Has(b, name)
  <2>1. l = Line(name)
    BY <1>4 DEF Property
  <2> QED BY <1>4, <2>1, EmptyLine, Zenon
<1> QED BY <1>3, <1>4

\* An event that the builder returns and keeps is an event.
LEMMA BuildType ==
  ASSUME NEW b \in Builders, NEW method \in Words, NEW r, r = Build(b, method)
  PROVE  r.include \in BOOLEAN /\ r.valid \in BOOLEAN /\ (r.include => r.event \in ParsedEvents)
<1> DEFINE uid == Property(b, "UID")
           start == Property(b, "DTSTART")
           end == Property(b, "DTEND")
           duration == Property(b, "DURATION")
           sequence == Property(b, "SEQUENCE")
           status == Property(b, "STATUS")
           sum == AddTo(Days(duration.num), start.num)
           ends == IF Has(b, "DTEND") THEN {end.num}
                   ELSE IF Has(b, "DURATION") THEN {sum.end}
                   ELSE IF start.date THEN {start.num + DayMillis} ELSE {}
           people == [i \in 1..Len(b.attendees) |-> b.attendees[i].text]
           event == [method |-> method, uid |-> uid.text, seq |-> ParseSequence(sequence),
                     status |-> status.text, attendees |-> people,
                     start |-> start.num, end |-> ends, allDay |-> start.date]
<1>1. /\ uid.text \in Words /\ status.text \in Words /\ start.date \in BOOLEAN
      /\ start.num \in -(MaxInt + 1)..MaxInt /\ end.num \in -(MaxInt + 1)..MaxInt
      /\ sequence.num \in -(MaxInt + 1)..MaxInt
  BY PropertyIs
<1>2. duration.num \in -(MaxInt + 1)..MaxInt /\ duration.num >= 0
  BY PropertyIs
<1>3. r = NoEvent \/ r = Invalid \/ r = [include |-> TRUE, valid |-> TRUE, event |-> event]
  BY DEF Build
<1> HIDE DEF uid, start, end, duration, sequence, status
<1>4. ParseSequence(sequence) \in Int
  BY <1>1, Positive DEF ParseSequence
<1>5. sum.end \in Int
  <2>1. duration.num \in 0..MaxInt
    BY <1>2, Positive
  <2> QED BY <1>1, <2>1, DaysAdded
<1>6. ends \in SUBSET Int
  <2>1. start.num \in Int /\ end.num \in Int
    BY <1>1, Positive
  <2> HIDE DEF sum
  <2> QED BY <1>5, <2>1, Positive
<1>7. people \in Seq(Words)
  <2>1. b.attendees \in Seq(ContentLines) /\ Len(b.attendees) \in Nat
    BY BuilderFields
  <2>2. \A i \in 1..Len(b.attendees) : b.attendees[i].text \in Words
    <3> TAKE i \in 1..Len(b.attendees)
    <3>1. b.attendees[i] \in ContentLines
      BY <2>1
    <3>2. b.attendees[i].text \in STRING
      BY <3>1, LineFields
    <3> QED BY <3>2 DEF Words
  <2> QED BY <2>1, <2>2
<1> HIDE DEF ends, people
<1>8. event \in ParsedEvents
  <2>1. start.num \in Int
    BY <1>1, Positive
  <2> QED BY <1>1, <1>4, <1>6, <1>7, <2>1 DEF ParsedEvents
<1> HIDE DEF event
<1>9. CASE r = NoEvent \/ r = Invalid
  <2>1. r.include = FALSE
    BY <1>9 DEF NoEvent, Invalid
  <2>2. r.valid = TRUE \/ r.valid = FALSE
    <3>1. CASE r = NoEvent
      <4>1. r.valid = TRUE
        BY <3>1 DEF NoEvent
      <4> QED BY <4>1
    <3>2. CASE r = Invalid
      <4>1. r.valid = FALSE
        BY <3>2 DEF Invalid
      <4> QED BY <4>1
    <3> QED BY <1>9, <3>1, <3>2
  <2>3. r.valid \in BOOLEAN
    BY <2>2
  <2> QED BY <2>1, <2>3
<1>10. CASE r = [include |-> TRUE, valid |-> TRUE, event |-> event]
  BY <1>8, <1>10
<1> QED BY <1>3, <1>9, <1>10

\* A parser that has returned an error is a parser.
LEMMA RejectType ==
  ASSUME NEW p \in Parsers PROVE Reject(p) \in Parsers
<1>1. <<>> \in Seq(ParsedEvents)
  OBVIOUS
<1>2. ASSUME NEW none \in Seq(ParsedEvents) PROVE [p EXCEPT !.failed = TRUE, !.events = none] \in Parsers
  BY DEF Parsers
<1> QED BY <1>1, <1>2 DEF Reject

\* An error fails the parser.
LEMMA RejectFails == ASSUME NEW p \in Parsers PROVE Reject(p).failed = TRUE
BY DEF Reject, Parsers

\* A builder that was given one more line is a builder.
LEMMA AddType ==
  ASSUME NEW b \in Builders, NEW l \in ContentLines PROVE Add(b, l) \in Builders
<1> DEFINE more == Append(b.properties, l)
           people == Append(b.attendees, l)
<1>1. more \in Seq(ContentLines) /\ people \in Seq(ContentLines)
  BY BuilderFields
<1>2. Add(b, l) = b \/ Add(b, l) = [b EXCEPT !.attendees = people] \/ Add(b, l) = [b EXCEPT !.properties = more]
  BY DEF Add
<1> HIDE DEF more, people
<1> QED BY <1>1, <1>2 DEF Builders

\* The builder of no event, and the fresh builder of a BEGIN:VEVENT.
LEMMA NoBuilderType ==
  /\ NoBuilder \in Builders /\ [NoBuilder EXCEPT !.open = TRUE] \in Builders
  /\ NoBuilder.open = FALSE /\ [NoBuilder EXCEPT !.open = TRUE].open = TRUE
  /\ [NoBuilder EXCEPT !.open = TRUE].properties = <<>>
<1>1. <<>> \in Seq(ContentLines)
  OBVIOUS
<1>2. ASSUME NEW none \in Seq(ContentLines), NEW b, b = [properties |-> none, attendees |-> none, open |-> FALSE]
      PROVE  b \in Builders /\ [b EXCEPT !.open = TRUE] \in Builders
  BY <1>2 DEF Builders
<1>3. NoBuilder \in Builders /\ [NoBuilder EXCEPT !.open = TRUE] \in Builders
  BY <1>1, <1>2 DEF NoBuilder
<1> QED BY <1>3 DEF NoBuilder

\* Each turn of the loop over the lines leaves a parser behind.
LEMMA TurnType ==
  ASSUME NEW p \in Parsers, NEW l \in ContentLines, NEW q, q = Turn(p, l)
  PROVE  q \in Parsers
<1>1. /\ p.failed \in BOOLEAN /\ p.method \in Words /\ p.stack \in Seq(STRING)
      /\ p.events \in Seq(ParsedEvents) /\ p.current \in Builders /\ p.seenCalendar \in BOOLEAN
      /\ p.closedCalendar \in BOOLEAN /\ p.seenComponent \in BOOLEAN /\ p.eventCount \in Nat
  BY ParserFields
<1>2. l.text \in STRING /\ l.text \in Words
  BY LineFields DEF Words
<1>3. CASE q = p \/ q = Reject(p)
  BY <1>3, RejectType
<1>4. CASE q = OnBegin(p, l) /\ q # Reject(p)
  <2> DEFINE depth == Len(p.stack)
             event == depth > 0 /\ l.text = "VEVENT"
             stack == Append(p.stack, l.text)
             count == IF event THEN p.eventCount + 1 ELSE p.eventCount
             current == IF event THEN [NoBuilder EXCEPT !.open = TRUE] ELSE p.current
             calendar == p.seenCalendar \/ depth = 0
             component == p.seenComponent \/ depth > 0
  <2>1. q = [p EXCEPT !.stack = stack, !.seenCalendar = calendar, !.seenComponent = component,
                      !.eventCount = count, !.current = current]
    BY <1>4 DEF OnBegin
  <2>2. stack \in Seq(STRING) /\ count \in Nat /\ current \in Builders
    BY <1>1, <1>2, NoBuilderType
  <2>3. calendar \in BOOLEAN /\ component \in BOOLEAN
    BY <1>1
  <2> HIDE DEF stack, count, current, calendar, component
  <2> QED BY <2>1, <2>2, <2>3 DEF Parsers
<1>5. CASE q = OnEnd(p, l) /\ q # Reject(p)
  <2> DEFINE built == Build(p.current, p.method)
             event == l.text = "VEVENT" /\ p.current.open
             stack == SubSeq(p.stack, 1, Len(p.stack) - 1)
             events == IF event /\ built.include THEN Append(p.events, built.event) ELSE p.events
             current == IF event THEN NoBuilder ELSE p.current
             closed == p.closedCalendar \/ l.text = "VCALENDAR"
  <2>1. p.stack # <<>> /\ q = [p EXCEPT !.stack = stack, !.events = events, !.current = current,
                                        !.closedCalendar = closed]
    BY <1>5 DEF OnEnd, Front
  <2>2. stack \in Seq(STRING) /\ current \in Builders
    BY <1>1, <2>1, NoBuilderType
  <2>3. events \in Seq(ParsedEvents)
    <3>1. built.include => built.event \in ParsedEvents
      BY <1>1, BuildType
    <3> HIDE DEF built, event
    <3> QED BY <1>1, <3>1
  <2>4. closed \in BOOLEAN
    BY <1>1
  <2> HIDE DEF stack, events, current, closed
  <2> QED BY <2>1, <2>2, <2>3, <2>4 DEF Parsers
<1>6. CASE q = OnProperty(p, l) /\ q # Reject(p)
  <2>1. q = p \/ q = [p EXCEPT !.method = l.text] \/ q = [p EXCEPT !.current = Add(p.current, l)]
    BY <1>6 DEF OnProperty
  <2>2. Add(p.current, l) \in Builders
    BY <1>1, AddType
  <2> QED BY <1>2, <2>1, <2>2 DEF Parsers
<1> QED BY <1>3, <1>4, <1>5, <1>6 DEF Turn

\* The parser starts as a parser.
LEMMA InitialParserType == InitialParser \in Parsers
<1>1. <<>> \in Seq(STRING) /\ <<>> \in Seq(ParsedEvents) /\ "PUBLISH" \in Words
  BY DEF Words
<1>2. ASSUME NEW word \in Words, NEW stack \in Seq(STRING), NEW events \in Seq(ParsedEvents), NEW b \in Builders
      PROVE  [failed |-> FALSE, method |-> word, stack |-> stack, events |-> events, current |-> b,
              seenCalendar |-> FALSE, closedCalendar |-> FALSE, seenComponent |-> FALSE, eventCount |-> 0]
             \in Parsers
  BY DEF Parsers
<1> QED BY <1>1, <1>2, NoBuilderType DEF InitialParser

\* The parser's state is what the definition says.
LEMMA ParsedIs ==
  ASSUME NEW lines \in Seq(ContentLines)
  PROVE  LET p == Parsed(lines)
         IN  /\ p \in [0..Len(lines) -> Parsers] /\ p[0] = InitialParser
             /\ \A i \in 1..Len(lines) : p[i] = Turn(p[i - 1], lines[i])
<1> DEFINE N == Len(lines)
           V == Parsers
           a == InitialParser
           G == [t \in V \X (1..N) |-> Turn(t[1], lines[t[2]])]
           Is(f) == f = [k \in 0..N |-> IF k = 0 THEN a ELSE Turn(f[k - 1], lines[k])]
           g == CHOOSE h : Is(h)
<1>1. N \in Nat /\ a \in V
  BY InitialParserType
<1>2. G \in [V \X (1..N) -> V]
  <2>1. ASSUME NEW t \in V \X (1..N) PROVE Turn(t[1], lines[t[2]]) \in V
    <3>1. t[1] \in V /\ t[2] \in 1..N
      OBVIOUS
    <3>2. lines[t[2]] \in ContentLines
      BY <3>1
    <3> QED BY <3>1, <3>2, TurnType
  <2> HIDE DEF N, V
  <2> QED BY <2>1
<1>3. PICK f : Loops(f, N, V, a, G)
  <2> HIDE DEF G, N, V, a
  <2> QED BY <1>1, <1>2, Iteration
<1>4. ASSUME NEW i \in 1..N PROVE f[i] = Turn(f[i - 1], lines[i])
  <2>1. i - 1 \in 0..N
    OBVIOUS
  <2>2. <<f[i - 1], i>> \in V \X (1..N)
    BY <1>3, <2>1 DEF Loops
  <2> HIDE DEF V
  <2> QED BY <1>3, <2>2 DEF Loops
<1>5. Is(f)
  <2> HIDE DEF a
  <2> QED BY <1>3, <1>4 DEF Loops
<1>6. Is(g)
  <2> HIDE DEF Is
  <2> QED BY <1>5, Zenon
<1>7. Parsed(lines) = g
  BY DEF Parsed
<1> HIDE DEF g, a
<1>8. DOMAIN g = 0..N /\ g[0] = a /\ \A i \in 1..N : g[i] = Turn(g[i - 1], lines[i])
  <2> DEFINE Piece(i) == IF i = 0 THEN a ELSE Turn(g[i - 1], lines[i])
  <2>1. g = [i \in 0..N |-> Piece(i)]
    BY <1>6
  <2> HIDE DEF Piece
  <2>2. DOMAIN g = 0..N /\ \A i \in 0..N : g[i] = Piece(i)
    BY <2>1
  <2>3. Piece(0) = a /\ \A i \in 1..N : Piece(i) = Turn(g[i - 1], lines[i])
    BY DEF Piece
  <2> QED BY <1>1, <2>2, <2>3
<1>9. \A n \in Nat : n <= N => g[n] = f[n]
  <2> DEFINE S == {n \in Nat : n <= N => g[n] = f[n]}
  <2>1. 0 \in S
    BY <1>3, <1>8 DEF Loops
  <2>2. ASSUME NEW n \in Nat, n \in S PROVE n + 1 \in S
    <3> SUFFICES ASSUME n + 1 <= N PROVE g[n + 1] = f[n + 1]
      OBVIOUS
    <3>1. n + 1 \in 1..N /\ (n + 1) - 1 = n /\ g[n] = f[n]
      BY <2>2
    <3>2. g[n + 1] = Turn(g[n], lines[n + 1]) /\ f[n + 1] = Turn(f[n], lines[n + 1])
      BY <1>4, <1>8, <3>1
    <3> QED BY <3>1, <3>2
  <2>3. \A n \in Nat : n \in S
    <3> HIDE DEF S
    <3> QED BY <2>1, <2>2, SetInduction
  <2> QED BY <2>3
<1>10. g \in [0..N -> V]
  <2>1. \A i \in 0..N : g[i] \in V
    BY <1>3, <1>9 DEF Loops
  <2>2. g = [i \in 0..N |-> g[i]]
    BY <1>6, <1>8
  <2> HIDE DEF V, N
  <2> QED BY <2>1, <2>2
<1> QED BY <1>7, <1>8, <1>10 DEF a

-----------------------------------------------------------------------------
(* What a builder makes of the lines it was given. *)

\* The names that decide what an event says.
Telling == {"UID", "DTSTART", "DTEND", "DURATION", "SUMMARY", "SEQUENCE"}

\* The builder holds the first line of each name that stands directly inside.
Says(lines, b, builder) ==
    \A name \in Telling :
        Said(lines, b, name) = IF Has(builder, name) THEN {Property(builder, name)} ELSE {}

\* An event is kept when the builder's own UID and DTSTART say so.
LEMMA KeptIs ==
  ASSUME NEW lines, NEW b, NEW builder, Says(lines, b, builder)
  PROVE  Kept(lines, b) <=> /\ Has(builder, "UID") /\ Has(builder, "DTSTART")
                            /\ Property(builder, "UID").text # "" \/ ~Property(builder, "UID").ok
<1> DEFINE uid == Property(builder, "UID")
           start == Property(builder, "DTSTART")
<1>1. /\ Said(lines, b, "UID") = IF Has(builder, "UID") THEN {uid} ELSE {}
      /\ Said(lines, b, "DTSTART") = IF Has(builder, "DTSTART") THEN {start} ELSE {}
  BY DEF Says, Telling
<1>2. Kept(lines, b) <=> /\ Said(lines, b, "UID") # {} /\ Said(lines, b, "DTSTART") # {}
                         /\ \A l \in Said(lines, b, "UID") : l.text # "" \/ ~l.ok
  BY DEF Kept
<1> HIDE DEF uid, start
<1>3. (\A l \in {uid} : l.text # "" \/ ~l.ok) <=> uid.text # "" \/ ~uid.ok
  BY Zenon
<1>4. {uid} # {} /\ {start} # {}
  OBVIOUS
<1>5. CASE Has(builder, "UID") /\ Has(builder, "DTSTART")
  <2>1. Said(lines, b, "UID") = {uid} /\ Said(lines, b, "DTSTART") = {start}
    BY <1>1, <1>5, Zenon
  <2> QED BY <1>2, <1>3, <1>4, <1>5, <2>1, Zenon DEF uid
<1>6. CASE ~Has(builder, "UID") \/ ~Has(builder, "DTSTART")
  <2>1. Said(lines, b, "UID") = {} \/ Said(lines, b, "DTSTART") = {}
    BY <1>1, <1>6, Zenon
  <2> QED BY <1>2, <1>6, <2>1, Zenon
<1> QED BY <1>5, <1>6, Zenon

\* An event is spoiled when one of the builder's own lines does not read, or its end overflows.
LEMMA SpoiledIs ==
  ASSUME NEW lines, NEW b, NEW builder, Says(lines, b, builder),
         NEW uid, NEW start, NEW end, NEW duration, NEW summary,
         uid = Property(builder, "UID"), start = Property(builder, "DTSTART"), end = Property(builder, "DTEND"),
         duration = Property(builder, "DURATION"), summary = Property(builder, "SUMMARY")
  PROVE  Spoiled(lines, b) <=>
             /\ Kept(lines, b)
             /\ \/ ~uid.ok
                \/ ~start.ok
                \/ Has(builder, "DTEND") /\ ~end.ok
                \/ Has(builder, "SUMMARY") /\ ~summary.ok
                \/ /\ ~Has(builder, "DTEND") /\ Has(builder, "DURATION")
                   /\ ~duration.ok \/ duration.num * DayMillis > MaxInt
                      \/ start.num + duration.num * DayMillis > MaxInt
<1> DEFINE U == Said(lines, b, "UID")
           S == Said(lines, b, "DTSTART")
           E == Said(lines, b, "DTEND")
           D == Said(lines, b, "DURATION")
           T == Said(lines, b, "SUMMARY")
           Long(d, s) == ~d.ok \/ d.num * DayMillis > MaxInt \/ s.num + d.num * DayMillis > MaxInt
<1>1. /\ U = IF Has(builder, "UID") THEN {uid} ELSE {}
      /\ S = IF Has(builder, "DTSTART") THEN {start} ELSE {}
      /\ E = IF Has(builder, "DTEND") THEN {end} ELSE {}
      /\ D = IF Has(builder, "DURATION") THEN {duration} ELSE {}
      /\ T = IF Has(builder, "SUMMARY") THEN {summary} ELSE {}
  BY DEF Says, Telling
<1>2. Spoiled(lines, b) <=>
          /\ Kept(lines, b)
          /\ \/ \E l \in U : ~l.ok
             \/ \E l \in S : ~l.ok
             \/ \E l \in E : ~l.ok
             \/ \E l \in T : ~l.ok
             \/ E = {} /\ \E l \in D, s \in S : Long(l, s)
  <2> DEFINE Bad(name) == \E l \in Said(lines, b, name) : ~l.ok
  <2>1. Spoiled(lines, b) <=> /\ Kept(lines, b)
                              /\ \/ \E name \in {"UID", "DTSTART", "DTEND", "SUMMARY"} : Bad(name)
                                 \/ E = {} /\ \E l \in D, s \in S : Long(l, s)
    BY Zenon DEF Spoiled
  <2>2. (\E name \in {"UID", "DTSTART", "DTEND", "SUMMARY"} : Bad(name))
            <=> Bad("UID") \/ Bad("DTSTART") \/ Bad("DTEND") \/ Bad("SUMMARY")
    BY Zenon
  <2> HIDE DEF Long
  <2> QED BY <2>1, <2>2, Zenon
<1>3. Kept(lines, b) => Has(builder, "UID") /\ Has(builder, "DTSTART")
  BY KeptIs
<1> SUFFICES ASSUME Kept(lines, b)
             PROVE  Spoiled(lines, b) <=>
                        \/ ~uid.ok
                        \/ ~start.ok
                        \/ Has(builder, "DTEND") /\ ~end.ok
                        \/ Has(builder, "SUMMARY") /\ ~summary.ok
                        \/ ~Has(builder, "DTEND") /\ Has(builder, "DURATION") /\ Long(duration, start)
  BY <1>2, Zenon
<1> HIDE DEF U, S, E, D, T, Long
<1>4. (\E l \in U : ~l.ok) <=> ~uid.ok
  BY <1>1, <1>3, Zenon
<1>5. (\E l \in S : ~l.ok) <=> ~start.ok
  BY <1>1, <1>3, Zenon
<1>6. (\E l \in E : ~l.ok) <=> Has(builder, "DTEND") /\ ~end.ok
  BY <1>1, Zenon
<1>7. (\E l \in T : ~l.ok) <=> Has(builder, "SUMMARY") /\ ~summary.ok
  BY <1>1, Zenon
<1>8. E = {} <=> ~Has(builder, "DTEND")
  <2>1. {end} # {}
    OBVIOUS
  <2> QED BY <1>1, <2>1, Zenon
<1>9. (\E l \in D, s \in S : Long(l, s)) <=> Has(builder, "DURATION") /\ Long(duration, start)
  <2>1. S = {start}
    BY <1>1, <1>3, Zenon
  <2> QED BY <1>1, <2>1, Zenon
<1> DEFINE A1 == \E l \in U : ~l.ok
           A2 == \E l \in S : ~l.ok
           A3 == \E l \in E : ~l.ok
           A4 == \E l \in T : ~l.ok
           A5 == \E l \in D, s \in S : Long(l, s)
<1>10. Spoiled(lines, b) <=> A1 \/ A2 \/ A3 \/ A4 \/ (E = {} /\ A5)
  BY <1>2, Zenon
<1>11. /\ A1 <=> ~uid.ok
       /\ A2 <=> ~start.ok
       /\ A3 <=> Has(builder, "DTEND") /\ ~end.ok
       /\ A4 <=> Has(builder, "SUMMARY") /\ ~summary.ok
       /\ A5 <=> Has(builder, "DURATION") /\ Long(duration, start)
  BY <1>4, <1>5, <1>6, <1>7, <1>9, Zenon
<1> HIDE DEF A1, A2, A3, A4, A5
<1> QED BY <1>8, <1>10, <1>11

\* What build returns: invalid for what spoils the calendar, an event for what
\* is kept, and what the lines say in it.
LEMMA BuildIs ==
  ASSUME NEW lines, NEW b, NEW builder \in Builders, Says(lines, b, builder), NEW method,
         NEW r, r = Build(builder, method)
  PROVE  /\ Spoiled(lines, b) => r.valid = FALSE
         /\ ~Spoiled(lines, b) => r.valid = TRUE
         /\ Kept(lines, b) /\ ~Spoiled(lines, b) =>
                r.include = TRUE /\ r.event.method = method /\ ReadAs(lines, b, r.event)
         /\ ~Kept(lines, b) => r.include = FALSE
<1> DEFINE uid == Property(builder, "UID")
           start == Property(builder, "DTSTART")
           end == Property(builder, "DTEND")
           duration == Property(builder, "DURATION")
           summary == Property(builder, "SUMMARY")
           sequence == Property(builder, "SEQUENCE")
           status == Property(builder, "STATUS")
           sum == AddTo(Days(duration.num), start.num)
           ends == IF Has(builder, "DTEND") THEN {end.num}
                   ELSE IF Has(builder, "DURATION") THEN {sum.end}
                   ELSE IF start.date THEN {start.num + DayMillis} ELSE {}
           event == [method |-> method, uid |-> uid.text, seq |-> ParseSequence(sequence),
                     status |-> status.text,
                     attendees |-> [i \in 1..Len(builder.attendees) |-> builder.attendees[i].text],
                     start |-> start.num, end |-> ends, allDay |-> start.date]
           U == Has(builder, "UID")
           S == Has(builder, "DTSTART")
           E == Has(builder, "DTEND")
           D == Has(builder, "DURATION")
           Short == duration.ok /\ sum.valid
<1>1. r = IF ~U \/ ~S THEN NoEvent
          ELSE IF ~uid.ok THEN Invalid
          ELSE IF uid.text = "" THEN NoEvent
          ELSE IF ~start.ok THEN Invalid
          ELSE IF E /\ ~end.ok THEN Invalid
          ELSE IF ~E /\ D /\ ~Short THEN Invalid
          ELSE IF ~summary.ok THEN Invalid
          ELSE [include |-> TRUE, valid |-> TRUE, event |-> event]
  BY DEF Build
<1>2. Kept(lines, b) <=> U /\ S /\ (uid.text # "" \/ ~uid.ok)
  BY KeptIs
<1>3. ~Has(builder, "SUMMARY") => summary.ok
  <2>1. ~Has(builder, "SUMMARY") => summary = Line("SUMMARY")
    BY PropertyIs
  <2>2. Line("SUMMARY").ok
    BY DEF Line
  <2> HIDE DEF summary
  <2> QED BY <2>1, <2>2, Zenon
<1>4. /\ duration.num \in 0..MaxInt /\ start.num \in -(MaxInt + 1)..MaxInt
  <2>1. duration.num \in -(MaxInt + 1)..MaxInt /\ duration.num >= 0
    BY PropertyIs
  <2> HIDE DEF duration, start
  <2>2. duration.num \in 0..MaxInt
    BY <2>1, Positive
  <2>3. start.num \in -(MaxInt + 1)..MaxInt
    BY PropertyIs DEF start
  <2> QED BY <2>2, <2>3
<1>5. /\ sum.valid \in BOOLEAN
      /\ sum.valid <=> duration.num * DayMillis <= MaxInt /\ start.num + duration.num * DayMillis <= MaxInt
      /\ sum.valid => sum.end = start.num + duration.num * DayMillis
  <2> HIDE DEF duration, start
  <2> QED BY <1>4, DaysAdded
<1>6. Short <=> ~(~duration.ok \/ duration.num * DayMillis > MaxInt
                  \/ start.num + duration.num * DayMillis > MaxInt)
  <2> HIDE DEF duration, start, sum
  <2> DEFINE part == duration.num * DayMillis
  <2>1. part \in Int /\ start.num + part \in Int /\ MaxInt \in Int
    BY <1>4, Positive
  <2>2. sum.valid <=> part <= MaxInt /\ start.num + part <= MaxInt
    BY <1>5
  <2>3. sum.valid <=> ~(part > MaxInt) /\ ~(start.num + part > MaxInt)
    <3> HIDE DEF part
    <3> DEFINE total == start.num + part
    <3> HIDE DEF total
    <3>1. part \in Int /\ total \in Int /\ MaxInt \in Int /\ (sum.valid <=> part <= MaxInt /\ total <= MaxInt)
      BY <2>1, <2>2 DEF total
    <3>2. (part <= MaxInt <=> ~(part > MaxInt)) /\ (total <= MaxInt <=> ~(total > MaxInt))
      BY <3>1
    <3>3. sum.valid <=> ~(part > MaxInt) /\ ~(total > MaxInt)
      BY <3>1, <3>2, Zenon
    <3> QED BY <3>3 DEF total
  <2> QED BY <2>3, Zenon
<1>7. Spoiled(lines, b) <=>
          /\ Kept(lines, b)
          /\ \/ ~uid.ok
             \/ ~start.ok
             \/ E /\ ~end.ok
             \/ Has(builder, "SUMMARY") /\ ~summary.ok
             \/ ~E /\ D /\ ~Short
  <2>1. PICK u, s, e, d, t : u = uid /\ s = start /\ e = end /\ d = duration /\ t = summary
    OBVIOUS
  <2>2. Spoiled(lines, b) <=>
            /\ Kept(lines, b)
            /\ \/ ~u.ok
               \/ ~s.ok
               \/ Has(builder, "DTEND") /\ ~e.ok
               \/ Has(builder, "SUMMARY") /\ ~t.ok
               \/ /\ ~Has(builder, "DTEND") /\ Has(builder, "DURATION")
                  /\ ~d.ok \/ d.num * DayMillis > MaxInt \/ s.num + d.num * DayMillis > MaxInt
    BY <2>1, SpoiledIs
  <2>3. ~Short <=> ~d.ok \/ d.num * DayMillis > MaxInt \/ s.num + d.num * DayMillis > MaxInt
    BY <1>6, <2>1, Zenon
  <2>4. /\ ~u.ok <=> ~uid.ok
        /\ ~s.ok <=> ~start.ok
        /\ ~e.ok <=> ~end.ok
        /\ ~t.ok <=> ~summary.ok
    BY <2>1, Zenon
  <2> HIDE DEF uid, start, end, summary, Short
  <2> QED BY <2>2, <2>3, <2>4
<1>8. ReadAs(lines, b, event) \/ ~(U /\ S /\ (~E /\ D => Short))
  <2> SUFFICES ASSUME U, S, ~E /\ D => Short PROVE ReadAs(lines, b, event)
    OBVIOUS
  <2>1. /\ Said(lines, b, "UID") = {uid} /\ Said(lines, b, "DTSTART") = {start}
        /\ Said(lines, b, "SEQUENCE") = IF Has(builder, "SEQUENCE") THEN {sequence} ELSE {}
        /\ Said(lines, b, "DTEND") = IF E THEN {end} ELSE {}
        /\ Said(lines, b, "DURATION") = IF D THEN {duration} ELSE {}
    BY DEF Says, Telling
  <2>2. event.uid = uid.text /\ event.start = start.num /\ event.seq = ParseSequence(sequence) /\ event.end = ends
    OBVIOUS
  <2>3. ~Has(builder, "SEQUENCE") => ParseSequence(sequence) = 0
    <3>1. ~Has(builder, "SEQUENCE") => sequence = Line("SEQUENCE")
      BY PropertyIs
    <3>2. Line("SEQUENCE").num = 0 /\ Line("SEQUENCE").ok
      BY DEF Line
    <3>3. ParseSequence(Line("SEQUENCE")) = 0
      BY <3>2 DEF ParseSequence
    <3> HIDE DEF sequence
    <3> QED BY <3>1, <3>3, Zenon
  <2>4. ends = EndSaid(lines, b)
    <3> DEFINE starts == Said(lines, b, "DTSTART")
               enders == Said(lines, b, "DTEND")
               durations == Said(lines, b, "DURATION")
               said == {l.num : l \in enders}
               lasted == {s.num + l.num * DayMillis : s \in starts, l \in durations}
               allDay == {s.num + DayMillis : s \in {x \in starts : x.date}}
    <3>1. EndSaid(lines, b) = IF enders # {} THEN said ELSE IF durations # {} THEN lasted ELSE allDay
      BY DEF EndSaid
    <3>2. starts = {start} /\ enders = (IF E THEN {end} ELSE {}) /\ durations = (IF D THEN {duration} ELSE {})
      BY <2>1
    <3>3. sum.valid => sum.end = start.num + duration.num * DayMillis
      BY <1>5
    <3>4. ends = IF E THEN {end.num}
                 ELSE IF D THEN {sum.end}
                 ELSE IF start.date THEN {start.num + DayMillis} ELSE {}
      OBVIOUS
    <3> HIDE DEF starts, enders, durations, start, end, duration, sum, ends
    <3>5. CASE E
      <4>1. enders = {end} /\ {end} # {}
        BY <3>2, <3>5
      <4>2. {l.num : l \in {end}} = {end.num}
        OBVIOUS
      <4> QED BY <3>1, <3>4, <3>5, <4>1, <4>2
    <3>6. CASE ~E /\ D
      <4>1. enders = {} /\ durations = {duration} /\ {duration} # {}
        BY <3>2, <3>6
      <4>2. {s.num + l.num * DayMillis : s \in {start}, l \in {duration}}
                = {start.num + duration.num * DayMillis}
        OBVIOUS
      <4>3. sum.end = start.num + duration.num * DayMillis
        BY <3>3, <3>6
      <4>4. ends = {sum.end}
        BY <3>4, <3>6, Zenon
      <4>5. EndSaid(lines, b) = lasted
        <5> HIDE DEF said, lasted, allDay
        <5> QED BY <3>1, <4>1
      <4> QED BY <3>2, <4>1, <4>2, <4>3, <4>4, <4>5
    <3>7. CASE ~E /\ ~D
      <4>1. enders = {} /\ durations = {}
        BY <3>2, <3>7
      <4>2. {s.num + DayMillis : s \in {x \in {start} : x.date}} =
                IF start.date THEN {start.num + DayMillis} ELSE {}
        OBVIOUS
      <4>3. ends = IF start.date THEN {start.num + DayMillis} ELSE {}
        BY <3>4, <3>7, Zenon
      <4>4. EndSaid(lines, b) = allDay
        <5> HIDE DEF said, lasted, allDay
        <5> QED BY <3>1, <4>1
      <4> QED BY <3>2, <4>2, <4>3, <4>4
    <3> QED BY <3>5, <3>6, <3>7
  <2> HIDE DEF uid, start, end, duration, sequence, sum, ends, event
  <2>5. /\ \A l \in Said(lines, b, "UID") : event.uid = l.text
        /\ \A l \in Said(lines, b, "DTSTART") : event.start = l.num
    BY <2>1, <2>2, Zenon
  <2>6. \A l \in Said(lines, b, "SEQUENCE") : event.seq = ParseSequence(l)
    BY <2>1, <2>2, Zenon
  <2>7. Said(lines, b, "SEQUENCE") = {} => event.seq = 0
    <3>1. {sequence} # {}
      OBVIOUS
    <3> QED BY <2>1, <2>2, <2>3, <3>1, Zenon
  <2> QED BY <2>2, <2>4, <2>5, <2>6, <2>7 DEF ReadAs
<1>9. event.method = method
  OBVIOUS
<1> HIDE DEF uid, start, end, duration, summary, sum, event, Short, U, S, E, D
<1>10. /\ r = NoEvent => r.include = FALSE /\ r.valid = TRUE
       /\ r = Invalid => r.include = FALSE /\ r.valid = FALSE
  <2>1. NoEvent.include = FALSE /\ NoEvent.valid = TRUE
    BY DEF NoEvent
  <2>2. Invalid.include = FALSE /\ Invalid.valid = FALSE
    BY DEF Invalid
  <2> QED BY <2>1, <2>2, Zenon
<1>11. CASE ~Kept(lines, b)
  <2>1. r = NoEvent /\ ~Spoiled(lines, b)
    BY <1>1, <1>2, <1>7, <1>11, Zenon
  <2> QED BY <1>10, <1>11, <2>1, Zenon
<1>12. CASE Spoiled(lines, b)
  <2>1. r = Invalid
    BY <1>1, <1>2, <1>3, <1>7, <1>12, Zenon
  <2>2. Kept(lines, b)
    BY <1>7, <1>12, Zenon
  <2> QED BY <1>10, <1>12, <2>1, <2>2, Zenon
<1>13. CASE Kept(lines, b) /\ ~Spoiled(lines, b)
  <2>1. r = [include |-> TRUE, valid |-> TRUE, event |-> event]
    <3>1. U /\ S /\ uid.ok /\ uid.text # "" /\ start.ok /\ ~(E /\ ~end.ok) /\ ~(~E /\ D /\ ~Short)
      BY <1>2, <1>7, <1>13
    <3>2. summary.ok
      BY <1>3, <1>7, <1>13
    <3> QED BY <1>1, <3>1, <3>2, Zenon
  <2>2. U /\ S /\ (~E /\ D => Short)
    BY <1>2, <1>7, <1>13, Zenon
  <2>3. ReadAs(lines, b, event)
    BY <1>8, <2>2, Zenon
  <2>4. r.include = TRUE /\ r.valid = TRUE /\ r.event = event
    BY <2>1
  <2> QED BY <1>9, <1>13, <2>3, <2>4, Zenon
<1> QED BY <1>11, <1>12, <1>13, Zenon

-----------------------------------------------------------------------------
(* What one turn of the parser's loop does. *)

EventBegins(p, l) == Len(p.stack) > 0 /\ l.text = "VEVENT"
BeginRefused(p, l) ==
    \/ Len(p.stack) = 0 /\ (l.text # "VCALENDAR" \/ p.seenCalendar)
    \/ Len(p.stack) > 0 /\ l.text = "VCALENDAR"
    \/ EventBegins(p, l) /\ (p.stack # <<"VCALENDAR">> \/ p.eventCount + 1 > MaxEvents)

\* What a BEGIN that is not refused changes: the stack grows, and a VEVENT opens a fresh builder.
LEMMA BeginTurn ==
  ASSUME NEW p \in Parsers, p.failed = FALSE, NEW l \in ContentLines, l.name = "BEGIN", NEW q, q = Turn(p, l)
  PROVE  /\ BeginRefused(p, l) => q.failed = TRUE
         /\ ~BeginRefused(p, l) =>
                /\ q.failed = FALSE /\ q.method = p.method /\ q.events = p.events
                /\ q.stack = Append(p.stack, l.text)
                /\ q.closedCalendar = p.closedCalendar
                /\ q.seenCalendar <=> p.seenCalendar \/ Len(p.stack) = 0
                /\ q.seenComponent <=> p.seenComponent \/ Len(p.stack) > 0
                /\ q.eventCount = IF EventBegins(p, l) THEN p.eventCount + 1 ELSE p.eventCount
                /\ q.current = IF EventBegins(p, l) THEN [NoBuilder EXCEPT !.open = TRUE] ELSE p.current
<1> DEFINE stack == Append(p.stack, l.text)
           count == IF EventBegins(p, l) THEN p.eventCount + 1 ELSE p.eventCount
           current == IF EventBegins(p, l) THEN [NoBuilder EXCEPT !.open = TRUE] ELSE p.current
           calendar == p.seenCalendar \/ Len(p.stack) = 0
           component == p.seenComponent \/ Len(p.stack) > 0
           taken == [p EXCEPT !.stack = stack, !.seenCalendar = calendar, !.seenComponent = component,
                             !.eventCount = count, !.current = current]
<1>1. q = OnBegin(p, l)
  <2>1. l.name # ""
    OBVIOUS
  <2> QED BY <2>1 DEF Turn
<1>2. q = IF BeginRefused(p, l) THEN Reject(p) ELSE taken
  BY <1>1 DEF OnBegin, BeginRefused, EventBegins
<1> HIDE DEF stack, count, current, calendar, component
<1>3. /\ taken.failed = p.failed /\ taken.method = p.method /\ taken.events = p.events /\ taken.stack = stack
      /\ taken.closedCalendar = p.closedCalendar /\ taken.eventCount = count /\ taken.current = current
      /\ taken.seenCalendar = calendar /\ taken.seenComponent = component
  BY DEF Parsers
<1> HIDE DEF taken
<1>4. CASE BeginRefused(p, l)
  BY <1>2, <1>4, RejectFails
<1>5. CASE ~BeginRefused(p, l)
  <2>1. q = taken
    BY <1>2, <1>5
  <2>2. q.seenCalendar <=> calendar
    BY <1>3, <2>1
  <2>3. q.seenComponent <=> component
    BY <1>3, <2>1
  <2> QED BY <1>3, <1>5, <2>1, <2>2, <2>3 DEF stack, count, current, calendar, component
<1> QED BY <1>4, <1>5

EventEnds(p, l) == l.text = "VEVENT" /\ p.current.open
EndRefused(p, l) ==
    \/ p.stack = <<>>
    \/ Last(p.stack) # l.text
    \/ EventEnds(p, l) /\ ~Build(p.current, p.method).valid

\* What an END that is not refused changes: the stack shrinks, and a VEVENT hands its event over.
LEMMA EndTurn ==
  ASSUME NEW p \in Parsers, p.failed = FALSE, NEW l \in ContentLines, l.name = "END", NEW q, q = Turn(p, l)
  PROVE  LET built == Build(p.current, p.method)
         IN  /\ EndRefused(p, l) => q.failed = TRUE
             /\ ~EndRefused(p, l) =>
                    /\ q.failed = FALSE /\ q.method = p.method
                    /\ q.stack = Front(p.stack)
                    /\ q.events = IF EventEnds(p, l) /\ built.include THEN Append(p.events, built.event)
                                  ELSE p.events
                    /\ q.closedCalendar <=> p.closedCalendar \/ l.text = "VCALENDAR"
                    /\ q.seenCalendar = p.seenCalendar /\ q.seenComponent = p.seenComponent
                    /\ q.eventCount = p.eventCount
                    /\ q.current = IF EventEnds(p, l) THEN NoBuilder ELSE p.current
<1> DEFINE built == Build(p.current, p.method)
           stack == Front(p.stack)
           events == IF EventEnds(p, l) /\ built.include THEN Append(p.events, built.event) ELSE p.events
           current == IF EventEnds(p, l) THEN NoBuilder ELSE p.current
           closed == p.closedCalendar \/ l.text = "VCALENDAR"
           taken == [p EXCEPT !.stack = stack, !.events = events, !.current = current, !.closedCalendar = closed]
<1>1. q = OnEnd(p, l)
  <2>1. l.name # "" /\ l.name # "BEGIN"
    OBVIOUS
  <2> QED BY <2>1 DEF Turn
<1>2. q = IF EndRefused(p, l) THEN Reject(p) ELSE taken
  BY <1>1 DEF OnEnd, EndRefused, EventEnds
<1> HIDE DEF stack, events, current, closed
<1>3. /\ taken.failed = p.failed /\ taken.method = p.method /\ taken.events = events /\ taken.stack = stack
      /\ taken.closedCalendar = closed /\ taken.eventCount = p.eventCount /\ taken.current = current
      /\ taken.seenCalendar = p.seenCalendar /\ taken.seenComponent = p.seenComponent
  BY DEF Parsers
<1> HIDE DEF taken
<1>4. CASE EndRefused(p, l)
  BY <1>2, <1>4, RejectFails
<1>5. CASE ~EndRefused(p, l)
  <2>1. q = taken
    BY <1>2, <1>5
  <2>2. q.closedCalendar <=> closed
    BY <1>3, <2>1
  <2> QED BY <1>3, <1>5, <2>1, <2>2 DEF stack, events, current, closed
<1> QED BY <1>4, <1>5

HasName(l) == l.name # ""
HasText(l) == l.text # ""
OfCalendar(p, l) == p.stack = <<"VCALENDAR">> /\ l.name = "METHOD"
OfEvent(p, l) == ~OfCalendar(p, l) /\ p.current.open /\ Last(p.stack) = "VEVENT"
PropertyRefused(p, l) == p.stack = <<>> \/ (OfCalendar(p, l) /\ p.seenComponent)

\* What any other line changes: the METHOD of the calendar, or the builder of the open event.
LEMMA PropertyTurn ==
  ASSUME NEW p \in Parsers, p.failed = FALSE, NEW l \in ContentLines, l.name \notin {"BEGIN", "END"}, HasName(l),
         NEW q, q = Turn(p, l)
  PROVE  /\ PropertyRefused(p, l) => q.failed = TRUE
         /\ ~PropertyRefused(p, l) =>
                /\ q.failed = FALSE /\ q.events = p.events /\ q.stack = p.stack
                /\ q.method = IF OfCalendar(p, l) /\ HasText(l) THEN l.text ELSE p.method
                /\ q.closedCalendar = p.closedCalendar /\ q.seenCalendar = p.seenCalendar
                /\ q.seenComponent = p.seenComponent /\ q.eventCount = p.eventCount
                /\ q.current = IF OfEvent(p, l) THEN Add(p.current, l) ELSE p.current
<1> DEFINE current == Add(p.current, l)
           named == [p EXCEPT !.method = l.text]
           added == [p EXCEPT !.current = current]
<1>1. q = OnProperty(p, l)
  BY Zenon DEF Turn, HasName
<1>2. q = IF PropertyRefused(p, l) THEN Reject(p)
          ELSE IF OfCalendar(p, l) THEN IF ~HasText(l) THEN p ELSE named
          ELSE IF OfEvent(p, l) THEN added ELSE p
  BY <1>1, Zenon DEF OnProperty, PropertyRefused, OfCalendar, OfEvent, HasText
<1> HIDE DEF current
<1>3. /\ named.failed = p.failed /\ named.events = p.events /\ named.stack = p.stack /\ named.method = l.text
      /\ named.closedCalendar = p.closedCalendar /\ named.seenCalendar = p.seenCalendar
      /\ named.seenComponent = p.seenComponent /\ named.eventCount = p.eventCount /\ named.current = p.current
  BY DEF Parsers
<1>4. /\ added.failed = p.failed /\ added.events = p.events /\ added.stack = p.stack /\ added.method = p.method
      /\ added.closedCalendar = p.closedCalendar /\ added.seenCalendar = p.seenCalendar
      /\ added.seenComponent = p.seenComponent /\ added.eventCount = p.eventCount /\ added.current = current
  BY DEF Parsers
<1> HIDE DEF named, added
<1>5. CASE PropertyRefused(p, l)
  BY <1>2, <1>5, RejectFails
<1>6. CASE ~PropertyRefused(p, l) /\ OfCalendar(p, l)
  <2>1. ~OfEvent(p, l)
    BY <1>6 DEF OfEvent
  <2>2. CASE ~HasText(l)
    BY <1>2, <1>6, <2>1, <2>2
  <2>3. CASE HasText(l)
    BY <1>2, <1>3, <1>6, <2>1, <2>3
  <2> QED BY <2>2, <2>3
<1>7. CASE ~PropertyRefused(p, l) /\ ~OfCalendar(p, l) /\ OfEvent(p, l)
  BY <1>2, <1>4, <1>7 DEF current
<1>8. CASE ~PropertyRefused(p, l) /\ ~OfCalendar(p, l) /\ ~OfEvent(p, l)
  BY <1>2, <1>8
<1> QED BY <1>5, <1>6, <1>7, <1>8

\* Which components are open after one more line.
LEMMA OpenStep ==
  ASSUME NEW lines \in Seq(ContentLines), NEW i \in 1..Len(lines), NEW b
  PROVE  /\ lines[i].name = "BEGIN" => (IsOpen(lines, b, i) <=> IsOpen(lines, b, i - 1) \/ b = i)
         /\ lines[i].name \notin {"BEGIN", "END"} => (IsOpen(lines, b, i) <=> IsOpen(lines, b, i - 1))
         /\ lines[i].name = "END" =>
                (IsOpen(lines, b, i) <=> IsOpen(lines, b, i - 1) /\ Level(lines, b) < Level(lines, i - 1))
<1> DEFINE L(x) == Level(lines, x)
<1>1. i \in Nat /\ i - 1 \in 0..(Len(lines) - 1) /\ (i - 1) + 1 = i
  OBVIOUS
<1>2. /\ L(i - 1) \in Int /\ L(i) \in Int
      /\ lines[i].name = "BEGIN" => L(i) = L(i - 1) + 1
      /\ lines[i].name = "END" => L(i) = L(i - 1) - 1
      /\ lines[i].name \notin {"BEGIN", "END"} => L(i) = L(i - 1)
  BY <1>1, DepthStep
<1>3. b \in Begins(lines) => b \in 1..Len(lines) /\ lines[b].name = "BEGIN" /\ L(b) \in Int /\ IsOpen(lines, b, b)
  BY BeginIs, OpensHere
<1> HIDE DEF L
<1>4. ASSUME b \in Begins(lines), b <= i - 1
      PROVE  IsOpen(lines, b, i) <=> IsOpen(lines, b, i - 1) /\ L(i) >= L(b)
  <2>1. b \in Nat /\ b <= i
    BY <1>1, <1>3, <1>4
  <2>2. \A x : x \in b..i <=> x \in b..(i - 1) \/ x = i
    BY <1>1, <1>4, <2>1
  <2>3. (\A x \in b..i : L(x) >= L(b)) <=> (\A x \in b..(i - 1) : L(x) >= L(b)) /\ L(i) >= L(b)
    BY <2>2, Zenon
  <2> QED BY <1>4, <2>1, <2>3 DEF IsOpen, L
<1>5. ASSUME IsOpen(lines, b, i - 1) PROVE b \in Begins(lines) /\ b <= i - 1 /\ L(i - 1) >= L(b)
  <2>1. b \in Begins(lines) /\ b <= i - 1 /\ b \in Nat
    BY <1>3, <1>5 DEF IsOpen
  <2>2. i - 1 \in b..(i - 1)
    BY <1>1, <2>1
  <2> QED BY <1>5, <2>1, <2>2 DEF IsOpen, L
<1>6. ASSUME IsOpen(lines, b, i) PROVE b \in Begins(lines) /\ (b <= i - 1 \/ b = i) /\ b \in Nat
  BY <1>1, <1>3, <1>6 DEF IsOpen
<1>7. CASE lines[i].name = "BEGIN"
  <2>1. i \in Begins(lines)
    BY <1>7, BeginIs
  <2>2. IsOpen(lines, i, i)
    BY <2>1, OpensHere
  <2>3. ASSUME IsOpen(lines, b, i - 1) PROVE IsOpen(lines, b, i)
    <3>1. L(i) >= L(b)
      BY <1>2, <1>3, <1>5, <1>7, <2>3
    <3> QED BY <1>4, <1>5, <2>3, <3>1
  <2>4. ASSUME IsOpen(lines, b, i), b # i PROVE IsOpen(lines, b, i - 1)
    BY <1>4, <1>6, <2>4
  <2> QED BY <1>7, <2>2, <2>3, <2>4
<1>8. CASE lines[i].name \notin {"BEGIN", "END"}
  <2>1. i \notin Begins(lines)
    BY <1>8, BeginIs
  <2>2. ASSUME IsOpen(lines, b, i - 1) PROVE IsOpen(lines, b, i)
    <3>1. L(i) >= L(b)
      BY <1>2, <1>3, <1>5, <1>8, <2>2
    <3> QED BY <1>4, <1>5, <2>2, <3>1
  <2>3. ASSUME IsOpen(lines, b, i) PROVE IsOpen(lines, b, i - 1)
    BY <1>4, <1>6, <2>1, <2>3
  <2> QED BY <1>8, <2>2, <2>3
<1>9. CASE lines[i].name = "END"
  <2>1. i \notin Begins(lines)
    BY <1>9, BeginIs
  <2>2. ASSUME b \in Begins(lines) PROVE L(i) >= L(b) <=> L(b) < L(i - 1)
    BY <1>2, <1>3, <1>9, <2>2
  <2>3. ASSUME IsOpen(lines, b, i - 1), L(b) < L(i - 1) PROVE IsOpen(lines, b, i)
    BY <1>4, <1>5, <2>2, <2>3
  <2>4. ASSUME IsOpen(lines, b, i) PROVE IsOpen(lines, b, i - 1) /\ L(b) < L(i - 1)
    BY <1>4, <1>6, <2>1, <2>2, <2>4
  <2> QED BY <1>9, <2>3, <2>4 DEF L
<1> QED BY <1>7, <1>8, <1>9

-----------------------------------------------------------------------------
(* The stack of the parser is the components that are open. *)

Named(lines, i) == \A k \in 1..i : HasName(lines[k])

Tree(lines, i, p) ==
    /\ \A x \in 0..i : Level(lines, x) >= 0
    /\ \A x \in 1..(i - 1) : Level(lines, x) > 0
    /\ Named(lines, i)
    /\ i > 0 => lines[1].name = "BEGIN" /\ lines[1].text = "VCALENDAR"
    /\ \A b \in Begins(lines) : 1 < b /\ b <= i => lines[b].text # "VCALENDAR"
    /\ Len(p.stack) = Level(lines, i)
    /\ \A k \in 1..Len(p.stack) :
         \E b : IsOpen(lines, b, i) /\ Level(lines, b) = k /\ lines[b].text = p.stack[k]
    /\ p.seenCalendar <=> i > 0
    /\ p.closedCalendar <=> i > 0 /\ Level(lines, i) = 0
    /\ p.seenComponent <=> \E b \in Begins(lines) : 1 < b /\ b <= i

\* The indices up to i are those before it and i.
LEMMA UpToLast == ASSUME NEW i \in Nat PROVE \A k \in 1..i : k \in 1..(i - 1) \/ k = i
OBVIOUS

\* One more line with a name.
LEMMA NamedStep ==
  ASSUME NEW lines, NEW i \in Nat, Named(lines, i - 1), HasName(lines[i]) PROVE Named(lines, i)
BY UpToLast, Zenon DEF Named

\* Until the calendar is closed everything is inside of it.
LEMMA OuterIs ==
  ASSUME NEW lines \in Seq(ContentLines), NEW i \in 1..Len(lines), NEW p, Tree(lines, i, p), Level(lines, i) > 0
  PROVE  1 \in Begins(lines) /\ Level(lines, 1) = 1 /\ IsOpen(lines, 1, i)
<1>1. 1 \in Begins(lines)
  <2>1. lines[1].name = "BEGIN" /\ 1 \in 1..Len(lines)
    BY DEF Tree
  <2> QED BY <2>1, BeginIs
<1>2. Level(lines, 1) = 1
  <2>1. Level(lines, 1) = Level(lines, 1 - 1) + 1
    BY <1>1, OpensHere
  <2>2. 1 - 1 = 0 /\ 0 + 1 = 1
    OBVIOUS
  <2> QED BY <2>1, <2>2, DepthAtFirst
<1>3. ASSUME NEW x \in 1..i PROVE Level(lines, x) >= Level(lines, 1)
  <2>1. x \in 1..(i - 1) \/ x = i
    OBVIOUS
  <2>2. Level(lines, x) > 0
    BY <2>1 DEF Tree
  <2>3. Level(lines, x) \in Int
    <3>1. x \in 0..Len(lines)
      OBVIOUS
    <3> QED BY <3>1, DepthType
  <2> QED BY <1>2, <2>2, <2>3
<1> QED BY <1>1, <1>2, <1>3 DEF IsOpen

\* The innermost open component: the next line stands in it.
Innermost(lines, i, p, b) ==
    /\ IsOpen(lines, b, i) /\ Level(lines, b) = Level(lines, i) /\ b \in Begins(lines) /\ b \in 1..i
    /\ p.stack # <<>> /\ Last(p.stack) = lines[b].text
    /\ p.stack = <<"VCALENDAR">> <=> b = 1
    /\ i < Len(lines) /\ lines[i + 1].name # "END" => Owner(lines, i + 1) = b

\* While something is open, the top of the stack is the innermost of the open components.
LEMMA InnerIs ==
  ASSUME NEW lines \in Seq(ContentLines), NEW i \in 1..Len(lines), NEW p \in Parsers, Tree(lines, i, p),
         Level(lines, i) > 0
  PROVE  \E b : Innermost(lines, i, p, b)
<1> DEFINE L(x) == Level(lines, x)
           n == Len(p.stack)
<1>1. L(i) \in Int /\ n = L(i) /\ n > 0 /\ p.stack \in Seq(STRING) /\ n \in Nat
  <2>1. i \in 0..Len(lines)
    OBVIOUS
  <2>2. p.stack \in Seq(STRING)
    BY ParserFields
  <2> QED BY <2>1, <2>2, DepthType DEF Tree
<1>2. PICK b : IsOpen(lines, b, i) /\ L(b) = n /\ lines[b].text = p.stack[n]
  <2>1. n \in 1..n
    BY <1>1
  <2> QED BY <2>1 DEF Tree
<1>3. b \in Begins(lines) /\ b <= i /\ b \in 1..Len(lines) /\ b \in 1..i
  <2>1. b \in Begins(lines) /\ b <= i
    BY <1>2 DEF IsOpen
  <2> QED BY <2>1, OpensHere
<1>4. p.stack # <<>> /\ Last(p.stack) = p.stack[n]
  <2>1. p.stack # <<>>
    BY <1>1
  <2> QED BY <2>1 DEF Last
<1>5. 1 \in Begins(lines) /\ L(1) = 1 /\ IsOpen(lines, 1, i)
  BY OuterIs
<1>6. lines[1].text = "VCALENDAR"
  BY DEF Tree
<1>7. ASSUME p.stack = <<"VCALENDAR">> PROVE b = 1
  <2>1. n = 1
    BY <1>7
  <2>2. i \in 0..Len(lines) /\ Level(lines, b) = Level(lines, 1)
    BY <1>2, <1>5, <2>1
  <2> QED BY <1>2, <1>5, <2>2, OneOfDepth
<1>8. ASSUME b = 1 PROVE p.stack = <<"VCALENDAR">>
  <2>1. n = 1 /\ p.stack[1] = "VCALENDAR"
    BY <1>2, <1>5, <1>6, <1>8
  <2> QED BY <1>1, <2>1
<1>9. ASSUME i < Len(lines), lines[i + 1].name # "END" PROVE Owner(lines, i + 1) = b
  <2>1. i + 1 \in 1..Len(lines) /\ (i + 1) - 1 = i /\ i \in 0..(Len(lines) - 1)
    BY <1>9
  <2>2. L(i + 1) >= L(i)
    <3>1. /\ L(i) \in Int /\ L(i + 1) \in Int
          /\ lines[i + 1].name = "BEGIN" => L(i + 1) = L(i) + 1
          /\ lines[i + 1].name \notin {"BEGIN", "END"} => L(i + 1) = L(i)
      BY <2>1, DepthStep
    <3>2. lines[i + 1].name = "BEGIN" \/ lines[i + 1].name \notin {"BEGIN", "END"}
      BY <1>9
    <3> QED BY <3>1, <3>2
  <2>3. IsOpen(lines, b, (i + 1) - 1) /\ L(b) = L((i + 1) - 1) /\ L(i + 1) >= L((i + 1) - 1)
    BY <1>1, <1>2, <2>1, <2>2
  <2> QED BY <2>1, <2>3, OwnerIs
<1> HIDE DEF n
<1> QED BY <1>1, <1>2, <1>3, <1>4, <1>7, <1>8, <1>9 DEF Innermost

\* A BEGIN keeps the stack equal to the open components.
LEMMA TreeBegin ==
  ASSUME NEW lines \in Seq(ContentLines), NEW i \in 1..Len(lines), NEW p \in Parsers, NEW q,
         Tree(lines, i - 1, p), p.failed = FALSE, q = Turn(p, lines[i]), q.failed = FALSE,
         lines[i].name = "BEGIN"
  PROVE  Tree(lines, i, q)
<1> DEFINE L(x) == Level(lines, x)
           l == lines[i]
           n == Len(p.stack)
<1>1. i - 1 \in Nat /\ i - 1 \in 0..(Len(lines) - 1) /\ (i - 1) + 1 = i /\ i \in Nat /\ l \in ContentLines
  OBVIOUS
<1>2. L(i - 1) \in Int /\ L(i) \in Int /\ L(i) = L(i - 1) + 1
  BY <1>1, DepthStep
<1>3. /\ \A x \in 0..(i - 1) : L(x) >= 0
      /\ \A x \in 1..(i - 2) : L(x) > 0
      /\ Named(lines, i - 1)
      /\ i - 1 > 0 => lines[1].name = "BEGIN" /\ lines[1].text = "VCALENDAR"
      /\ \A b \in Begins(lines) : 1 < b /\ b <= i - 1 => lines[b].text # "VCALENDAR"
      /\ n = L(i - 1) /\ n \in Nat /\ p.stack \in Seq(STRING)
      /\ \A k \in 1..n : \E b : IsOpen(lines, b, i - 1) /\ L(b) = k /\ lines[b].text = p.stack[k]
      /\ p.seenCalendar <=> i - 1 > 0
      /\ p.closedCalendar <=> i - 1 > 0 /\ L(i - 1) = 0
      /\ p.seenComponent <=> \E b \in Begins(lines) : 1 < b /\ b <= i - 1
  <2>1. (i - 1) - 1 = i - 2
    BY <1>1
  <2>2. p.stack \in Seq(STRING) /\ n \in Nat
    BY ParserFields
  <2> QED BY <2>1, <2>2 DEF Tree
<1>4. /\ ~BeginRefused(p, l) /\ q.stack = Append(p.stack, l.text)
      /\ q.closedCalendar = p.closedCalendar
      /\ q.seenCalendar <=> p.seenCalendar \/ n = 0
      /\ q.seenComponent <=> p.seenComponent \/ n > 0
  <2>1. BeginRefused(p, l) => q.failed = TRUE
    BY <1>1, BeginTurn
  <2>2. ~BeginRefused(p, l)
    BY <2>1
  <2> QED BY <1>1, <2>2, BeginTurn
<1>5. /\ n = 0 => l.text = "VCALENDAR" /\ ~p.seenCalendar
      /\ n > 0 => l.text # "VCALENDAR"
  BY <1>4 DEF BeginRefused
<1>6. n > 0 <=> i > 1
  <2>1. ASSUME i > 1 PROVE n > 0
    <3>1. p.seenCalendar
      BY <1>3, <2>1
    <3> QED BY <1>3, <1>5, <3>1
  <2>2. ASSUME ~(i > 1) PROVE n = 0
    <3>1. i - 1 = 0
      BY <1>1, <2>2
    <3> QED BY <1>3, <3>1, DepthAtFirst
  <2> QED BY <1>3, <2>1, <2>2
<1>7. i \in Begins(lines) /\ IsOpen(lines, i, i)
  <2>1. i \in Begins(lines)
    BY BeginIs
  <2> QED BY <2>1, OpensHere
<1> HIDE DEF L, l
<1>8. \A x \in 0..i : L(x) >= 0
  <2>1. \A x \in 0..i : x \in 0..(i - 1) \/ x = i
    BY <1>1
  <2>2. L(i) >= 0
    BY <1>2, <1>3
  <2> QED BY <1>3, <2>1, <2>2
<1>9. \A x \in 1..(i - 1) : L(x) > 0
  <2>1. \A x \in 1..(i - 1) : x \in 1..(i - 2) \/ (x = i - 1 /\ i > 1)
    BY <1>1
  <2>2. i > 1 => L(i - 1) > 0
    BY <1>3, <1>6
  <2> QED BY <1>3, <2>1, <2>2
<1>10. Named(lines, i)
  <2>1. HasName(lines[i])
    BY Zenon DEF HasName
  <2> QED BY <1>1, <1>3, <2>1, NamedStep, Zenon
<1>11. lines[1].name = "BEGIN" /\ lines[1].text = "VCALENDAR"
  <2>1. CASE i = 1
    BY <1>1, <1>3, <1>5, <1>6, <2>1 DEF l
  <2>2. CASE i > 1
    BY <1>1, <1>3, <2>2
  <2> QED BY <1>1, <2>1, <2>2
<1>12. \A b \in Begins(lines) : 1 < b /\ b <= i => lines[b].text # "VCALENDAR"
  <2> SUFFICES ASSUME NEW b \in Begins(lines), 1 < b, b <= i PROVE lines[b].text # "VCALENDAR"
    OBVIOUS
  <2>1. b \in 1..Len(lines)
    BY BeginIs
  <2>2. b <= i - 1 \/ b = i
    BY <1>1, <2>1
  <2> QED BY <1>3, <1>5, <1>6, <2>2 DEF l
<1>13. /\ Len(q.stack) = L(i)
       /\ \A k \in 1..Len(q.stack) : \E b : IsOpen(lines, b, i) /\ L(b) = k /\ lines[b].text = q.stack[k]
  <2>1. Len(q.stack) = n + 1 /\ q.stack[n + 1] = l.text /\ \A k \in 1..n : q.stack[k] = p.stack[k]
    BY <1>3, <1>4
  <2>2. n + 1 = L(i)
    BY <1>2, <1>3
  <2>3. ASSUME NEW k \in 1..(n + 1) PROVE \E b : IsOpen(lines, b, i) /\ L(b) = k /\ lines[b].text = q.stack[k]
    <3>1. CASE k \in 1..n
      <4>1. PICK b : IsOpen(lines, b, i - 1) /\ L(b) = k /\ lines[b].text = p.stack[k]
        BY <1>3, <3>1
      <4>2. IsOpen(lines, b, i)
        BY <4>1, OpenStep
      <4> QED BY <2>1, <3>1, <4>1, <4>2
    <3>2. CASE k = n + 1
      BY <1>7, <2>1, <2>2, <3>2 DEF l
    <3>3. k \in 1..n \/ k = n + 1
      BY <1>3
    <3> QED BY <3>1, <3>2, <3>3
  <2> QED BY <2>1, <2>2, <2>3
<1>14. q.seenCalendar <=> i > 0
  BY <1>1, <1>3, <1>4, <1>6
<1>15. q.closedCalendar <=> i > 0 /\ L(i) = 0
  <2>1. L(i) # 0
    BY <1>2, <1>3
  <2>2. p.closedCalendar = FALSE
    <3>1. ~p.closedCalendar
      BY <1>1, <1>3, <1>6
    <3> QED BY <3>1, ParserFields
  <2>3. q.closedCalendar = FALSE
    BY <1>4, <2>2
  <2> QED BY <2>1, <2>3
<1>16. q.seenComponent <=> \E b \in Begins(lines) : 1 < b /\ b <= i
  <2>1. ASSUME NEW b \in Begins(lines), 1 < b, b <= i PROVE q.seenComponent
    <3>1. b \in 1..Len(lines)
      BY BeginIs
    <3>2. i > 1
      BY <1>1, <2>1, <3>1
    <3> QED BY <1>4, <1>6, <3>2
  <2>2. ASSUME q.seenComponent PROVE \E b \in Begins(lines) : 1 < b /\ b <= i
    <3>1. CASE p.seenComponent
      <4>1. PICK b \in Begins(lines) : 1 < b /\ b <= i - 1
        BY <1>3, <3>1
      <4>2. b \in 1..Len(lines)
        BY BeginIs
      <4> QED BY <1>1, <4>1, <4>2
    <3>2. CASE n > 0
      BY <1>1, <1>6, <1>7, <3>2
    <3> QED BY <1>4, <2>2, <3>1, <3>2
  <2> QED BY <2>1, <2>2
<1> QED BY <1>8, <1>9, <1>10, <1>11, <1>12, <1>13, <1>14, <1>15, <1>16 DEF Tree, L

\* An END keeps the stack equal to the open components.
LEMMA TreeEnd ==
  ASSUME NEW lines \in Seq(ContentLines), NEW i \in 1..Len(lines), NEW p \in Parsers, NEW q,
         Tree(lines, i - 1, p), p.failed = FALSE, q = Turn(p, lines[i]), q.failed = FALSE,
         lines[i].name = "END"
  PROVE  Tree(lines, i, q)
<1> DEFINE L(x) == Level(lines, x)
           l == lines[i]
           n == Len(p.stack)
<1>1. i - 1 \in Nat /\ i - 1 \in 0..(Len(lines) - 1) /\ (i - 1) + 1 = i /\ i \in Nat /\ l \in ContentLines
  OBVIOUS
<1>2. L(i - 1) \in Int /\ L(i) \in Int /\ L(i) = L(i - 1) - 1
  BY <1>1, DepthStep
<1>3. /\ \A x \in 0..(i - 1) : L(x) >= 0
      /\ \A x \in 1..(i - 2) : L(x) > 0
      /\ Named(lines, i - 1)
      /\ i - 1 > 0 => lines[1].name = "BEGIN" /\ lines[1].text = "VCALENDAR"
      /\ \A b \in Begins(lines) : 1 < b /\ b <= i - 1 => lines[b].text # "VCALENDAR"
      /\ n = L(i - 1) /\ n \in Nat /\ p.stack \in Seq(STRING)
      /\ \A k \in 1..n : \E b : IsOpen(lines, b, i - 1) /\ L(b) = k /\ lines[b].text = p.stack[k]
      /\ p.seenCalendar <=> i - 1 > 0
      /\ p.closedCalendar <=> i - 1 > 0 /\ L(i - 1) = 0
      /\ p.seenComponent <=> \E b \in Begins(lines) : 1 < b /\ b <= i - 1
  <2>1. (i - 1) - 1 = i - 2
    BY <1>1
  <2>2. p.stack \in Seq(STRING) /\ n \in Nat
    BY ParserFields
  <2> QED BY <2>1, <2>2 DEF Tree
<1>4. /\ ~EndRefused(p, l) /\ q.stack = Front(p.stack)
      /\ q.closedCalendar <=> p.closedCalendar \/ l.text = "VCALENDAR"
      /\ q.seenCalendar = p.seenCalendar /\ q.seenComponent = p.seenComponent
  <2>1. EndRefused(p, l) => q.failed = TRUE
    BY <1>1, EndTurn
  <2>2. ~EndRefused(p, l)
    BY <2>1
  <2> QED BY <1>1, <2>2, EndTurn
<1>5. p.stack # <<>> /\ Last(p.stack) = l.text /\ n > 0
  <2>1. p.stack # <<>> /\ Last(p.stack) = l.text
    BY <1>4 DEF EndRefused
  <2> QED BY <1>3, <2>1
<1>6. i > 1 /\ i - 1 \in 1..Len(lines)
  <2>1. i - 1 # 0
    BY <1>3, <1>5, DepthAtFirst
  <2> QED BY <1>1, <2>1
<1>7. i \notin Begins(lines)
  BY BeginIs
<1>8. PICK c : Innermost(lines, i - 1, p, c)
  <2>1. L(i - 1) > 0
    BY <1>3, <1>5
  <2> QED BY <1>6, <2>1, InnerIs
<1> HIDE DEF L, l
<1>9. \A x \in 0..i : L(x) >= 0
  <2>1. \A x \in 0..i : x \in 0..(i - 1) \/ x = i
    BY <1>1
  <2>2. L(i) >= 0
    BY <1>2, <1>3, <1>5
  <2> QED BY <1>3, <2>1, <2>2
<1>10. \A x \in 1..(i - 1) : L(x) > 0
  <2>1. \A x \in 1..(i - 1) : x \in 1..(i - 2) \/ x = i - 1
    BY <1>1
  <2>2. L(i - 1) > 0
    BY <1>3, <1>5
  <2> QED BY <1>3, <2>1, <2>2
<1>11. Named(lines, i)
  <2>1. HasName(lines[i])
    BY Zenon DEF HasName
  <2> QED BY <1>1, <1>3, <2>1, NamedStep, Zenon
<1>12. lines[1].name = "BEGIN" /\ lines[1].text = "VCALENDAR"
  BY <1>1, <1>3, <1>6
<1>13. \A b \in Begins(lines) : b <= i => b <= i - 1
  <2> SUFFICES ASSUME NEW b \in Begins(lines), b <= i PROVE b <= i - 1
    OBVIOUS
  <2>1. b \in 1..Len(lines) /\ b # i
    BY <1>7, BeginIs
  <2> QED BY <1>1, <2>1
<1>14. \A b \in Begins(lines) : 1 < b /\ b <= i => lines[b].text # "VCALENDAR"
  BY <1>3, <1>13
<1>15. /\ Len(q.stack) = L(i)
       /\ \A k \in 1..Len(q.stack) : \E b : IsOpen(lines, b, i) /\ L(b) = k /\ lines[b].text = q.stack[k]
  <2>1. Len(q.stack) = n - 1 /\ \A k \in 1..(n - 1) : q.stack[k] = p.stack[k]
    <3>1. q.stack = SubSeq(p.stack, 1, n - 1)
      BY <1>4 DEF Front
    <3> QED BY <1>3, <1>5, <3>1
  <2>2. n - 1 = L(i)
    BY <1>2, <1>3
  <2>3. ASSUME NEW k \in 1..(n - 1) PROVE \E b : IsOpen(lines, b, i) /\ L(b) = k /\ lines[b].text = q.stack[k]
    <3>1. k \in 1..n /\ k < n
      BY <1>3
    <3>2. PICK b : IsOpen(lines, b, i - 1) /\ L(b) = k /\ lines[b].text = p.stack[k]
      BY <1>3, <3>1
    <3>3. Level(lines, b) < Level(lines, i - 1)
      BY <1>3, <3>1, <3>2 DEF L
    <3>4. IsOpen(lines, b, i)
      BY <3>2, <3>3, OpenStep
    <3> QED BY <2>1, <3>2, <3>4
  <2> QED BY <2>1, <2>2, <2>3
<1>16. q.seenCalendar <=> i > 0
  <2>1. p.seenCalendar
    BY <1>1, <1>3, <1>6
  <2> QED BY <1>1, <1>4, <2>1
<1>17. q.closedCalendar <=> i > 0 /\ L(i) = 0
  <2>1. ~p.closedCalendar
    BY <1>3, <1>5
  <2>2. c \in Begins(lines) /\ c \in 1..(i - 1) /\ L(c) = L(i - 1) /\ Last(p.stack) = lines[c].text
    BY <1>8 DEF Innermost, L
  <2>3. L(1) = 1 /\ IsOpen(lines, 1, i - 1)
    <3>1. Level(lines, i - 1) > 0
      BY <1>3, <1>5 DEF L
    <3> QED BY <1>6, <3>1, OuterIs DEF L
  <2>4. ASSUME L(i) = 0 PROVE l.text = "VCALENDAR"
    <3>1. Level(lines, c) = Level(lines, 1)
      BY <1>2, <2>2, <2>3, <2>4 DEF L
    <3>2. IsOpen(lines, c, i - 1) /\ i - 1 \in 0..Len(lines)
      BY <1>6, <1>8 DEF Innermost
    <3>3. c = 1
      BY <2>3, <3>1, <3>2, OneOfDepth
    <3> QED BY <1>5, <1>12, <2>2, <3>3
  <2>5. ASSUME l.text = "VCALENDAR" PROVE L(i) = 0
    <3>1. ~(1 < c)
      <4>1. lines[c].text = "VCALENDAR"
        BY <1>5, <2>2, <2>5, Zenon
      <4>2. c <= i - 1
        BY <1>1, <2>2
      <4> QED BY <1>3, <2>2, <4>1, <4>2
    <3>2. c = 1
      BY <2>2, <3>1
    <3> QED BY <1>2, <2>2, <2>3, <3>2
  <2>6. q.closedCalendar <=> l.text = "VCALENDAR"
    BY <1>4, <2>1
  <2> QED BY <1>6, <2>4, <2>5, <2>6
<1>18. q.seenComponent <=> \E b \in Begins(lines) : 1 < b /\ b <= i
  <2>1. ASSUME NEW b \in Begins(lines) PROVE b <= i <=> b <= i - 1
    <3>1. b \in 1..Len(lines)
      BY BeginIs
    <3> QED BY <1>1, <1>13, <3>1
  <2> QED BY <1>3, <1>4, <2>1
<1> QED BY <1>9, <1>10, <1>11, <1>12, <1>14, <1>15, <1>16, <1>17, <1>18 DEF Tree, L

\* A property line keeps the stack equal to the open components.
LEMMA TreeProperty ==
  ASSUME NEW lines \in Seq(ContentLines), NEW i \in 1..Len(lines), NEW p \in Parsers, NEW q,
         Tree(lines, i - 1, p), p.failed = FALSE, q = Turn(p, lines[i]), q.failed = FALSE,
         lines[i].name \notin {"BEGIN", "END"}, HasName(lines[i])
  PROVE  Tree(lines, i, q)
<1> DEFINE L(x) == Level(lines, x)
           l == lines[i]
           n == Len(p.stack)
<1>1. i - 1 \in Nat /\ i - 1 \in 0..(Len(lines) - 1) /\ (i - 1) + 1 = i /\ i \in Nat /\ l \in ContentLines
  OBVIOUS
<1>2. L(i - 1) \in Int /\ L(i) = L(i - 1)
  BY <1>1, DepthStep
<1>3. /\ \A x \in 0..(i - 1) : L(x) >= 0
      /\ \A x \in 1..(i - 2) : L(x) > 0
      /\ Named(lines, i - 1)
      /\ i - 1 > 0 => lines[1].name = "BEGIN" /\ lines[1].text = "VCALENDAR"
      /\ \A b \in Begins(lines) : 1 < b /\ b <= i - 1 => lines[b].text # "VCALENDAR"
      /\ n = L(i - 1) /\ n \in Nat /\ p.stack \in Seq(STRING)
      /\ \A k \in 1..n : \E b : IsOpen(lines, b, i - 1) /\ L(b) = k /\ lines[b].text = p.stack[k]
      /\ p.seenCalendar <=> i - 1 > 0
      /\ p.closedCalendar <=> i - 1 > 0 /\ L(i - 1) = 0
      /\ p.seenComponent <=> \E b \in Begins(lines) : 1 < b /\ b <= i - 1
  <2>1. (i - 1) - 1 = i - 2
    BY <1>1
  <2>2. p.stack \in Seq(STRING) /\ n \in Nat
    BY ParserFields
  <2> QED BY <2>1, <2>2 DEF Tree
<1>4. /\ ~PropertyRefused(p, l) /\ q.stack = p.stack /\ q.closedCalendar = p.closedCalendar
      /\ q.seenCalendar = p.seenCalendar /\ q.seenComponent = p.seenComponent
  <2>1. PropertyRefused(p, l) => q.failed = TRUE
    BY <1>1, PropertyTurn
  <2>2. ~PropertyRefused(p, l)
    BY <2>1, Zenon
  <2> QED BY <1>1, <2>2, PropertyTurn
<1>5. n > 0
  <2>1. p.stack # <<>>
    BY <1>4 DEF PropertyRefused
  <2> QED BY <1>3, <2>1
<1>6. i > 1
  <2>1. i - 1 # 0
    BY <1>3, <1>5, DepthAtFirst
  <2> QED BY <1>1, <2>1
<1>7. i \notin Begins(lines)
  BY BeginIs
<1> HIDE DEF L, l
<1>8. \A x \in 0..i : L(x) >= 0
  <2>1. \A x \in 0..i : x \in 0..(i - 1) \/ x = i
    BY <1>1
  <2>2. L(i) >= 0
    BY <1>2, <1>3, <1>5
  <2> QED BY <1>3, <2>1, <2>2
<1>9. \A x \in 1..(i - 1) : L(x) > 0
  <2>1. \A x \in 1..(i - 1) : x \in 1..(i - 2) \/ x = i - 1
    BY <1>1
  <2>2. L(i - 1) > 0
    BY <1>3, <1>5
  <2> QED BY <1>3, <2>1, <2>2
<1>10. Named(lines, i)
  BY <1>1, <1>3, NamedStep, Zenon DEF l
<1>11. lines[1].name = "BEGIN" /\ lines[1].text = "VCALENDAR"
  BY <1>1, <1>3, <1>6
<1>12. \A b \in Begins(lines) : b <= i <=> b <= i - 1
  <2> SUFFICES ASSUME NEW b \in Begins(lines) PROVE b <= i <=> b <= i - 1
    OBVIOUS
  <2>1. b \in 1..Len(lines) /\ b # i
    BY <1>7, BeginIs
  <2> QED BY <1>1, <2>1
<1>13. \A b \in Begins(lines) : 1 < b /\ b <= i => lines[b].text # "VCALENDAR"
  BY <1>3, <1>12
<1>14. \A k \in 1..n : \E b : IsOpen(lines, b, i) /\ L(b) = k /\ lines[b].text = p.stack[k]
  <2> TAKE k \in 1..n
  <2>1. PICK b : IsOpen(lines, b, i - 1) /\ L(b) = k /\ lines[b].text = p.stack[k]
    BY <1>3
  <2>2. IsOpen(lines, b, i)
    BY <2>1, OpenStep DEF l
  <2> QED BY <2>1, <2>2
<1>15. q.seenCalendar <=> i > 0
  <2>1. p.seenCalendar
    BY <1>1, <1>3, <1>6
  <2> QED BY <1>1, <1>4, <2>1
<1>16. q.closedCalendar <=> i > 0 /\ L(i) = 0
  <2>1. p.closedCalendar <=> i > 0 /\ L(i) = 0
    BY <1>1, <1>2, <1>3, <1>6
  <2> QED BY <1>4, <2>1
<1>17. q.seenComponent <=> \E b \in Begins(lines) : 1 < b /\ b <= i
  BY <1>3, <1>4, <1>12
<1> QED BY <1>2, <1>3, <1>4, <1>8, <1>9, <1>10, <1>11, <1>13, <1>14, <1>15, <1>16, <1>17 DEF Tree, L

\* Every line that is taken keeps the stack equal to the open components.
LEMMA TreeStep ==
  ASSUME NEW lines \in Seq(ContentLines), NEW i \in 1..Len(lines), NEW p \in Parsers, NEW q,
         Tree(lines, i - 1, p), p.failed = FALSE, q = Turn(p, lines[i]), q.failed = FALSE
  PROVE  Tree(lines, i, q) /\ HasName(lines[i])
<1>1. HasName(lines[i])
  <2>1. ~HasName(lines[i]) => q = Reject(p)
    BY Zenon DEF Turn, HasName
  <2> QED BY <2>1, RejectFails
<1>2. lines[i].name = "BEGIN" \/ lines[i].name = "END" \/ lines[i].name \notin {"BEGIN", "END"}
  OBVIOUS
<1> QED BY <1>1, <1>2, TreeBegin, TreeEnd, TreeProperty

-----------------------------------------------------------------------------
(* What has been read of the calendar is well formed. *)

MethodsUpTo(lines, i) ==
    {k \in 1..i : lines[k].name = "METHOD" /\ Owner(lines, k) = 1 /\ HasText(lines[k])}
MethodUpTo(lines, i) ==
    IF MethodsUpTo(lines, i) = {} THEN "PUBLISH" ELSE lines[Max(MethodsUpTo(lines, i))].text
EventsUpTo(lines, i) == {b \in EventsAt(lines) : b <= i}

Formed(lines, i, p) ==
    /\ \A b \in Begins(lines) :
         b <= i /\ lines[b].text = "VEVENT" => Owner(lines, b) = 1 /\ Level(lines, b) = 2
    /\ \A b \in Begins(lines) :
         0 < Closing(lines, b) /\ Closing(lines, b) <= i => lines[Closing(lines, b)].text = lines[b].text
    /\ \A k \in 1..i :
         lines[k].name = "METHOD" /\ Owner(lines, k) = 1 => \A b \in Begins(lines) : b = 1 \/ b > k
    /\ p.eventCount = Cardinality(EventsUpTo(lines, i)) /\ p.eventCount <= MaxEvents
    /\ p.method = MethodUpTo(lines, i)

\* There are finitely many VEVENTs up to a line.
LEMMA EventsUpToFinite ==
  ASSUME NEW lines \in Seq(ContentLines), NEW i \in 0..Len(lines)
  PROVE  IsFiniteSet(EventsUpTo(lines, i)) /\ Cardinality(EventsUpTo(lines, i)) \in Nat
<1>1. EventsUpTo(lines, i) \subseteq 1..Len(lines)
  <2>1. \A b \in EventsUpTo(lines, i) : b \in Begins(lines)
    BY DEF EventsUpTo, EventsAt
  <2> QED BY <2>1, BeginIs
<1>2. IsFiniteSet(1..Len(lines))
  BY FS_Interval
<1> QED BY <1>1, <1>2, FS_Subset, FS_CardinalityType

\* The line that closes a component.
LEMMA ClosesHere ==
  ASSUME NEW lines \in Seq(ContentLines), NEW b \in Begins(lines), NEW i \in 1..Len(lines), Closing(lines, b) = i
  PROVE  lines[i].name = "END" /\ IsOpen(lines, b, i - 1) /\ Level(lines, b) = Level(lines, i - 1) /\ b <= i - 1
<1> DEFINE L(x) == Level(lines, x)
<1>1. PICK c : c = Closing(lines, b)
  OBVIOUS
<1>2. c = i /\ i \in (b + 1)..Len(lines) /\ L(i) < L(b) /\ \A x \in b..(i - 1) : L(x) >= L(b)
  <2>1. c > 0 => /\ c \in (b + 1)..Len(lines) /\ L(c) < L(b)
                 /\ \A x \in b..(c - 1) : L(x) >= L(b)
    BY <1>1, ClosingIs
  <2>2. c = i /\ c > 0
    BY <1>1
  <2> HIDE DEF L
  <2> QED BY <2>1, <2>2
<1>3. b \in 1..Len(lines) /\ L(b) \in Int /\ i \in Nat /\ i - 1 \in 0..(Len(lines) - 1) /\ (i - 1) + 1 = i
  BY OpensHere
<1>4. /\ L(i - 1) \in Int /\ L(i) \in Int
      /\ lines[i].name = "BEGIN" => L(i) = L(i - 1) + 1
      /\ lines[i].name = "END" => L(i) = L(i - 1) - 1
      /\ lines[i].name \notin {"BEGIN", "END"} => L(i) = L(i - 1)
  BY <1>3, DepthStep
<1>5. i - 1 \in b..(i - 1) /\ b <= i - 1
  BY <1>2, <1>3
<1>6. L(i - 1) >= L(b)
  BY <1>2, <1>5
<1>7. lines[i].name = "END" /\ L(b) = L(i - 1)
  <2> HIDE DEF L
  <2> QED BY <1>2, <1>3, <1>4, <1>6
<1> QED BY <1>2, <1>5, <1>7 DEF IsOpen

\* A component that closes elsewhere was closed before or is not closed yet.
LEMMA ClosedBefore ==
  ASSUME NEW lines \in Seq(ContentLines), NEW b \in Begins(lines), NEW i \in 1..Len(lines)
  PROVE  /\ Closing(lines, b) \in Nat
         /\ 0 < Closing(lines, b) /\ Closing(lines, b) <= i =>
                \/ 0 < Closing(lines, b) /\ Closing(lines, b) <= i - 1
                \/ Closing(lines, b) = i
<1>1. PICK c : c = Closing(lines, b)
  OBVIOUS
<1>2. c \in Nat
  BY <1>1, ClosingIs
<1> QED BY <1>1, <1>2

\* One more line begins at most one more VEVENT.
LEMMA UpToHere ==
  ASSUME NEW lines \in Seq(ContentLines), NEW i \in 1..Len(lines)
  PROVE  /\ i \in EventsAt(lines) => EventsUpTo(lines, i) = EventsUpTo(lines, i - 1) \cup {i}
         /\ i \notin EventsAt(lines) => EventsUpTo(lines, i) = EventsUpTo(lines, i - 1)
<1>1. EventsAt(lines) \subseteq Nat
  <2>1. \A b \in EventsAt(lines) : b \in Begins(lines)
    BY DEF EventsAt
  <2> QED BY <2>1, BeginIs
<1>2. \A b \in EventsAt(lines) : b <= i <=> b <= i - 1 \/ b = i
  BY <1>1
<1> QED BY <1>2 DEF EventsUpTo

\* One more line is at most one more METHOD of the calendar.
LEMMA OtherMethods ==
  ASSUME NEW lines \in Seq(ContentLines), NEW i \in 1..Len(lines)
  PROVE  IF lines[i].name = "METHOD" /\ Owner(lines, i) = 1 /\ HasText(lines[i])
         THEN MethodsUpTo(lines, i) = MethodsUpTo(lines, i - 1) \cup {i}
         ELSE MethodsUpTo(lines, i) = MethodsUpTo(lines, i - 1)
<1>1. \A k : k \in 1..i <=> k \in 1..(i - 1) \/ k = i
  OBVIOUS
<1> QED BY <1>1 DEF MethodsUpTo

\* A BEGIN that is taken keeps what was read well formed.
LEMMA FormedBegin ==
  ASSUME NEW lines \in Seq(ContentLines), NEW i \in 1..Len(lines), NEW p \in Parsers, NEW q,
         Tree(lines, i - 1, p), Formed(lines, i - 1, p), p.failed = FALSE,
         q = Turn(p, lines[i]), q.failed = FALSE, lines[i].name = "BEGIN"
  PROVE  Formed(lines, i, q) /\ (EventBegins(p, lines[i]) <=> i \in EventsAt(lines))
<1> DEFINE L(x) == Level(lines, x)
           l == lines[i]
<1>1. /\ i - 1 \in Nat /\ i - 1 \in 0..(Len(lines) - 1) /\ (i - 1) + 1 = i /\ i \in Nat /\ l \in ContentLines
      /\ i - 1 \in 0..Len(lines)
  OBVIOUS
<1>2. L(i - 1) \in Int /\ L(i) = L(i - 1) + 1
  BY <1>1, DepthStep
<1>3. i \in Begins(lines)
  BY BeginIs
<1>4. /\ ~BeginRefused(p, l) /\ q.method = p.method
      /\ q.eventCount = IF EventBegins(p, l) THEN p.eventCount + 1 ELSE p.eventCount
  <2>1. BeginRefused(p, l) => q.failed = TRUE
    BY <1>1, BeginTurn
  <2>2. ~BeginRefused(p, l)
    BY <2>1
  <2> QED BY <1>1, <2>2, BeginTurn
<1>5. ASSUME l.text = "VEVENT" PROVE EventBegins(p, l) /\ Owner(lines, i) = 1 /\ L(i) = 2
  <2>1. l.text # "VCALENDAR"
    BY <1>5
  <2>2. Len(p.stack) > 0
    <3>1. Len(p.stack) # 0
      BY <1>4, <2>1 DEF BeginRefused
    <3>2. Len(p.stack) \in Nat
      BY ParserFields
    <3> QED BY <3>1, <3>2
  <2>3. EventBegins(p, l)
    BY <1>5, <2>2 DEF EventBegins
  <2>4. p.stack = <<"VCALENDAR">>
    BY <1>4, <2>3 DEF BeginRefused
  <2>5. L(i - 1) > 0 /\ i - 1 \in 1..Len(lines)
    <3>1. L(i - 1) = Len(p.stack)
      BY DEF Tree
    <3>2. i - 1 # 0
      BY <2>2, <3>1, DepthAtFirst
    <3> QED BY <1>1, <2>2, <3>1, <3>2
  <2>6. PICK b : Innermost(lines, i - 1, p, b)
    BY <2>5, InnerIs
  <2>7. b = 1 /\ L(b) = L(i - 1)
    BY <2>4, <2>6 DEF Innermost
  <2>8. Owner(lines, (i - 1) + 1) = b
    <3>1. i - 1 < Len(lines) /\ lines[(i - 1) + 1].name # "END"
      BY <1>1
    <3> QED BY <2>6, <3>1 DEF Innermost
  <2>9. L(1) = 1
    BY <2>5, OuterIs
  <2> QED BY <1>1, <1>2, <2>3, <2>7, <2>8, <2>9
<1>6. EventBegins(p, l) <=> i \in EventsAt(lines)
  BY <1>3, <1>5 DEF EventBegins, EventsAt
<1> HIDE DEF L, l
<1>7. \A b \in Begins(lines) : b <= i /\ lines[b].text = "VEVENT" => Owner(lines, b) = 1 /\ Level(lines, b) = 2
  <2> SUFFICES ASSUME NEW b \in Begins(lines), b <= i, lines[b].text = "VEVENT"
               PROVE  Owner(lines, b) = 1 /\ Level(lines, b) = 2
    OBVIOUS
  <2>1. b \in 1..Len(lines)
    BY BeginIs
  <2>2. CASE b = i
    BY <1>5, <2>2 DEF L, l
  <2>3. CASE b <= i - 1
    BY <2>3 DEF Formed
  <2> QED BY <1>1, <2>1, <2>2, <2>3
<1>8. \A b \in Begins(lines) :
        0 < Closing(lines, b) /\ Closing(lines, b) <= i => lines[Closing(lines, b)].text = lines[b].text
  <2> SUFFICES ASSUME NEW b \in Begins(lines), 0 < Closing(lines, b), Closing(lines, b) <= i
               PROVE  lines[Closing(lines, b)].text = lines[b].text
    OBVIOUS
  <2>1. Closing(lines, b) # i
    BY ClosesHere
  <2>2. 0 < Closing(lines, b) /\ Closing(lines, b) <= i - 1
    BY <2>1, ClosedBefore
  <2> QED BY <2>2 DEF Formed
<1>9. \A k \in 1..i :
        lines[k].name = "METHOD" /\ Owner(lines, k) = 1 => \A b \in Begins(lines) : b = 1 \/ b > k
  <2> SUFFICES ASSUME NEW k \in 1..i, lines[k].name = "METHOD", Owner(lines, k) = 1
               PROVE  \A b \in Begins(lines) : b = 1 \/ b > k
    OBVIOUS
  <2>1. k # i
    OBVIOUS
  <2>2. k \in 1..(i - 1)
    BY <1>1, <2>1
  <2> QED BY <2>2 DEF Formed
<1>10. q.eventCount = Cardinality(EventsUpTo(lines, i)) /\ q.eventCount <= MaxEvents
  <2>1. p.eventCount = Cardinality(EventsUpTo(lines, i - 1)) /\ p.eventCount <= MaxEvents /\ p.eventCount \in Nat
    BY ParserFields DEF Formed
  <2>2. EventsUpTo(lines, i) = IF EventBegins(p, l) THEN EventsUpTo(lines, i - 1) \cup {i}
                               ELSE EventsUpTo(lines, i - 1)
    BY <1>1, <1>6, UpToHere
  <2>3. CASE EventBegins(p, l)
    <3>1. i \notin EventsUpTo(lines, i - 1)
      BY <1>1 DEF EventsUpTo
    <3>2. p.eventCount + 1 <= MaxEvents
      <4>1. ~(p.eventCount + 1 > MaxEvents)
        BY <1>4, <2>3 DEF BeginRefused
      <4> QED BY <2>1, <4>1, IcsAssumption
    <3>3. Cardinality(EventsUpTo(lines, i - 1) \cup {i}) = Cardinality(EventsUpTo(lines, i - 1)) + 1
      BY <1>1, <3>1, EventsUpToFinite, FS_AddElement
    <3> QED BY <1>4, <2>1, <2>2, <2>3, <3>2, <3>3
  <2>4. CASE ~EventBegins(p, l)
    BY <1>4, <2>1, <2>2, <2>4
  <2> QED BY <2>3, <2>4
<1>11. q.method = MethodUpTo(lines, i)
  <2>1. MethodsUpTo(lines, i) = MethodsUpTo(lines, i - 1)
    BY <1>1, OtherMethods
  <2>2. p.method = MethodUpTo(lines, i - 1)
    BY DEF Formed
  <2> QED BY <1>4, <2>1, <2>2 DEF MethodUpTo
<1> QED BY <1>6, <1>7, <1>8, <1>9, <1>10, <1>11 DEF Formed, l

\* END closes the innermost component.
LEMMA EndCloses ==
  ASSUME NEW lines \in Seq(ContentLines), NEW i \in 1..Len(lines), lines[i].name = "END",
         NEW b \in Begins(lines), b \in 1..(i - 1), IsOpen(lines, b, i - 1), Level(lines, b) = Level(lines, i - 1)
  PROVE  Closing(lines, b) = i
<1>1. PICK c : c = Closing(lines, b)
  OBVIOUS
<1>2. i - 1 \in b..Len(lines) /\ i \in b..Len(lines) /\ i \in Nat /\ i - 1 \in 0..Len(lines)
  OBVIOUS
<1>3. /\ c \in Nat
      /\ c > 0 => c \in (b + 1)..Len(lines)
      /\ IsOpen(lines, b, i - 1) <=> (c > i - 1 \/ c = 0)
      /\ IsOpen(lines, b, i) <=> (c > i \/ c = 0)
  BY <1>1, <1>2, ClosingIs, OpenUntilClosed
<1>4. ~IsOpen(lines, b, i)
  <2>1. Level(lines, i - 1) \in Int
    BY <1>2, DepthType
  <2>2. ~(Level(lines, b) < Level(lines, i - 1))
    BY <2>1
  <2> QED BY <2>2, OpenStep
<1>5. c = i
  BY <1>2, <1>3, <1>4
<1> QED BY <1>1, <1>5

\* An END that is taken keeps what was read well formed and closes the innermost component.
LEMMA FormedEnd ==
  ASSUME NEW lines \in Seq(ContentLines), NEW i \in 1..Len(lines), NEW p \in Parsers, NEW q,
         Tree(lines, i - 1, p), Formed(lines, i - 1, p), p.failed = FALSE,
         q = Turn(p, lines[i]), q.failed = FALSE, lines[i].name = "END"
  PROVE  /\ Formed(lines, i, q)
         /\ \E b : Innermost(lines, i - 1, p, b) /\ lines[b].text = lines[i].text /\ Closing(lines, b) = i
<1> DEFINE L(x) == Level(lines, x)
           l == lines[i]
<1>1. /\ i - 1 \in Nat /\ i - 1 \in 0..(Len(lines) - 1) /\ (i - 1) + 1 = i /\ i \in Nat /\ l \in ContentLines
      /\ i - 1 \in 0..Len(lines)
  OBVIOUS
<1>2. L(i - 1) \in Int /\ L(i) \in Int /\ L(i) = L(i - 1) - 1
  BY <1>1, DepthStep
<1>3. i \notin Begins(lines)
  BY BeginIs
<1>4. /\ ~EndRefused(p, l) /\ q.method = p.method /\ q.eventCount = p.eventCount
  <2>1. EndRefused(p, l) => q.failed = TRUE
    BY <1>1, EndTurn
  <2>2. ~EndRefused(p, l)
    BY <2>1
  <2> QED BY <1>1, <2>2, EndTurn
<1>5. p.stack # <<>> /\ Last(p.stack) = l.text
  BY <1>4 DEF EndRefused
<1>6. L(i - 1) > 0 /\ i - 1 \in 1..Len(lines)
  <2>1. L(i - 1) = Len(p.stack)
    BY DEF Tree
  <2>2. p.stack \in Seq(STRING)
    BY ParserFields
  <2>3. Len(p.stack) > 0
    BY <1>5, <2>2
  <2>4. i - 1 # 0
    BY <2>1, <2>3, DepthAtFirst
  <2> QED BY <1>1, <2>1, <2>3, <2>4
<1>7. PICK b : Innermost(lines, i - 1, p, b)
  BY <1>6, InnerIs
<1>8. /\ b \in Begins(lines) /\ IsOpen(lines, b, i - 1) /\ L(b) = L(i - 1) /\ b \in 1..(i - 1)
      /\ lines[b].text = l.text
  BY <1>5, <1>7 DEF Innermost
<1>9. Closing(lines, b) = i
  BY <1>8, EndCloses
<1>10. \A a \in Begins(lines) : a <= i <=> a <= i - 1
  <2> TAKE a \in Begins(lines)
  <2>1. a \in 1..Len(lines) /\ a # i
    BY <1>3, BeginIs
  <2> QED BY <1>1, <2>1
<1>11. \A a \in Begins(lines) : a <= i /\ lines[a].text = "VEVENT" => Owner(lines, a) = 1 /\ Level(lines, a) = 2
  BY <1>10 DEF Formed
<1>12. \A a \in Begins(lines) :
         0 < Closing(lines, a) /\ Closing(lines, a) <= i => lines[Closing(lines, a)].text = lines[a].text
  <2> SUFFICES ASSUME NEW a \in Begins(lines), 0 < Closing(lines, a), Closing(lines, a) <= i
               PROVE  lines[Closing(lines, a)].text = lines[a].text
    OBVIOUS
  <2>1. CASE Closing(lines, a) = i
    <3>1. IsOpen(lines, a, i - 1) /\ Level(lines, a) = Level(lines, b)
      BY <1>8, <2>1, ClosesHere
    <3>2. a = b
      BY <1>1, <1>8, <3>1, OneOfDepth
    <3> QED BY <1>8, <2>1, <3>2
  <2>2. CASE 0 < Closing(lines, a) /\ Closing(lines, a) <= i - 1
    BY <2>2 DEF Formed
  <2> QED BY <2>1, <2>2, ClosedBefore
<1>13. \A k \in 1..i :
         lines[k].name = "METHOD" /\ Owner(lines, k) = 1 => \A a \in Begins(lines) : a = 1 \/ a > k
  <2> SUFFICES ASSUME NEW k \in 1..i, lines[k].name = "METHOD", Owner(lines, k) = 1
               PROVE  \A a \in Begins(lines) : a = 1 \/ a > k
    OBVIOUS
  <2>1. k # i
    OBVIOUS
  <2>2. k \in 1..(i - 1)
    BY <1>1, <2>1
  <2> QED BY <2>2 DEF Formed
<1>14. q.eventCount = Cardinality(EventsUpTo(lines, i)) /\ q.eventCount <= MaxEvents
  <2>1. i \notin EventsAt(lines)
    BY <1>3 DEF EventsAt
  <2>2. EventsUpTo(lines, i) = EventsUpTo(lines, i - 1)
    BY <2>1, UpToHere
  <2> QED BY <1>4, <2>2 DEF Formed
<1>15. q.method = MethodUpTo(lines, i)
  <2>1. MethodsUpTo(lines, i) = MethodsUpTo(lines, i - 1)
    BY <1>1, OtherMethods
  <2>2. p.method = MethodUpTo(lines, i - 1)
    BY DEF Formed
  <2> QED BY <1>4, <2>1, <2>2 DEF MethodUpTo
<1> HIDE DEF L
<1> QED BY <1>7, <1>8, <1>9, <1>11, <1>12, <1>13, <1>14, <1>15 DEF Formed

\* A property line that is taken keeps what was read well formed and belongs to the innermost component.
LEMMA FormedProperty ==
  ASSUME NEW lines \in Seq(ContentLines), NEW i \in 1..Len(lines), NEW p \in Parsers, NEW q,
         Tree(lines, i - 1, p), Formed(lines, i - 1, p), p.failed = FALSE,
         q = Turn(p, lines[i]), q.failed = FALSE, lines[i].name \notin {"BEGIN", "END"}, HasName(lines[i])
  PROVE  /\ Formed(lines, i, q)
         /\ \E b : Innermost(lines, i - 1, p, b) /\ Owner(lines, i) = b
<1> DEFINE l == lines[i]
<1>1. /\ i - 1 \in Nat /\ i - 1 \in 0..(Len(lines) - 1) /\ (i - 1) + 1 = i /\ i \in Nat /\ l \in ContentLines
      /\ i - 1 \in 0..Len(lines)
  OBVIOUS
<1>2. i \notin Begins(lines)
  BY BeginIs
<1>3. /\ ~PropertyRefused(p, l) /\ q.eventCount = p.eventCount
      /\ q.method = IF OfCalendar(p, l) /\ HasText(l) THEN l.text ELSE p.method
  <2>1. PropertyRefused(p, l) => q.failed = TRUE
    BY <1>1, PropertyTurn
  <2>2. ~PropertyRefused(p, l)
    BY <2>1
  <2> QED BY <1>1, <2>2, PropertyTurn
<1>4. Level(lines, i - 1) > 0 /\ i - 1 \in 1..Len(lines)
  <2>1. Level(lines, i - 1) = Len(p.stack)
    BY DEF Tree
  <2>2. p.stack \in Seq(STRING) /\ p.stack # <<>>
    BY <1>3, ParserFields DEF PropertyRefused
  <2>3. Len(p.stack) > 0
    BY <2>2
  <2>4. i - 1 # 0
    BY <2>1, <2>3, DepthAtFirst
  <2> QED BY <1>1, <2>1, <2>3, <2>4
<1>5. PICK b : Innermost(lines, i - 1, p, b)
  BY <1>4, InnerIs
<1>6. Owner(lines, i) = b /\ (p.stack = <<"VCALENDAR">> <=> b = 1)
  <2>1. i - 1 < Len(lines) /\ lines[(i - 1) + 1].name # "END"
    BY <1>1
  <2>2. Owner(lines, (i - 1) + 1) = b /\ (p.stack = <<"VCALENDAR">> <=> b = 1)
    BY <1>5, <2>1 DEF Innermost
  <2> QED BY <1>1, <2>2
<1>7. OfCalendar(p, l) <=> l.name = "METHOD" /\ Owner(lines, i) = 1
  BY <1>6 DEF OfCalendar
<1>8. \A a \in Begins(lines) : a <= i <=> a <= i - 1
  <2> TAKE a \in Begins(lines)
  <2>1. a \in 1..Len(lines) /\ a # i
    BY <1>2, BeginIs
  <2> QED BY <1>1, <2>1
<1>9. \A a \in Begins(lines) : a <= i /\ lines[a].text = "VEVENT" => Owner(lines, a) = 1 /\ Level(lines, a) = 2
  BY <1>8 DEF Formed
<1>10. \A a \in Begins(lines) :
         0 < Closing(lines, a) /\ Closing(lines, a) <= i => lines[Closing(lines, a)].text = lines[a].text
  <2> SUFFICES ASSUME NEW a \in Begins(lines), 0 < Closing(lines, a), Closing(lines, a) <= i
               PROVE  lines[Closing(lines, a)].text = lines[a].text
    OBVIOUS
  <2>1. Closing(lines, a) # i
    BY ClosesHere
  <2>2. 0 < Closing(lines, a) /\ Closing(lines, a) <= i - 1
    BY <2>1, ClosedBefore
  <2> QED BY <2>2 DEF Formed
<1>11. \A k \in 1..i :
         lines[k].name = "METHOD" /\ Owner(lines, k) = 1 => \A a \in Begins(lines) : a = 1 \/ a > k
  <2> SUFFICES ASSUME NEW k \in 1..i, lines[k].name = "METHOD", Owner(lines, k) = 1, NEW a \in Begins(lines)
               PROVE  a = 1 \/ a > k
    OBVIOUS
  <2>1. CASE k = i
    <3>1. ~p.seenComponent
      BY <1>3, <1>7, <2>1 DEF PropertyRefused
    <3>2. ~(1 < a /\ a <= i - 1)
      BY <3>1 DEF Tree
    <3>3. a \in 1..Len(lines) /\ a # i
      BY <1>2, BeginIs
    <3> QED BY <1>1, <2>1, <3>2, <3>3
  <2>2. CASE k \in 1..(i - 1)
    BY <2>2 DEF Formed
  <2> QED BY <1>1, <2>1, <2>2
<1>12. q.eventCount = Cardinality(EventsUpTo(lines, i)) /\ q.eventCount <= MaxEvents
  <2>1. i \notin EventsAt(lines)
    BY <1>2 DEF EventsAt
  <2>2. EventsUpTo(lines, i) = EventsUpTo(lines, i - 1)
    BY <2>1, UpToHere
  <2> QED BY <1>3, <2>2 DEF Formed
<1>13. q.method = MethodUpTo(lines, i)
  <2>1. p.method = MethodUpTo(lines, i - 1)
    BY DEF Formed
  <2>2. CASE OfCalendar(p, l) /\ HasText(l)
    <3>1. MethodsUpTo(lines, i) = MethodsUpTo(lines, i - 1) \cup {i}
      BY <1>7, <2>2, OtherMethods
    <3>2. MethodsUpTo(lines, i) \subseteq 1..i /\ i \in MethodsUpTo(lines, i)
      BY <3>1 DEF MethodsUpTo
    <3>3. Max(MethodsUpTo(lines, i)) = i
      <4>1. MethodsUpTo(lines, i) \in SUBSET Int /\ \A k \in MethodsUpTo(lines, i) : k <= i
        BY <3>2
      <4> QED BY <3>2, <4>1, MaxIs
    <3> QED BY <1>3, <2>2, <3>2, <3>3 DEF MethodUpTo
  <2>3. CASE ~(OfCalendar(p, l) /\ HasText(l))
    <3>1. MethodsUpTo(lines, i) = MethodsUpTo(lines, i - 1)
      BY <1>7, <2>3, OtherMethods
    <3> QED BY <1>3, <2>1, <2>3, <3>1 DEF MethodUpTo
  <2> QED BY <2>2, <2>3
<1> QED BY <1>5, <1>6, <1>9, <1>10, <1>11, <1>12, <1>13 DEF Formed

-----------------------------------------------------------------------------
(* The builder holds the first lines of the VEVENT that is open. *)

Saying(lines, b, i, name) == {k \in b..i : lines[k].name = name /\ Owner(lines, k) = b}

Collected(lines, b, i, builder) ==
    \A name \in Telling :
        IF Saying(lines, b, i, name) = {} THEN ~Has(builder, name)
        ELSE /\ Has(builder, name)
             /\ Property(builder, name) = lines[Min(Saying(lines, b, i, name))]

Building(lines, i, p) ==
    /\ p.current.open <=> \E b \in EventsAt(lines) : IsOpen(lines, b, i)
    /\ \A b \in EventsAt(lines) : IsOpen(lines, b, i) => Collected(lines, b, i, p.current)

\* One more line adds at most itself to the lines of a name directly inside of a component.
LEMMA OneMoreSaying ==
  ASSUME NEW b \in Nat, NEW i \in Nat, b <= i, NEW lines, NEW name
  PROVE  IF lines[i].name = name /\ Owner(lines, i) = b
         THEN Saying(lines, b, i, name) = Saying(lines, b, i - 1, name) \cup {i}
         ELSE Saying(lines, b, i, name) = Saying(lines, b, i - 1, name)
<1>1. \A k : k \in b..i <=> k \in b..(i - 1) \/ k = i
  OBVIOUS
<1> QED BY <1>1 DEF Saying

\* Lines of other names and of other components change nothing.
LEMMA CollectedSame ==
  ASSUME NEW b \in Nat, NEW i \in Nat, b <= i, NEW lines, NEW builder,
         Collected(lines, b, i - 1, builder), lines[i].name \notin Telling \/ Owner(lines, i) # b
  PROVE  Collected(lines, b, i, builder)
<1>1. ASSUME NEW name \in Telling PROVE Saying(lines, b, i, name) = Saying(lines, b, i - 1, name)
  <2>1. ~(lines[i].name = name /\ Owner(lines, i) = b)
    OBVIOUS
  <2> QED BY <2>1, OneMoreSaying
<1> QED BY <1>1 DEF Collected

\* A line that is added leaves a builder open or closed.
LEMMA AddOpen ==
  ASSUME NEW builder \in Builders, NEW l PROVE Add(builder, l).open = builder.open
<1>1. \/ Add(builder, l) = builder
      \/ Add(builder, l) = [builder EXCEPT !.attendees = Append(@, l)]
      \/ Add(builder, l) = [builder EXCEPT !.properties = Append(@, l)]
  BY DEF Add
<1> QED BY <1>1 DEF Builders

\* What eventBuilder.add adds.
LEMMA AddIs ==
  ASSUME NEW builder \in Builders, NEW l \in ContentLines, NEW name, name # "ATTENDEE",
         NEW more, more = Add(builder, l)
  PROVE  /\ more.open = builder.open
         /\ Has(more, name) <=> Has(builder, name) \/ l.name = name
         /\ Has(builder, name) => Property(more, name) = Property(builder, name)
         /\ ~Has(builder, name) /\ l.name = name => Property(more, name) = l
<1> DEFINE P == builder.properties
           Q == more.properties
           n == Len(P)
           at == {k \in 1..n : P[k].name = name}
           now == {k \in 1..Len(Q) : Q[k].name = name}
<1>1. P \in Seq(ContentLines) /\ n \in Nat
  BY BuilderFields
<1>2. /\ Has(builder, name) <=> at # {}
      /\ Has(more, name) <=> now # {}
      /\ Has(builder, name) => Property(builder, name) = P[Min(at)]
      /\ Has(more, name) => Property(more, name) = Q[Min(now)]
  BY DEF Has, Property
<1>3. CASE l.name = "ATTENDEE"
  <2>1. more = [builder EXCEPT !.attendees = Append(@, l)]
    BY <1>3 DEF Add
  <2>2. Q = P /\ more.open = builder.open
    BY <2>1 DEF Builders
  <2>3. now = at
    BY <2>2
  <2> HIDE DEF P, Q, at, now
  <2> QED BY <1>2, <1>3, <2>2, <2>3
<1>4. CASE l.name # "ATTENDEE" /\ Has(builder, l.name)
  <2>1. more = builder
    BY <1>4 DEF Add, Has
  <2>2. l.name = name => Has(builder, name)
    BY <1>4
  <2> QED BY <1>2, <2>1, <2>2
<1>5. CASE l.name # "ATTENDEE" /\ ~Has(builder, l.name)
  <2>1. more = [builder EXCEPT !.properties = Append(@, l)]
    BY <1>5 DEF Add, Has
  <2>2. Q = Append(P, l) /\ more.open = builder.open
    BY <2>1 DEF Builders
  <2>3. Len(Q) = n + 1 /\ Q[n + 1] = l /\ \A k \in 1..n : Q[k] = P[k]
    BY <1>1, <2>2
  <2>4. now = IF l.name = name THEN at \cup {n + 1} ELSE at
    <3>1. \A k : k \in 1..(n + 1) <=> k \in 1..n \/ k = n + 1
      BY <1>1
    <3> QED BY <1>1, <2>3, <3>1
  <2>5. at \subseteq 1..n
    OBVIOUS
  <2>6. ASSUME Has(builder, name) PROVE l.name # name /\ now = at /\ Property(more, name) = Property(builder, name)
    <3>1. l.name # name
      BY <1>5, <2>6
    <3>2. now = at
      BY <2>4, <3>1
    <3>3. Min(at) \in at
      <4> HIDE DEF at
      <4> QED BY <1>1, <1>2, <2>5, <2>6, MinOfIndices
    <3>4. Min(at) \in 1..n
      BY <3>3
    <3> HIDE DEF at, now, P, Q, n
    <3> QED BY <1>2, <2>3, <2>6, <3>1, <3>2, <3>4
  <2>7. ASSUME ~Has(builder, name), l.name = name PROVE Has(more, name) /\ Property(more, name) = l
    <3>1. at = {}
      BY <1>2, <2>7
    <3>2. now = {n + 1} /\ n + 1 \in Int
      BY <1>1, <2>4, <2>7, <3>1
    <3>3. Min(now) = n + 1
      BY <3>2, OneElement
    <3> HIDE DEF at, now, P, Q, n
    <3> QED BY <1>2, <2>3, <3>2, <3>3
  <2>8. ASSUME l.name # name PROVE now = at
    BY <2>4, <2>8
  <2> HIDE DEF at, now, P, Q, n
  <2> QED BY <1>2, <2>2, <2>6, <2>7, <2>8
<1> QED BY <1>3, <1>4, <1>5

\* Adding the line that stands directly inside of the component keeps the builder in step with it.
LEMMA CollectedMore ==
  ASSUME NEW lines \in Seq(ContentLines), NEW b \in Nat, NEW i \in 1..Len(lines),
         b > 0, b <= i, Owner(lines, i) = b,
         NEW builder \in Builders, Collected(lines, b, i - 1, builder)
  PROVE  Collected(lines, b, i, Add(builder, lines[i]))
<1>1. PICK more : more = Add(builder, lines[i])
  OBVIOUS
<1> SUFFICES ASSUME NEW name \in Telling
             PROVE  IF Saying(lines, b, i, name) = {} THEN ~Has(more, name)
                    ELSE /\ Has(more, name)
                         /\ Property(more, name) = lines[Min(Saying(lines, b, i, name))]
  BY <1>1 DEF Collected
<1> DEFINE l == lines[i]
           before == Saying(lines, b, i - 1, name)
           now == Saying(lines, b, i, name)
<1>2. l \in ContentLines /\ name # "ATTENDEE" /\ i \in Nat
  BY DEF Telling
<1>3. /\ Has(more, name) <=> Has(builder, name) \/ l.name = name
      /\ Has(builder, name) => Property(more, name) = Property(builder, name)
      /\ ~Has(builder, name) /\ l.name = name => Property(more, name) = l
  BY <1>1, <1>2, AddIs
<1>4. /\ before = {} => ~Has(builder, name)
      /\ before # {} => Has(builder, name) /\ Property(builder, name) = lines[Min(before)]
  BY DEF Collected
<1>5. now = IF l.name = name THEN before \cup {i} ELSE before
  BY <1>2, OneMoreSaying
<1>6. before \subseteq 1..(i - 1) /\ before \subseteq 1..i /\ now \subseteq 1..i
  BY <1>2 DEF Saying
<1> HIDE DEF before, now, l
<1>7. CASE before = {} /\ l.name # name
  BY <1>3, <1>4, <1>5, <1>7 DEF now
<1>8. CASE before = {} /\ l.name = name
  <2>1. now = {i} /\ i \in Int /\ now # {}
    BY <1>2, <1>5, <1>8
  <2>2. Min(now) = i
    BY <2>1, OneElement
  <2> QED BY <1>3, <1>4, <1>8, <2>1, <2>2 DEF now, l
<1>9. CASE before # {}
  <2>1. Min(before) \in before /\ \A k \in before : Min(before) <= k
    <3>1. i - 1 \in Nat
      OBVIOUS
    <3> QED BY <1>6, <1>9, <3>1, MinOfIndices
  <2>2. Min(before) \in now /\ \A k \in now : Min(before) <= k
    <3>1. Min(before) \in 1..(i - 1)
      BY <1>6, <2>1
    <3>2. Min(before) <= i
      BY <1>2, <3>1
    <3> QED BY <1>5, <2>1, <3>2
  <2>3. Min(now) = Min(before)
    <3>1. now \in SUBSET Int
      BY <1>6
    <3> QED BY <2>2, <3>1, MinIs
  <2> QED BY <1>3, <1>4, <1>9, <2>2, <2>3 DEF now
<1> QED BY <1>7, <1>8, <1>9

\* Two open VEVENTs are the same.
LEMMA OneEvent ==
  ASSUME NEW lines \in Seq(ContentLines), NEW i \in 1..Len(lines), NEW p, Formed(lines, i, p),
         NEW b \in EventsAt(lines), b <= i
  PROVE  /\ b \in Begins(lines) /\ b \in 1..Len(lines) /\ Level(lines, b) = 2 /\ Owner(lines, b) = 1
         /\ lines[b].text = "VEVENT"
         /\ \A c \in EventsAt(lines) : IsOpen(lines, b, i) /\ IsOpen(lines, c, i) => b = c
<1>1. \A c \in EventsAt(lines) :
        c <= i => c \in Begins(lines) /\ Level(lines, c) = 2 /\ Owner(lines, c) = 1 /\ lines[c].text = "VEVENT"
  BY DEF EventsAt, Formed
<1>2. ASSUME NEW c \in EventsAt(lines), IsOpen(lines, b, i), IsOpen(lines, c, i) PROVE b = c
  <2>1. c <= i
    BY <1>2 DEF IsOpen
  <2>2. Level(lines, b) = Level(lines, c) /\ i \in 0..Len(lines)
    BY <1>1, <2>1
  <2> QED BY <1>2, <2>2, OneOfDepth
<1> QED BY <1>1, <1>2, BeginIs

\* A BEGIN keeps the builder that of the open VEVENT.
LEMMA BuildingBegin ==
  ASSUME NEW lines \in Seq(ContentLines), NEW i \in 1..Len(lines), NEW p \in Parsers, NEW q,
         Formed(lines, i, q), EventBegins(p, lines[i]) <=> i \in EventsAt(lines),
         Building(lines, i - 1, p), p.failed = FALSE,
         q = Turn(p, lines[i]), q.failed = FALSE, lines[i].name = "BEGIN"
  PROVE  Building(lines, i, q)
<1> DEFINE l == lines[i]
           begins == EventBegins(p, l)
<1>1. i \in Nat /\ l \in ContentLines /\ i \in Begins(lines)
  BY BeginIs
<1>2. q.current = IF begins THEN [NoBuilder EXCEPT !.open = TRUE] ELSE p.current
  <2>1. ~BeginRefused(p, l)
    BY <1>1, BeginTurn
  <2> QED BY <1>1, <2>1, BeginTurn
<1>3. IsOpen(lines, i, i)
  BY <1>1, OpensHere
<1>4. \A b : IsOpen(lines, b, i) <=> IsOpen(lines, b, i - 1) \/ b = i
  BY OpenStep
<1>5. CASE begins
  <2>1. i \in EventsAt(lines) /\ i <= i
    BY <1>1, <1>5
  <2>2. \A c \in EventsAt(lines) : IsOpen(lines, c, i) => c = i
    BY <1>3, <2>1, OneEvent
  <2>3. q.current.open = TRUE /\ q.current.properties = <<>>
    <3>1. q.current = [NoBuilder EXCEPT !.open = TRUE]
      BY <1>2, <1>5
    <3> QED BY <3>1, NoBuilderType, Zenon
  <2>4. ASSUME NEW name \in Telling PROVE Saying(lines, i, i, name) = {} /\ ~Has(q.current, name)
    <3>1. \A k \in i..i : k = i
      BY <1>1
    <3>2. name # "BEGIN"
      BY DEF Telling
    <3>3. Saying(lines, i, i, name) = {}
      BY <3>1, <3>2 DEF Saying
    <3>4. ~Has(q.current, name)
      BY <2>3 DEF Has
    <3> QED BY <3>3, <3>4
  <2>5. Collected(lines, i, i, q.current)
    BY <2>4 DEF Collected
  <2>6. \A b \in EventsAt(lines) : IsOpen(lines, b, i) => Collected(lines, b, i, q.current)
    BY <2>2, <2>5, Zenon
  <2>7. \E b \in EventsAt(lines) : IsOpen(lines, b, i)
    BY <1>3, <2>1
  <2>8. q.current.open
    BY <2>3
  <2> QED BY <2>6, <2>7, <2>8 DEF Building
<1>6. CASE ~begins
  <2>1. q.current = p.current /\ i \notin EventsAt(lines)
    BY <1>2, <1>6
  <2>2. \A b \in EventsAt(lines) : IsOpen(lines, b, i) <=> IsOpen(lines, b, i - 1)
    BY <1>4, <2>1
  <2>3. ASSUME NEW b \in EventsAt(lines), IsOpen(lines, b, i) PROVE Collected(lines, b, i, q.current)
    <3>1. IsOpen(lines, b, i - 1) /\ Collected(lines, b, i - 1, q.current)
      BY <2>1, <2>2, <2>3 DEF Building
    <3>2. b \in Nat /\ b <= i
      <4>1. b \in Begins(lines) /\ b <= i
        BY <2>3 DEF IsOpen
      <4> QED BY <4>1, BeginIs
    <3>3. lines[i].name \notin Telling
      BY DEF Telling
    <3> QED BY <1>1, <3>1, <3>2, <3>3, CollectedSame
  <2> QED BY <2>1, <2>2, <2>3 DEF Building
<1> QED BY <1>5, <1>6

\* An END keeps the builder that of the open VEVENT, and closes it just when that component is one.
LEMMA BuildingEnd ==
  ASSUME NEW lines \in Seq(ContentLines), NEW i \in 1..Len(lines), NEW p \in Parsers, NEW q,
         Formed(lines, i - 1, p), NEW b, Innermost(lines, i - 1, p, b), lines[b].text = lines[i].text,
         Building(lines, i - 1, p), p.failed = FALSE,
         q = Turn(p, lines[i]), q.failed = FALSE, lines[i].name = "END"
  PROVE  Building(lines, i, q) /\ (EventEnds(p, lines[i]) <=> b \in EventsAt(lines))
<1> DEFINE l == lines[i]
           ends == EventEnds(p, l)
<1>1. i \in Nat /\ l \in ContentLines /\ i - 1 \in 0..Len(lines)
  OBVIOUS
<1>2. /\ b \in Begins(lines) /\ b \in 1..(i - 1) /\ IsOpen(lines, b, i - 1)
      /\ Level(lines, b) = Level(lines, i - 1)
  BY DEF Innermost
<1>3. i - 1 \in 1..Len(lines)
  BY <1>1, <1>2
<1>4. q.current = IF ends THEN NoBuilder ELSE p.current
  <2>1. ~EndRefused(p, l)
    BY <1>1, EndTurn
  <2> QED BY <1>1, <2>1, EndTurn
<1>5. ends <=> b \in EventsAt(lines)
  <2>1. ASSUME ends PROVE b \in EventsAt(lines)
    <3>1. lines[b].text = "VEVENT"
      BY <2>1 DEF EventEnds
    <3>2. b <= i - 1
      BY <1>1, <1>2
    <3>3. Owner(lines, b) = 1
      BY <1>2, <3>1, <3>2 DEF Formed
    <3> QED BY <1>2, <3>1, <3>3 DEF EventsAt
  <2>2. ASSUME b \in EventsAt(lines) PROVE ends
    <3>1. l.text = "VEVENT"
      BY <2>2 DEF EventsAt
    <3>2. p.current.open
      BY <1>2, <2>2 DEF Building
    <3> QED BY <3>1, <3>2 DEF EventEnds
  <2> QED BY <2>1, <2>2
<1>6. \A c : IsOpen(lines, c, i) <=> IsOpen(lines, c, i - 1) /\ Level(lines, c) < Level(lines, i - 1)
  BY OpenStep
<1>7. CASE ends
  <2>1. b \in EventsAt(lines) /\ b <= i - 1
    BY <1>1, <1>2, <1>5, <1>7
  <2>2. ASSUME NEW c \in EventsAt(lines), IsOpen(lines, c, i) PROVE FALSE
    <3>1. IsOpen(lines, c, i - 1) /\ Level(lines, c) < Level(lines, i - 1)
      BY <1>6, <2>2
    <3>2. b = c
      BY <1>2, <1>3, <2>1, <3>1, OneEvent
    <3>3. Level(lines, b) \in Int
      BY <1>2, OpensHere
    <3> QED BY <1>2, <3>1, <3>2, <3>3
  <2>3. q.current.open = FALSE
    BY <1>4, <1>7, NoBuilderType
  <2>4. ~q.current.open
    BY <2>3
  <2>5. ~\E c \in EventsAt(lines) : IsOpen(lines, c, i)
    BY <2>2
  <2>6. \A c \in EventsAt(lines) : IsOpen(lines, c, i) => Collected(lines, c, i, q.current)
    BY <2>2
  <2> QED BY <2>4, <2>5, <2>6, <1>5 DEF Building
<1>8. CASE ~ends
  <2>1. q.current = p.current /\ b \notin EventsAt(lines)
    BY <1>4, <1>5, <1>8
  <2>2. ASSUME NEW c \in EventsAt(lines) PROVE IsOpen(lines, c, i) <=> IsOpen(lines, c, i - 1)
    <3> SUFFICES ASSUME IsOpen(lines, c, i - 1) PROVE Level(lines, c) < Level(lines, i - 1)
      BY <1>6
    <3>1. c \in Begins(lines) /\ c <= i - 1
      BY DEF IsOpen
    <3>2. c \in 1..Len(lines) /\ Level(lines, c) \in Int
      BY <3>1, OpensHere
    <3>3. i - 1 \in c..(i - 1)
      BY <1>1, <3>1, <3>2
    <3>4. Level(lines, i - 1) >= Level(lines, c)
      BY <3>3 DEF IsOpen
    <3>5. Level(lines, c) # Level(lines, b)
      BY <1>1, <1>2, <2>1, OneOfDepth
    <3>6. Level(lines, i - 1) \in Int
      BY <1>1, DepthType
    <3> QED BY <1>2, <3>2, <3>4, <3>5, <3>6
  <2>3. ASSUME NEW c \in EventsAt(lines), IsOpen(lines, c, i) PROVE Collected(lines, c, i, q.current)
    <3>1. Collected(lines, c, i - 1, q.current)
      BY <2>1, <2>2, <2>3 DEF Building
    <3>2. c \in Nat /\ c <= i
      <4>1. c \in Begins(lines) /\ c <= i
        BY <2>3 DEF IsOpen
      <4> QED BY <4>1, BeginIs
    <3>3. lines[i].name \notin Telling
      BY DEF Telling
    <3> QED BY <1>1, <3>1, <3>2, <3>3, CollectedSame
  <2> QED BY <1>5, <2>1, <2>2, <2>3 DEF Building
<1> QED BY <1>7, <1>8

\* A property line keeps the builder that of the open VEVENT.
LEMMA BuildingProperty ==
  ASSUME NEW lines \in Seq(ContentLines), NEW i \in 1..Len(lines), NEW p \in Parsers, NEW q,
         Formed(lines, i - 1, p), NEW b, Innermost(lines, i - 1, p, b), Owner(lines, i) = b,
         Building(lines, i - 1, p), p.failed = FALSE,
         q = Turn(p, lines[i]), q.failed = FALSE, lines[i].name \notin {"BEGIN", "END"}, HasName(lines[i])
  PROVE  Building(lines, i, q)
<1> DEFINE l == lines[i]
           of == OfEvent(p, l)
<1>1. i \in Nat /\ l \in ContentLines /\ i - 1 \in 0..Len(lines)
  OBVIOUS
<1>2. /\ b \in Begins(lines) /\ b \in 1..(i - 1) /\ IsOpen(lines, b, i - 1)
      /\ Last(p.stack) = lines[b].text /\ (p.stack = <<"VCALENDAR">> => b = 1)
  BY DEF Innermost
<1>3. i - 1 \in 1..Len(lines) /\ b <= i - 1
  BY <1>1, <1>2
<1>4. q.current = IF of THEN Add(p.current, l) ELSE p.current
  <2>1. ~PropertyRefused(p, l)
    BY <1>1, PropertyTurn
  <2> QED BY <1>1, <2>1, PropertyTurn
<1>5. of <=> b \in EventsAt(lines)
  <2>1. ASSUME of PROVE b \in EventsAt(lines)
    <3>1. lines[b].text = "VEVENT"
      BY <1>2, <2>1 DEF OfEvent
    <3>2. Owner(lines, b) = 1
      BY <1>2, <1>3, <3>1 DEF Formed
    <3> QED BY <1>2, <3>1, <3>2 DEF EventsAt
  <2>2. ASSUME b \in EventsAt(lines) PROVE of
    <3>1. Last(p.stack) = "VEVENT"
      BY <1>2, <2>2 DEF EventsAt
    <3>2. p.current.open
      BY <1>2, <2>2 DEF Building
    <3>3. ~OfCalendar(p, l)
      <4>1. p.stack # <<"VCALENDAR">>
        <5> SUFFICES ASSUME p.stack = <<"VCALENDAR">> PROVE FALSE
          OBVIOUS
        <5>1. Last(<<"VCALENDAR">>) = "VCALENDAR"
          BY DEF Last
        <5>2. Last(p.stack) = "VCALENDAR"
          BY <5>1, Zenon
        <5> QED BY <3>1, <5>2
      <4> QED BY <4>1 DEF OfCalendar
    <3> QED BY <3>1, <3>2, <3>3 DEF OfEvent
  <2> QED BY <2>1, <2>2
<1>6. \A c : IsOpen(lines, c, i) <=> IsOpen(lines, c, i - 1)
  BY OpenStep
<1>7. p.current \in Builders
  BY ParserFields
<1>8. (q.current.open <=> p.current.open)
  <2>1. Add(p.current, l).open = p.current.open
    BY <1>1, <1>7, AddOpen
  <2>2. q.current = Add(p.current, l) \/ q.current = p.current
    BY <1>4
  <2>3. q.current.open = p.current.open
    BY <2>1, <2>2
  <2> QED BY <2>3
<1>9. ASSUME NEW c \in EventsAt(lines), IsOpen(lines, c, i) PROVE Collected(lines, c, i, q.current)
  <2>1. IsOpen(lines, c, i - 1) /\ Collected(lines, c, i - 1, p.current)
    BY <1>6, <1>9 DEF Building
  <2>2. c \in Nat /\ c > 0 /\ c <= i
    <3>1. c \in Begins(lines) /\ c <= i
      BY <1>9 DEF IsOpen
    <3>2. c \in 1..Len(lines)
      BY <3>1, BeginIs
    <3> QED BY <3>1, <3>2
  <2>3. CASE of
    <3>1. b = c
      BY <1>2, <1>3, <1>5, <2>1, <2>3, OneEvent
    <3>2. Collected(lines, c, i, Add(p.current, l))
      BY <1>1, <1>7, <2>1, <2>2, <3>1, CollectedMore
    <3> QED BY <1>4, <2>3, <3>2
  <2>4. CASE ~of
    <3>1. Owner(lines, i) # c
      BY <1>5, <2>4
    <3>2. Collected(lines, c, i, p.current)
      BY <1>1, <2>1, <2>2, <3>1, CollectedSame
    <3> QED BY <1>4, <2>4, <3>2
  <2> QED BY <2>3, <2>4
<1> HIDE DEF l, of
<1> QED BY <1>6, <1>8, <1>9 DEF Building

-----------------------------------------------------------------------------
(* The events that are kept of the VEVENTs that have been closed. *)

Done(lines, i) ==
    {b \in EventsAt(lines) : Kept(lines, b) /\ 0 < Closing(lines, b) /\ Closing(lines, b) <= i}
Rank(S, b) == Cardinality({c \in S : c <= b})

Gathered(lines, i, p) ==
    /\ Len(p.events) = Cardinality(Done(lines, i))
    /\ \A b \in Done(lines, i) :
         LET event == p.events[Rank(Done(lines, i), b)]
         IN  event.method = p.method /\ ReadAs(lines, b, event)
    /\ \A b \in EventsAt(lines) :
         0 < Closing(lines, b) /\ Closing(lines, b) <= i => ~Spoiled(lines, b)

\* The VEVENTs that have been closed are finitely many indices of lines.
LEMMA EventIndices ==
  ASSUME NEW lines \in Seq(ContentLines), NEW i
  PROVE  /\ EventsAt(lines) \subseteq Begins(lines) /\ EventsAt(lines) \subseteq 1..Len(lines)
         /\ Done(lines, i) \subseteq EventsAt(lines) /\ IsFiniteSet(Done(lines, i))
<1>1. EventsAt(lines) \subseteq Begins(lines) /\ Begins(lines) \subseteq 1..Len(lines)
  BY DEF EventsAt, Begins
<1>2. Done(lines, i) \subseteq EventsAt(lines)
  BY DEF Done
<1>3. IsFiniteSet(1..Len(lines)) /\ Done(lines, i) \subseteq 1..Len(lines)
  BY <1>1, <1>2, FS_Interval
<1> QED BY <1>1, <1>2, <1>3, FS_Subset

\* Nothing is closed by other lines.
LEMMA GatheredSame ==
  ASSUME NEW lines \in Seq(ContentLines), NEW i \in 1..Len(lines), NEW p, NEW q, Gathered(lines, i - 1, p),
         \A b \in EventsAt(lines) : Closing(lines, b) # i,
         q.events = p.events, q.method = p.method \/ Done(lines, i - 1) = {}
  PROVE  Gathered(lines, i, q)
<1>1. \A b \in EventsAt(lines) : 0 < Closing(lines, b) /\ Closing(lines, b) <= i
                                 <=> 0 < Closing(lines, b) /\ Closing(lines, b) <= i - 1
  <2> TAKE b \in EventsAt(lines)
  <2>1. PICK c : c = Closing(lines, b)
    OBVIOUS
  <2>2. c \in Nat /\ c # i /\ i \in Nat
    <3>1. b \in Begins(lines)
      BY EventIndices
    <3> QED BY <2>1, <3>1, ClosedBefore
  <2> QED BY <2>1, <2>2
<1>2. Done(lines, i) = Done(lines, i - 1)
  BY <1>1 DEF Done
<1> QED BY <1>1, <1>2 DEF Gathered

\* A VEVENT that is closed has said all it says.
LEMMA SaysAll ==
  ASSUME NEW lines \in Seq(ContentLines), NEW b \in Begins(lines), NEW i \in 1..Len(lines),
         Closing(lines, b) = i, NEW builder, Collected(lines, b, i - 1, builder)
  PROVE  Says(lines, b, builder)
<1> SUFFICES ASSUME NEW name \in Telling
             PROVE  Said(lines, b, name) = IF Has(builder, name) THEN {Property(builder, name)} ELSE {}
  BY DEF Says
<1> DEFINE N == Len(lines)
           at == {k \in b..N : lines[k].name = name /\ Owner(lines, k) = b}
<1>1. b \in 1..N /\ N \in Nat /\ b <= i - 1
  BY BeginIs, ClosesHere
<1>2. ASSUME NEW k \in b..N, Owner(lines, k) = b PROVE k \in b..(i - 1)
  <2>1. k \in 1..N /\ b # 0
    BY <1>1
  <2>2. IsOpen(lines, b, k)
    BY <1>2, <2>1, OwnerOpen
  <2>3. Closing(lines, b) > k \/ Closing(lines, b) = 0
    BY <1>1, <2>2, OpenUntilClosed
  <2> QED BY <1>1, <2>3
<1>3. \A k \in b..(i - 1) : k \in b..N
  BY <1>1
<1>4. at = Saying(lines, b, i - 1, name)
  BY <1>2, <1>3 DEF Saying
<1>5. Said(lines, b, name) = IF at = {} THEN {} ELSE {lines[Min(at)]}
  BY DEF Said
<1> HIDE DEF at
<1> QED BY <1>4, <1>5 DEF Collected

\* Ranks when the last element is added.
LEMMA RankStep ==
  ASSUME NEW S \in SUBSET Nat, IsFiniteSet(S), NEW b \in Nat, \A c \in S : c < b
  PROVE  /\ Cardinality(S \cup {b}) = Cardinality(S) + 1 /\ Cardinality(S) \in Nat
         /\ Rank(S \cup {b}, b) = Cardinality(S) + 1
         /\ \A c \in S : Rank(S \cup {b}, c) = Rank(S, c) /\ Rank(S, c) \in 1..Cardinality(S)
<1>1. b \notin S
  <2>1. ~(b < b)
    OBVIOUS
  <2> QED BY <2>1, Zenon
<1>2. Cardinality(S \cup {b}) = Cardinality(S) + 1 /\ Cardinality(S) \in Nat
  BY <1>1, FS_AddElement, FS_CardinalityType
<1>3. {c \in S \cup {b} : c <= b} = S \cup {b}
  <2>1. \A c \in S : c \in Nat /\ c < b
    BY Zenon
  <2>2. \A c \in S \cup {b} : c <= b
    <3> TAKE c \in S \cup {b}
    <3>1. c \in Nat /\ (c < b \/ c = b)
      BY <2>1, Zenon
    <3> QED BY <3>1
  <2> QED BY <2>2, Zenon
<1>4. ASSUME NEW c \in S PROVE Rank(S \cup {b}, c) = Rank(S, c) /\ Rank(S, c) \in 1..Cardinality(S)
  <2> DEFINE below == {d \in S : d <= c}
  <2>1. c \in Nat /\ ~(b <= c)
    OBVIOUS
  <2>2. {d \in S \cup {b} : d <= c} = below
    BY <2>1
  <2>3. below \subseteq S /\ c \in below
    BY <2>1
  <2> HIDE DEF below
  <2>4. IsFiniteSet(below) /\ Cardinality(below) <= Cardinality(S) /\ Cardinality(below) \in Nat
    BY <2>3, FS_Subset, FS_CardinalityType
  <2>5. Cardinality(below) # 0
    BY <2>3, <2>4, FS_EmptySet
  <2> QED BY <1>2, <2>2, <2>4, <2>5 DEF Rank, below
<1> QED BY <1>2, <1>3, <1>4 DEF Rank

\* Of a VEVENT that is kept and not spoiled, the builder returns the event that its lines say.
LEMMA BuildKept ==
  ASSUME NEW lines, NEW b, NEW builder, NEW method, NEW r, r = Build(builder, method),
         builder \in Builders, Says(lines, b, builder), Kept(lines, b), ~Spoiled(lines, b)
  PROVE  r.include = TRUE /\ r.event.method = method /\ ReadAs(lines, b, r.event)
BY BuildIs, ZenonT(30)

\* An END keeps the events of the parser those of the VEVENTs that have been closed.
LEMMA GatheredEnd ==
  ASSUME NEW lines \in Seq(ContentLines), NEW i \in 1..Len(lines), NEW p \in Parsers, NEW q,
         Formed(lines, i - 1, p), Building(lines, i - 1, p), Gathered(lines, i - 1, p),
         NEW b, Innermost(lines, i - 1, p, b), Closing(lines, b) = i,
         EventEnds(p, lines[i]) <=> b \in EventsAt(lines), p.failed = FALSE,
         q = Turn(p, lines[i]), q.failed = FALSE, lines[i].name = "END"
  PROVE  Gathered(lines, i, q)
<1> DEFINE l == lines[i]
           built == Build(p.current, p.method)
           D == Done(lines, i - 1)
<1>1. i \in Nat /\ l \in ContentLines /\ i - 1 \in 0..Len(lines) /\ i - 1 \in Nat
  OBVIOUS
<1>2. /\ b \in Begins(lines) /\ b \in 1..(i - 1) /\ IsOpen(lines, b, i - 1)
      /\ Level(lines, b) = Level(lines, i - 1)
  BY DEF Innermost
<1>3. i - 1 \in 1..Len(lines) /\ b <= i - 1 /\ b \in Nat
  BY <1>1, <1>2
<1>4. ~EndRefused(p, l)
  BY <1>1, EndTurn
<1>5. /\ q.method = p.method
      /\ q.events = IF EventEnds(p, l) /\ built.include THEN Append(p.events, built.event) ELSE p.events
  BY <1>1, <1>4, EndTurn
<1>6. \A c \in Begins(lines) : Closing(lines, c) = i => c = b
  <2> SUFFICES ASSUME NEW c \in Begins(lines), Closing(lines, c) = i PROVE c = b
    OBVIOUS
  <2>1. IsOpen(lines, c, i - 1) /\ Level(lines, c) = Level(lines, b)
    BY <1>2, ClosesHere
  <2> QED BY <1>1, <1>2, <2>1, OneOfDepth
<1> HIDE DEF built
<1>7. CASE ~EventEnds(p, l)
  <2>1. \A c \in EventsAt(lines) : Closing(lines, c) # i
    BY <1>6, <1>7, EventIndices
  <2> QED BY <1>5, <1>7, <2>1, GatheredSame
<1>8. CASE EventEnds(p, l)
  <2>1. b \in EventsAt(lines)
    BY <1>8
  <2>2. Says(lines, b, p.current) /\ p.current \in Builders
    <3>1. Collected(lines, b, i - 1, p.current)
      BY <1>2, <2>1 DEF Building
    <3> QED BY <1>2, <3>1, SaysAll, ParserFields
  <2>3. /\ Spoiled(lines, b) => built.valid = FALSE
        /\ Kept(lines, b) /\ ~Spoiled(lines, b) =>
               built.include = TRUE /\ built.event.method = p.method /\ ReadAs(lines, b, built.event)
        /\ ~Kept(lines, b) => built.include = FALSE
    <3>1. PICK r : r = Build(p.current, p.method)
      OBVIOUS
    <3>2. Spoiled(lines, b) => r.valid = FALSE
      BY <2>2, <3>1, BuildIs
    <3>3. ~Kept(lines, b) => r.include = FALSE
      BY <2>2, <3>1, BuildIs
    <3>4. ASSUME Kept(lines, b), ~Spoiled(lines, b)
          PROVE  r.include = TRUE /\ r.event.method = p.method /\ ReadAs(lines, b, r.event)
      <4>1. PICK builder, method : builder = p.current /\ method = p.method
        OBVIOUS
      <4>2. r = Build(builder, method) /\ builder \in Builders /\ Says(lines, b, builder)
        BY <2>2, <3>1, <4>1
      <4>3. r.include = TRUE /\ r.event.method = method /\ ReadAs(lines, b, r.event)
        BY <3>4, <4>2, BuildKept
      <4> QED BY <4>1, <4>3
    <3> QED BY <3>1, <3>2, <3>3, <3>4 DEF built
  <2>4. ~Spoiled(lines, b)
    <3>1. built.valid
      BY <1>4, <1>8 DEF EndRefused, built
    <3> QED BY <2>3, <3>1
  <2>5. \A c \in EventsAt(lines) : 0 < Closing(lines, c) /\ Closing(lines, c) <= i
                                   <=> c = b \/ (0 < Closing(lines, c) /\ Closing(lines, c) <= i - 1)
    <3> TAKE c \in EventsAt(lines)
    <3>1. PICK d : d = Closing(lines, c)
      OBVIOUS
    <3>2. c \in Begins(lines) /\ d \in Nat
      BY <3>1, ClosedBefore, EventIndices
    <3>3. c = b <=> d = i
      BY <1>6, <3>1, <3>2
    <3> QED BY <1>1, <3>1, <3>2, <3>3
  <2>6. \A c \in EventsAt(lines) : 0 < Closing(lines, c) /\ Closing(lines, c) <= i => ~Spoiled(lines, c)
    BY <2>4, <2>5 DEF Gathered
  <2>7. \A c \in D : c < b
    <3> SUFFICES ASSUME NEW c \in D PROVE c < b
      OBVIOUS
    <3>1. PICK d : d = Closing(lines, c)
      OBVIOUS
    <3>2. c \in EventsAt(lines) /\ c \in Begins(lines) /\ 0 < d /\ d <= i - 1
      BY <3>1, EventIndices DEF Done
    <3>3. d \in (c + 1)..Len(lines) /\ c \in 1..Len(lines)
      BY <3>1, <3>2, BeginIs, ClosingIs
    <3>4. c <= i - 1 /\ c # b
      BY <1>1, <3>1, <3>2, <3>3
    <3>5. ASSUME c > b PROVE FALSE
      <4>1. Level(lines, c) = 2 /\ Level(lines, b) = 2
        BY <1>3, <2>1, <3>2, <3>4, OneEvent
      <4>2. Level(lines, c) = Level(lines, c - 1) + 1 /\ Level(lines, c - 1) \in Int
        BY <3>2, OpensHere
      <4>3. c - 1 \in b..(i - 1)
        BY <1>1, <1>3, <3>3, <3>4, <3>5
      <4>4. Level(lines, c - 1) >= Level(lines, b)
        BY <1>2, <4>3 DEF IsOpen
      <4> QED BY <4>1, <4>2, <4>4
    <3> QED BY <1>3, <3>3, <3>4, <3>5
  <2>8. D \in SUBSET Nat /\ IsFiniteSet(D)
    BY EventIndices
  <2>9. CASE ~Kept(lines, b)
    <3>1. Done(lines, i) = D
      BY <2>5, <2>9 DEF Done
    <3>2. q.events = p.events
      BY <1>5, <2>3, <2>9
    <3> QED BY <1>5, <2>6, <3>1, <3>2 DEF Gathered
  <2>10. CASE Kept(lines, b)
    <3>1. Done(lines, i) = D \cup {b}
      BY <2>1, <2>5, <2>10 DEF Done
    <3>2. /\ q.events = Append(p.events, built.event)
          /\ built.event.method = p.method /\ ReadAs(lines, b, built.event)
      BY <1>5, <1>8, <2>3, <2>4, <2>10
    <3>3. p.events \in Seq(ParsedEvents) /\ Len(p.events) = Cardinality(D) /\ Cardinality(D) \in Nat
      BY <2>8, FS_CardinalityType, ParserFields DEF Gathered
    <3>4. /\ Len(q.events) = Cardinality(D) + 1 /\ q.events[Cardinality(D) + 1] = built.event
          /\ \A k \in 1..Cardinality(D) : q.events[k] = p.events[k]
      BY <3>2, <3>3
    <3>5. /\ Cardinality(D \cup {b}) = Cardinality(D) + 1
          /\ Rank(D \cup {b}, b) = Cardinality(D) + 1
          /\ \A c \in D : Rank(D \cup {b}, c) = Rank(D, c) /\ Rank(D, c) \in 1..Cardinality(D)
      BY <1>3, <2>7, <2>8, RankStep
    <3>6. ASSUME NEW c \in D \cup {b}
          PROVE  /\ q.events[Rank(D \cup {b}, c)].method = q.method
                 /\ ReadAs(lines, c, q.events[Rank(D \cup {b}, c)])
      <4>1. CASE c = b
        BY <1>5, <3>2, <3>4, <3>5, <4>1
      <4>2. CASE c \in D
        <5>1. q.events[Rank(D \cup {b}, c)] = p.events[Rank(D, c)]
          BY <3>4, <3>5, <4>2
        <5>2. p.events[Rank(D, c)].method = p.method /\ ReadAs(lines, c, p.events[Rank(D, c)])
          BY <4>2 DEF Gathered
        <5> QED BY <1>5, <5>1, <5>2
      <4> QED BY <4>1, <4>2
    <3> HIDE DEF D
    <3> QED BY <2>6, <3>1, <3>4, <3>5, <3>6 DEF Gathered
  <2> QED BY <2>9, <2>10
<1> QED BY <1>7, <1>8

-----------------------------------------------------------------------------
(* All that holds while the parser has not failed. *)

Alive(lines, i, p) ==
    /\ Tree(lines, i, p)
    /\ Formed(lines, i, p)
    /\ Building(lines, i, p)
    /\ Gathered(lines, i, p)

\* Before the first line nothing is open, closed or read.
LEMMA NothingYet ==
  ASSUME NEW lines \in Seq(ContentLines)
  PROVE  /\ \A b \in Begins(lines) : ~(b <= 0) /\ ~(0 < Closing(lines, b) /\ Closing(lines, b) <= 0)
         /\ EventsUpTo(lines, 0) = {} /\ MethodsUpTo(lines, 0) = {} /\ Done(lines, 0) = {}
         /\ \A b : ~IsOpen(lines, b, 0)
<1>1. ASSUME NEW b \in Begins(lines)
      PROVE  ~(b <= 0) /\ ~(0 < Closing(lines, b) /\ Closing(lines, b) <= 0)
  <2>1. PICK c : c = Closing(lines, b)
    OBVIOUS
  <2>2. b \in 1..Len(lines) /\ c \in Nat
    BY <2>1, BeginIs, ClosingIs
  <2> QED BY <2>1, <2>2
<1>2. \A b \in EventsAt(lines) : b \in Begins(lines)
  BY EventIndices
<1>3. 1..0 = {}
  OBVIOUS
<1> QED BY <1>1, <1>2, <1>3 DEF EventsUpTo, MethodsUpTo, Done, IsOpen

\* The invariant of the loop holds before the first line.
LEMMA AliveAtFirst ==
  ASSUME NEW lines \in Seq(ContentLines), NEW p, p = InitialParser
  PROVE  Alive(lines, 0, p) /\ p.failed = FALSE
<1>1. /\ p.failed = FALSE /\ p.seenCalendar = FALSE /\ p.closedCalendar = FALSE /\ p.seenComponent = FALSE
      /\ p.method = "PUBLISH" /\ p.stack = <<>> /\ p.events = <<>> /\ p.current = NoBuilder /\ p.eventCount = 0
  BY DEF InitialParser
<1>2. Level(lines, 0) = 0 /\ \A x \in 0..0 : x = 0
  BY DepthAtFirst
<1>3. Tree(lines, 0, p)
  <2>1. \A x \in 1..(0 - 1) : FALSE
    OBVIOUS
  <2>2. Named(lines, 0)
    BY DEF Named
  <2>3. Len(p.stack) = 0 /\ \A k \in 1..Len(p.stack) : FALSE
    BY <1>1
  <2>4. ~p.seenCalendar /\ ~p.closedCalendar /\ ~p.seenComponent
    BY <1>1
  <2> QED BY <1>2, <2>1, <2>2, <2>3, <2>4, NothingYet DEF Tree
<1>4. Formed(lines, 0, p)
  <2>1. 0 = Cardinality(EventsUpTo(lines, 0)) /\ 0 <= MaxEvents
    <3>1. MaxEvents \in Nat
      BY IcsAssumption
    <3> QED BY <3>1, NothingYet, FS_EmptySet
  <2>2. p.method = MethodUpTo(lines, 0)
    BY <1>1, NothingYet DEF MethodUpTo
  <2>3. \A k \in 1..0 : FALSE
    OBVIOUS
  <2> QED BY <1>1, <2>1, <2>2, <2>3, NothingYet DEF Formed
<1>5. Building(lines, 0, p)
  <2>1. ~p.current.open
    BY <1>1, NoBuilderType
  <2> QED BY <2>1, NothingYet DEF Building
<1>6. Gathered(lines, 0, p)
  <2>1. Len(p.events) = Cardinality(Done(lines, 0))
    BY <1>1, NothingYet, FS_EmptySet
  <2>2. \A b \in EventsAt(lines) : b \in Begins(lines)
    BY EventIndices
  <2> QED BY <2>1, <2>2, NothingYet DEF Gathered
<1> QED BY <1>1, <1>3, <1>4, <1>5, <1>6 DEF Alive

\* No VEVENT has been closed before METHOD.
LEMMA NoneDone ==
  ASSUME NEW lines \in Seq(ContentLines), NEW i \in 1..Len(lines), NEW p, Tree(lines, i - 1, p), ~p.seenComponent
  PROVE  Done(lines, i - 1) = {}
<1> SUFFICES ASSUME NEW b \in Done(lines, i - 1) PROVE FALSE
  OBVIOUS
<1>1. PICK c : c = Closing(lines, b)
  OBVIOUS
<1>2. b \in Begins(lines) /\ Owner(lines, b) = 1 /\ 0 < c /\ c <= i - 1
  BY <1>1, EventIndices DEF Done, EventsAt
<1>3. c \in (b + 1)..Len(lines) /\ b \in 1..Len(lines)
  BY <1>1, <1>2, BeginIs, ClosingIs
<1>4. 1 < b
  <2>1. 1 # 0
    OBVIOUS
  <2> QED BY <1>2, <1>3, <2>1, OwnerOpen
<1>5. b <= i - 1
  BY <1>2, <1>3
<1> QED BY <1>2, <1>4, <1>5 DEF Tree

\* The invariant of the loop holds after every line that does not fail.
LEMMA AliveStep ==
  ASSUME NEW lines \in Seq(ContentLines), NEW i \in 1..Len(lines), NEW p \in Parsers, NEW q,
         Alive(lines, i - 1, p), p.failed = FALSE, q = Turn(p, lines[i]), q.failed = FALSE
  PROVE  Alive(lines, i, q)
<1> DEFINE l == lines[i]
<1>1. Tree(lines, i - 1, p) /\ Formed(lines, i - 1, p) /\ Building(lines, i - 1, p) /\ Gathered(lines, i - 1, p)
  BY DEF Alive
<1>2. Tree(lines, i, q) /\ HasName(lines[i])
  BY <1>1, TreeStep
<1>3. l \in ContentLines
  OBVIOUS
<1>4. ASSUME l.name # "END" PROVE \A b \in EventsAt(lines) : Closing(lines, b) # i
  BY <1>4, ClosesHere, EventIndices
<1>5. CASE l.name = "BEGIN"
  <2>1. Formed(lines, i, q) /\ (EventBegins(p, lines[i]) <=> i \in EventsAt(lines))
    BY <1>1, <1>5, FormedBegin
  <2>2. Building(lines, i, q)
    BY <1>1, <1>5, <2>1, BuildingBegin
  <2>3. q.events = p.events /\ q.method = p.method
    <3>1. ~BeginRefused(p, l)
      BY <1>3, <1>5, BeginTurn
    <3> QED BY <1>3, <1>5, <3>1, BeginTurn
  <2>4. \A b \in EventsAt(lines) : Closing(lines, b) # i
    BY <1>4, <1>5
  <2>5. Gathered(lines, i, q)
    BY <1>1, <2>3, <2>4, GatheredSame
  <2> QED BY <1>2, <2>1, <2>2, <2>5 DEF Alive
<1>6. CASE l.name = "END"
  <2>1. PICK b : Innermost(lines, i - 1, p, b) /\ lines[b].text = lines[i].text /\ Closing(lines, b) = i
    BY <1>1, <1>6, FormedEnd
  <2>2. Formed(lines, i, q)
    BY <1>1, <1>6, FormedEnd
  <2>3. Building(lines, i, q) /\ (EventEnds(p, lines[i]) <=> b \in EventsAt(lines))
    BY <1>1, <1>6, <2>1, BuildingEnd
  <2>4. Gathered(lines, i, q)
    BY <1>1, <1>6, <2>1, <2>3, GatheredEnd
  <2> QED BY <1>2, <2>2, <2>3, <2>4 DEF Alive
<1>7. CASE l.name \notin {"BEGIN", "END"}
  <2>1. PICK b : Innermost(lines, i - 1, p, b) /\ Owner(lines, i) = b
    BY <1>1, <1>2, <1>7, FormedProperty
  <2>2. Formed(lines, i, q)
    BY <1>1, <1>2, <1>7, FormedProperty
  <2>3. Building(lines, i, q)
    BY <1>1, <1>2, <1>7, <2>1, BuildingProperty
  <2>4. /\ ~PropertyRefused(p, l) /\ q.events = p.events
        /\ q.method = IF OfCalendar(p, l) /\ HasText(l) THEN l.text ELSE p.method
    <3>1. ~PropertyRefused(p, l)
      BY <1>2, <1>3, <1>7, PropertyTurn
    <3> QED BY <1>2, <1>3, <1>7, <3>1, PropertyTurn
  <2>5. q.method = p.method \/ Done(lines, i - 1) = {}
    <3>1. CASE OfCalendar(p, l)
      <4>1. ~p.seenComponent
        BY <2>4, <3>1 DEF PropertyRefused
      <4> QED BY <1>1, <4>1, NoneDone
    <3>2. CASE ~OfCalendar(p, l)
      BY <2>4, <3>2
    <3> QED BY <3>1, <3>2
  <2>6. \A b1 \in EventsAt(lines) : Closing(lines, b1) # i
    BY <1>4, <1>7
  <2>7. Gathered(lines, i, q)
    BY <1>1, <2>4, <2>5, <2>6, GatheredSame
  <2> QED BY <1>2, <2>2, <2>3, <2>7 DEF Alive
<1> QED BY <1>5, <1>6, <1>7

-----------------------------------------------------------------------------
(* A calendar that is well formed is read to its end. *)

LEMMA WellFormedIs ==
  ASSUME NEW lines, WellFormed(lines)
  PROVE  /\ lines # <<>> /\ lines[1].name = "BEGIN" /\ lines[1].text = "VCALENDAR"
         /\ Closing(lines, 1) = Len(lines)
         /\ \A b \in Begins(lines) :
              /\ Closing(lines, b) > 0 /\ lines[Closing(lines, b)].text = lines[b].text
              /\ b > 1 => lines[b].text # "VCALENDAR"
              /\ lines[b].text = "VEVENT" => b \in EventsAt(lines)
         /\ Cardinality(EventsAt(lines)) <= MaxEvents
         /\ \A i \in 1..Len(lines) : HasName(lines[i])
         /\ \A i \in 1..Len(lines) :
              lines[i].name = "METHOD" /\ Owner(lines, i) = 1 => \A b \in Begins(lines) : b = 1 \/ b > i
BY Zenon DEF WellFormed, HasName

\* Until the last line of a calendar that is well formed something is open.
LEMMA StillOpen ==
  ASSUME NEW lines \in Seq(ContentLines), WellFormed(lines), NEW i \in 1..Len(lines), i > 1
  PROVE  i - 1 \in 1..Len(lines) /\ Level(lines, i - 1) > 0
<1>1. lines[1].name = "BEGIN" /\ Closing(lines, 1) = Len(lines)
  BY WellFormedIs
<1>2. 1 \in Begins(lines) /\ i - 1 \in 1..Len(lines) /\ i - 1 \in 0..Len(lines) /\ i - 1 < Len(lines)
  BY <1>1, BeginIs
<1>3. IsOpen(lines, 1, i - 1)
  BY <1>1, <1>2, OpenUntilClosed
<1>4. Level(lines, i - 1) >= Level(lines, 1)
  BY <1>2, <1>3 DEF IsOpen
<1>5. Level(lines, 1) = 1
  <2>1. Level(lines, 1) = Level(lines, 1 - 1) + 1 /\ 1 - 1 = 0
    BY <1>2, OpensHere
  <2> QED BY <2>1, DepthAtFirst
<1>6. Level(lines, i - 1) \in Int
  BY <1>2, DepthType
<1> QED BY <1>2, <1>4, <1>5, <1>6

\* No BEGIN of a well-formed calendar is refused.
LEMMA BeginTaken ==
  ASSUME NEW lines \in Seq(ContentLines), WellFormed(lines), NEW i \in 1..Len(lines), NEW p \in Parsers,
         Tree(lines, i - 1, p), Formed(lines, i - 1, p), lines[i].name = "BEGIN"
  PROVE  ~BeginRefused(p, lines[i])
<1> DEFINE l == lines[i]
<1>1. i \in Begins(lines) /\ i - 1 \in 0..Len(lines) /\ i \in Nat
  BY BeginIs
<1>2. Len(p.stack) = Level(lines, i - 1)
  BY DEF Tree
<1>3. CASE i = 1
  <2>1. Len(p.stack) = 0
    BY <1>2, <1>3, DepthAtFirst
  <2>2. l.text = "VCALENDAR"
    BY <1>3, WellFormedIs
  <2>3. ~p.seenCalendar
    BY <1>3 DEF Tree
  <2> QED BY <2>1, <2>2, <2>3 DEF BeginRefused, EventBegins
<1>4. CASE i > 1
  <2>1. i - 1 \in 1..Len(lines) /\ Level(lines, i - 1) > 0
    BY <1>4, StillOpen
  <2>2. Len(p.stack) # 0 /\ l.text # "VCALENDAR"
    BY <1>1, <1>2, <1>4, <2>1, WellFormedIs
  <2>3. ASSUME l.text = "VEVENT" PROVE p.stack = <<"VCALENDAR">> /\ ~(p.eventCount + 1 > MaxEvents)
    <3>1. i \in EventsAt(lines)
      BY <1>1, <2>3, WellFormedIs
    <3>2. PICK b : Innermost(lines, i - 1, p, b)
      BY <2>1, InnerIs
    <3>3. Owner(lines, i) = b
      <4>1. i - 1 < Len(lines) /\ (i - 1) + 1 = i
        BY <1>1
      <4> QED BY <3>2, <4>1 DEF Innermost
    <3>4. b = 1
      BY <3>1, <3>3 DEF EventsAt
    <3>5. p.stack = <<"VCALENDAR">>
      BY <3>2, <3>4 DEF Innermost
    <3>6. EventsUpTo(lines, i - 1) \cup {i} \subseteq EventsAt(lines) /\ i \notin EventsUpTo(lines, i - 1)
      BY <1>1, <3>1 DEF EventsUpTo
    <3>7. IsFiniteSet(EventsAt(lines))
      <4>1. EventsAt(lines) \subseteq 1..Len(lines)
        BY EventIndices
      <4>2. IsFiniteSet(1..Len(lines))
        BY FS_Interval
      <4> QED BY <4>1, <4>2, FS_Subset
    <3>8. /\ Cardinality(EventsUpTo(lines, i - 1) \cup {i}) = Cardinality(EventsUpTo(lines, i - 1)) + 1
          /\ Cardinality(EventsUpTo(lines, i - 1)) \in Nat
      BY <1>1, <3>6, EventsUpToFinite, FS_AddElement
    <3>9. /\ Cardinality(EventsUpTo(lines, i - 1) \cup {i}) <= Cardinality(EventsAt(lines))
          /\ Cardinality(EventsAt(lines)) \in Nat
      BY <3>6, <3>7, FS_Subset, FS_CardinalityType
    <3>10. Cardinality(EventsAt(lines)) <= MaxEvents /\ MaxEvents \in Nat
      <4>1. MaxEvents \in Nat
        BY IcsAssumption
      <4> QED BY <4>1, WellFormedIs
    <3>11. p.eventCount = Cardinality(EventsUpTo(lines, i - 1))
      BY DEF Formed
    <3>12. p.eventCount + 1 <= MaxEvents
      BY <3>8, <3>9, <3>10, <3>11
    <3> QED BY <3>5, <3>8, <3>10, <3>11, <3>12
  <2> QED BY <2>2, <2>3 DEF BeginRefused, EventBegins
<1> QED BY <1>1, <1>3, <1>4

\* No END of a well-formed calendar without a spoiled event is refused.
LEMMA EndTaken ==
  ASSUME NEW lines \in Seq(ContentLines), WellFormed(lines), \A b \in EventsAt(lines) : ~Spoiled(lines, b),
         NEW i \in 1..Len(lines), NEW p \in Parsers,
         Tree(lines, i - 1, p), Building(lines, i - 1, p), lines[i].name = "END"
  PROVE  ~EndRefused(p, lines[i])
<1> DEFINE l == lines[i]
<1>1. i > 1
  <2>1. i # 1
    BY WellFormedIs
  <2> QED BY <2>1
<1>2. i - 1 \in 1..Len(lines) /\ Level(lines, i - 1) > 0
  BY <1>1, StillOpen
<1>3. PICK b : Innermost(lines, i - 1, p, b)
  BY <1>2, InnerIs
<1>4. /\ b \in Begins(lines) /\ b \in 1..(i - 1) /\ IsOpen(lines, b, i - 1)
      /\ Level(lines, b) = Level(lines, i - 1) /\ p.stack # <<>> /\ Last(p.stack) = lines[b].text
  BY <1>3 DEF Innermost
<1>5. Closing(lines, b) = i
  BY <1>4, EndCloses
<1>6. lines[b].text = l.text
  BY <1>4, <1>5, WellFormedIs
<1>7. ASSUME EventEnds(p, l) PROVE Build(p.current, p.method).valid
  <2>1. l.text = "VEVENT"
    BY <1>7 DEF EventEnds
  <2>2. b \in EventsAt(lines)
    BY <1>4, <1>6, <2>1, WellFormedIs
  <2>3. Collected(lines, b, i - 1, p.current)
    BY <1>4, <2>2 DEF Building
  <2>4. Says(lines, b, p.current) /\ p.current \in Builders
    BY <1>4, <1>5, <2>3, SaysAll, ParserFields
  <2>5. PICK r : r = Build(p.current, p.method)
    OBVIOUS
  <2>6. r.valid = TRUE
    BY <2>2, <2>4, <2>5, BuildIs
  <2> QED BY <2>5, <2>6
<1> QED BY <1>4, <1>6, <1>7 DEF EndRefused

\* No property line of a well-formed calendar is refused.
LEMMA PropertyTaken ==
  ASSUME NEW lines \in Seq(ContentLines), WellFormed(lines), NEW i \in 1..Len(lines), NEW p \in Parsers,
         Tree(lines, i - 1, p), lines[i].name \notin {"BEGIN", "END"}
  PROVE  ~PropertyRefused(p, lines[i])
<1> DEFINE l == lines[i]
<1>1. i > 1
  <2>1. i # 1
    BY WellFormedIs
  <2> QED BY <2>1
<1>2. i - 1 \in 1..Len(lines) /\ Level(lines, i - 1) > 0
  BY <1>1, StillOpen
<1>3. PICK b : Innermost(lines, i - 1, p, b)
  BY <1>2, InnerIs
<1>4. p.stack # <<>> /\ (p.stack = <<"VCALENDAR">> => b = 1)
  BY <1>3 DEF Innermost
<1>5. Owner(lines, i) = b
  <2>1. i - 1 < Len(lines) /\ (i - 1) + 1 = i
    OBVIOUS
  <2> QED BY <1>3, <2>1 DEF Innermost
<1>6. ASSUME OfCalendar(p, l), p.seenComponent PROVE FALSE
  <2>1. lines[i].name = "METHOD" /\ Owner(lines, i) = 1
    BY <1>4, <1>5, <1>6 DEF OfCalendar
  <2>2. PICK c \in Begins(lines) : 1 < c /\ c <= i - 1
    BY <1>6 DEF Tree
  <2>3. c = 1 \/ c > i
    BY <2>1, WellFormedIs
  <2>4. c \in 1..Len(lines)
    BY BeginIs
  <2> QED BY <2>2, <2>3, <2>4
<1> QED BY <1>4, <1>6 DEF PropertyRefused

\* No line of a well-formed calendar without a spoiled event fails the parser.
LEMMA Progress ==
  ASSUME NEW lines \in Seq(ContentLines), WellFormed(lines), \A b \in EventsAt(lines) : ~Spoiled(lines, b),
         NEW i \in 1..Len(lines), NEW p \in Parsers, NEW q, Alive(lines, i - 1, p), p.failed = FALSE,
         q = Turn(p, lines[i])
  PROVE  q.failed = FALSE
<1>1. Tree(lines, i - 1, p) /\ Formed(lines, i - 1, p) /\ Building(lines, i - 1, p) /\ lines[i] \in ContentLines
  BY DEF Alive
<1>2. CASE lines[i].name = "BEGIN"
  BY <1>1, <1>2, BeginTaken, BeginTurn
<1>3. CASE lines[i].name = "END"
  BY <1>1, <1>3, EndTaken, EndTurn
<1>4. CASE lines[i].name \notin {"BEGIN", "END"}
  <2>1. HasName(lines[i])
    BY WellFormedIs
  <2>2. ~PropertyRefused(p, lines[i])
    BY <1>1, <1>4, PropertyTaken
  <2> QED BY <1>1, <1>4, <2>1, <2>2, PropertyTurn
<1> QED BY <1>2, <1>3, <1>4

-----------------------------------------------------------------------------
(* What the parser returns. *)

\* The parser has failed, or all of the above holds.
LEMMA ParsedAlive ==
  ASSUME NEW lines \in Seq(ContentLines), NEW i \in 0..Len(lines), NEW p, p = Parsed(lines)[i]
  PROVE  /\ p \in Parsers
         /\ p.failed = FALSE => Alive(lines, i, p)
         /\ WellFormed(lines) /\ (\A b \in EventsAt(lines) : ~Spoiled(lines, b)) => p.failed = FALSE
<1> DEFINE N == Len(lines)
           all == Parsed(lines)
           Sound == WellFormed(lines) /\ \A b \in EventsAt(lines) : ~Spoiled(lines, b)
           Good(n) == /\ all[n].failed = FALSE => Alive(lines, n, all[n])
                      /\ Sound => all[n].failed = FALSE
           S == {n \in Nat : n <= N => Good(n)}
<1>1. /\ all \in [0..N -> Parsers] /\ all[0] = InitialParser
      /\ \A n \in 1..N : all[n] = Turn(all[n - 1], lines[n])
  BY ParsedIs
<1> HIDE DEF all
<1>2. 0 \in S
  BY <1>1, AliveAtFirst
<1>3. ASSUME NEW n \in Nat, n \in S PROVE n + 1 \in S
  <2> HIDE DEF Good
  <2> SUFFICES ASSUME n + 1 <= N PROVE Good(n + 1)
    OBVIOUS
  <2>1. n + 1 \in 1..N /\ (n + 1) - 1 = n /\ n \in 0..N /\ n <= N /\ N \in Nat
    OBVIOUS
  <2>2. PICK a, q : a = all[n] /\ q = all[n + 1]
    OBVIOUS
  <2>3. a \in Parsers /\ q = Turn(a, lines[n + 1])
    BY <1>1, <2>1, <2>2
  <2>4. (a.failed = FALSE => Alive(lines, n, a)) /\ (Sound => a.failed = FALSE)
    BY <1>3, <2>1, <2>2 DEF Good
  <2>5. a.failed = FALSE \/ a.failed = TRUE
    BY <2>3, ParserFields
  <2> HIDE DEF Sound
  <2>6. CASE a.failed = TRUE
    <3>1. q = a
      BY <2>3, <2>6 DEF Turn
    <3> QED BY <2>2, <2>4, <2>6, <3>1 DEF Good
  <2>7. CASE a.failed = FALSE
    <3>1. Alive(lines, (n + 1) - 1, a)
      BY <2>1, <2>4, <2>7
    <3>2. q.failed = FALSE => Alive(lines, n + 1, q)
      BY <2>1, <2>3, <2>7, <3>1, AliveStep
    <3>3. Sound => q.failed = FALSE
      BY <2>1, <2>3, <2>7, <3>1, Progress DEF Sound
    <3> QED BY <2>2, <3>2, <3>3 DEF Good
  <2> QED BY <2>5, <2>6, <2>7
<1>4. \A n \in Nat : n \in S
  <2> HIDE DEF S
  <2> QED BY <1>2, <1>3, SetInduction
<1>5. i \in Nat /\ i <= N /\ i \in S
  BY <1>4
<1> QED BY <1>1, <1>5 DEF all

\* At the end of a calendar that was read everything is closed.
LEMMA AllClosed ==
  ASSUME NEW lines \in Seq(ContentLines), Level(lines, Len(lines)) = 0, NEW b \in Begins(lines),
         \A x \in 0..Len(lines) : Level(lines, x) >= 0
  PROVE  0 < Closing(lines, b) /\ Closing(lines, b) <= Len(lines)
<1> DEFINE N == Len(lines)
<1>1. PICK c : c = Closing(lines, b)
  OBVIOUS
<1>2. b \in 1..N /\ N \in Nat /\ Level(lines, b) = Level(lines, b - 1) + 1 /\ Level(lines, b - 1) \in Int
  BY OpensHere
<1>3. b - 1 \in 0..N /\ N \in b..N
  BY <1>2
<1>4. Level(lines, b) >= 1 /\ Level(lines, b) \in Int
  BY <1>2, <1>3
<1>5. /\ c \in Nat
      /\ c > 0 => c \in (b + 1)..N
      /\ c = 0 => \A x \in b..N : Level(lines, x) >= Level(lines, b)
  BY <1>1, ClosingIs
<1>6. c # 0
  BY <1>3, <1>4, <1>5
<1> QED BY <1>1, <1>2, <1>5, <1>6

\* The calendar is closed by its last line.
LEMMA ClosedLast ==
  ASSUME NEW lines \in Seq(ContentLines), NEW p, Tree(lines, Len(lines), p), Len(lines) > 0,
         Level(lines, Len(lines)) = 0
  PROVE  Closing(lines, 1) = Len(lines)
<1> DEFINE N == Len(lines)
<1>1. PICK c : c = Closing(lines, 1)
  OBVIOUS
<1>2. 1 \in Begins(lines) /\ N \in Nat
  <2>1. lines[1].name = "BEGIN" /\ 1 \in 1..Len(lines)
    BY DEF Tree
  <2> QED BY <2>1, BeginIs
<1>3. 0 < c /\ c <= N
  BY <1>1, <1>2, AllClosed DEF Tree
<1>4. c \in 2..N /\ Level(lines, c) < Level(lines, 1)
  <2>1. c > 0 => c \in (1 + 1)..N /\ Level(lines, c) < Level(lines, 1)
    BY <1>1, <1>2, ClosingIs
  <2> QED BY <1>3, <2>1
<1>5. Level(lines, 1) = 1
  <2>1. Level(lines, 1) = Level(lines, 1 - 1) + 1 /\ 1 - 1 = 0
    BY <1>2, OpensHere
  <2> QED BY <2>1, DepthAtFirst
<1>6. ASSUME c # N PROVE FALSE
  <2>1. c \in 1..(N - 1) /\ c \in 0..N
    BY <1>2, <1>4, <1>6
  <2>2. Level(lines, c) > 0 /\ Level(lines, c) \in Int
    BY <2>1, DepthType DEF Tree
  <2> QED BY <1>4, <1>5, <2>2
<1> QED BY <1>1, <1>6

\* What the parser has read to its end was well formed.
LEMMA ReadWellFormed ==
  ASSUME NEW lines \in Seq(ContentLines), NEW p \in Parsers, Alive(lines, Len(lines), p),
         p.seenCalendar, p.closedCalendar
  PROVE  WellFormed(lines) /\ \A b \in EventsAt(lines) : ~Spoiled(lines, b)
<1> DEFINE N == Len(lines)
<1>1. Tree(lines, N, p) /\ Formed(lines, N, p) /\ Gathered(lines, N, p)
  BY DEF Alive
<1>2. N > 0 /\ N \in Nat /\ Level(lines, N) = 0 /\ lines # <<>>
  <2>1. N > 0 /\ Level(lines, N) = 0
    BY <1>1 DEF Tree
  <2> QED BY <2>1
<1>3. lines[1].name = "BEGIN" /\ lines[1].text = "VCALENDAR" /\ Closing(lines, 1) = N
  BY <1>1, <1>2, ClosedLast DEF Tree
<1>4. \A b \in Begins(lines) : 0 < Closing(lines, b) /\ Closing(lines, b) <= N /\ b <= N /\ b \in Nat
  <2> TAKE b \in Begins(lines)
  <2>1. b \in 1..N
    BY BeginIs
  <2>2. \A x \in 0..N : Level(lines, x) >= 0
    BY <1>1 DEF Tree
  <2> QED BY <1>2, <2>1, <2>2, AllClosed
<1>5. ASSUME NEW b \in Begins(lines)
      PROVE  /\ Closing(lines, b) > 0 /\ lines[Closing(lines, b)].text = lines[b].text
             /\ b > 1 => lines[b].text # "VCALENDAR"
             /\ lines[b].text = "VEVENT" => b \in EventsAt(lines)
  <2>1. 0 < Closing(lines, b) /\ Closing(lines, b) <= N /\ b <= N /\ b \in Nat
    BY <1>4
  <2>2. lines[Closing(lines, b)].text = lines[b].text
    BY <1>1, <2>1 DEF Formed
  <2>3. lines[b].text = "VEVENT" => b \in EventsAt(lines)
    BY <1>1, <2>1 DEF Formed, EventsAt
  <2>4. b > 1 => lines[b].text # "VCALENDAR"
    <3>1. b > 1 => 1 < b
      BY <2>1
    <3> QED BY <1>1, <2>1, <3>1 DEF Tree
  <2>5. Closing(lines, b) > 0
    <3>1. PICK c : c = Closing(lines, b)
      OBVIOUS
    <3>2. c \in Nat
      BY <3>1, ClosingIs
    <3> QED BY <2>1, <3>1, <3>2
  <2> QED BY <2>2, <2>3, <2>4, <2>5
<1>6. Cardinality(EventsAt(lines)) <= MaxEvents
  <2>1. EventsUpTo(lines, N) = EventsAt(lines)
    <3>1. \A b \in EventsAt(lines) : b <= N
      BY <1>4, EventIndices
    <3> QED BY <3>1 DEF EventsUpTo
  <2> QED BY <1>1, <2>1 DEF Formed
<1>7. \A k \in 1..N : lines[k].name = "METHOD" /\ Owner(lines, k) = 1 => \A b \in Begins(lines) : b = 1 \/ b > k
  BY <1>1 DEF Formed
<1>8. \A k \in 1..N : HasName(lines[k])
  BY <1>1 DEF Tree, Named
<1>9. WellFormed(lines)
  BY <1>2, <1>3, <1>5, <1>6, <1>7, <1>8, Zenon DEF WellFormed, HasName
<1>10. \A b \in EventsAt(lines) : ~Spoiled(lines, b)
  BY <1>1, <1>4, EventIndices DEF Gathered
<1> QED BY <1>9, <1>10

\* What it returns of a calendar that is well formed.
LEMMA ReadWhole ==
  ASSUME NEW lines \in Seq(ContentLines), WellFormed(lines), NEW p \in Parsers, p.failed = FALSE,
         Alive(lines, Len(lines), p)
  PROVE  LET read == {b \in EventsAt(lines) : Kept(lines, b)}
         IN  /\ Events(p) = p.events /\ Len(p.events) = Cardinality(read)
             /\ \A b \in read :
                  LET event == p.events[Rank(read, b)]
                  IN  event.method = MethodUpTo(lines, Len(lines)) /\ ReadAs(lines, b, event)
<1> DEFINE N == Len(lines)
           read == {b \in EventsAt(lines) : Kept(lines, b)}
<1>1. Tree(lines, N, p) /\ Formed(lines, N, p) /\ Gathered(lines, N, p)
  BY DEF Alive
<1>2. /\ lines # <<>> /\ Closing(lines, 1) = N /\ N \in Nat /\ N > 0 /\ 1 \in Begins(lines)
      /\ \A b \in Begins(lines) : Closing(lines, b) > 0
  <2>1. lines # <<>> /\ lines[1].name = "BEGIN" /\ Closing(lines, 1) = N
    BY WellFormedIs
  <2>2. N \in Nat /\ N > 0 /\ 1 \in 1..N
    BY <2>1
  <2>3. 1 \in Begins(lines)
    BY <2>1, <2>2, BeginIs
  <2> QED BY <2>1, <2>2, <2>3, WellFormedIs
<1>3. Level(lines, N) = 0
  <2>1. Level(lines, N) < Level(lines, 1)
    <3>1. N > 0 => Level(lines, N) < Level(lines, 1)
      BY <1>2, ClosingIs
    <3> QED BY <1>2, <3>1
  <2>2. Level(lines, 1) = 1
    <3>1. Level(lines, 1) = Level(lines, 1 - 1) + 1 /\ 1 - 1 = 0
      BY <1>2, OpensHere
    <3> QED BY <3>1, DepthAtFirst
  <2>3. Level(lines, N) >= 0 /\ Level(lines, N) \in Int
    BY <1>1, <1>2, DepthType DEF Tree
  <2> QED BY <2>1, <2>2, <2>3
<1>4. p.seenCalendar /\ p.closedCalendar /\ p.stack = <<>>
  <2>1. p.seenCalendar /\ p.closedCalendar /\ Len(p.stack) = 0
    BY <1>1, <1>2, <1>3 DEF Tree
  <2> QED BY <2>1, ParserFields
<1>5. Events(p) = p.events
  BY <1>4 DEF Events
<1>6. Done(lines, N) = read
  <2>1. \A b \in EventsAt(lines) : 0 < Closing(lines, b) /\ Closing(lines, b) <= N
    <3> TAKE b \in EventsAt(lines)
    <3>1. PICK c : c = Closing(lines, b)
      OBVIOUS
    <3>2. b \in Begins(lines) /\ c > 0
      BY <1>2, <3>1, EventIndices
    <3>3. c \in Nat /\ (c > 0 => c \in (b + 1)..N)
      BY <3>1, <3>2, ClosingIs
    <3>4. 0 < c /\ c <= N
      BY <3>2, <3>3
    <3> QED BY <3>1, <3>4
  <2> QED BY <2>1 DEF Done
<1>7. p.method = MethodUpTo(lines, N)
  BY <1>1 DEF Formed
<1>8. /\ Len(p.events) = Cardinality(read)
      /\ \A b \in read : LET event == p.events[Rank(read, b)]
                         IN  event.method = MethodUpTo(lines, N) /\ ReadAs(lines, b, event)
  <2> HIDE DEF read
  <2> QED BY <1>1, <1>6, <1>7 DEF Gathered
<1> QED BY <1>5, <1>8

\* The METHODs of the calendar are those up to its last line.
LEMMA MethodsAre == ASSUME NEW lines PROVE Methods(lines) = MethodUpTo(lines, Len(lines))
<1>1. {i \in 1..Len(lines) : lines[i].name = "METHOD" /\ Owner(lines, i) = 1 /\ lines[i].text # ""}
      = MethodsUpTo(lines, Len(lines))
  BY Zenon DEF MethodsUpTo, HasText
<1> QED BY <1>1, Zenon DEF Methods, MethodUpTo

\* ParseICS fails closed, whatever the lines.
LEMMA CalendarReadAlways ==
  ASSUME NEW lines \in Seq(ContentLines) PROVE CalendarRead(lines)
<1> DEFINE N == Len(lines)
           read == {b \in EventsAt(lines) : Kept(lines, b)}
           Sound == WellFormed(lines) /\ \A b \in EventsAt(lines) : ~Spoiled(lines, b)
<1>1. PICK p : p = Parsed(lines)[N]
  OBVIOUS
<1>2. ParseICS(lines) = Events(p)
  BY <1>1 DEF ParseICS
<1>3. p \in Parsers /\ (p.failed = FALSE => Alive(lines, N, p)) /\ (Sound => p.failed = FALSE)
  <2>1. N \in 0..N
    OBVIOUS
  <2> QED BY <1>1, <2>1, ParsedAlive
<1>4. ASSUME ~Sound PROVE Events(p) = <<>>
  <2>1. CASE p.failed = FALSE
    <3>1. ~p.seenCalendar \/ ~p.closedCalendar
      BY <1>3, <1>4, <2>1, ReadWellFormed
    <3> QED BY <3>1 DEF Events
  <2>2. CASE p.failed = TRUE
    BY <2>2 DEF Events
  <2> QED BY <1>3, <2>1, <2>2, ParserFields
<1>5. ASSUME Sound
      PROVE  /\ Len(Events(p)) = Cardinality(read)
             /\ \A b \in read : LET event == Events(p)[Rank(read, b)]
                                IN  event.method = Methods(lines) /\ ReadAs(lines, b, event)
  <2>1. /\ Events(p) = p.events /\ Len(p.events) = Cardinality(read)
        /\ \A b \in read : LET event == p.events[Rank(read, b)]
                           IN  event.method = MethodUpTo(lines, N) /\ ReadAs(lines, b, event)
    BY <1>3, <1>5, ReadWhole
  <2> HIDE DEF read
  <2> QED BY <2>1, MethodsAre
<1>6. Sound <=> ~(~WellFormed(lines) \/ \E b \in EventsAt(lines) : Spoiled(lines, b))
  OBVIOUS
<1> HIDE DEF Sound
<1> QED BY <1>2, <1>4, <1>5, <1>6, Zenon DEF CalendarRead, Rank

\* ParseICS keeps the events of a calendar that is well formed, in order, with the
\* method of the calendar and their own first properties, and none at all of any
\* other, however many lines there are and however deep they nest.
THEOREM FeedsCalendarsRead == FeedsSpec => []CalendarsRead
<1> DEFINE Inv == job = "calendar" => fed \in Seq(ContentLines)
<1>1. FeedsInit => Inv
  BY CalendarAssumption DEF FeedsInit, InitFeed
<1>2. Inv /\ [FeedsNext]_vars => Inv'
  <2> SUFFICES ASSUME Inv, [FeedsNext]_vars, job' = "calendar" PROVE fed' \in Seq(ContentLines)
    OBVIOUS
  <2>1. CASE UNCHANGED feedVars
    BY <2>1 DEF feedVars
  <2>2. ASSUME NEW piece \in CalendarLines, FeedCalendar(piece) PROVE fed' \in Seq(ContentLines)
    <3>1. piece \in Seq(ContentLines)
      BY CalendarAssumption
    <3>2. fed \in Seq(ContentLines) /\ fed' = fed \o piece
      BY <2>2 DEF FeedCalendar
    <3> QED BY <3>1, <3>2
  <2>3. CASE DataStep
    BY <2>1, <2>3 DEF DataStep
  <2> QED BY <2>1, <2>2, <2>3
       DEF FeedsNext, FeedHistory, FeedHtml, FeedHttp, FeedWire, vars
<1>3. Inv => CalendarsRead
  BY CalendarReadAlways DEF CalendarsRead
<1> QED BY <1>1, <1>2, <1>3, PTL DEF FeedsSpec
=============================================================================
