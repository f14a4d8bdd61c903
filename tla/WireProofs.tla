----------------------------- MODULE WireProofs -----------------------------
(***************************************************************************)
(* The bytes on the wires, for data of any length: the reader of DATA      *)
(* gives back what the client sent, whatever its limit and its buffers,    *)
(* and a POP3 client reads back the message the server holds.              *)
(***************************************************************************)
EXTENDS FeedsProofs

States == {"beginLine", "dot", "dotCR", "cr", "data", "eof"}
Run == [state : States, copied : Seq(Bytes)]

-----------------------------------------------------------------------------
(* Loops over bytes. *)

LEMMA LoopStepType ==
  ASSUME NEW r \in Run, NEW c \in Bytes PROVE Data!LoopStep(r, c) \in Run
<1>1. r.state \in States /\ r.copied \in Seq(Bytes)
  BY DEF Run
<1>2. Data!NextState(r.state, c) \in States
  BY <1>1 DEF Data!NextState, States
<1>3. Append(r.copied, c) \in Seq(Bytes)
  BY <1>1
<1> QED BY <1>1, <1>2, <1>3 DEF Data!LoopStep, Run

\* The turns of Read's loop are what its definition says.
LEMMA TurnsAre ==
  ASSUME NEW s \in States, NEW bytes \in Seq(Bytes)
  PROVE  LET t == Data!Turns(s, bytes)
         IN  /\ t \in [0..Len(bytes) -> Run] /\ t[0] = [state |-> s, copied |-> <<>>]
             /\ \A i \in 1..Len(bytes) : t[i] = Data!LoopStep(t[i - 1], bytes[i])
<1> DEFINE N == Len(bytes)
           a == [state |-> s, copied |-> <<>>]
           G == [t \in Run \X (1..N) |-> Data!LoopStep(t[1], bytes[t[2]])]
           Is(f) == f = [i \in 0..N |-> IF i = 0 THEN a ELSE Data!LoopStep(f[i - 1], bytes[i])]
           g == CHOOSE h : Is(h)
<1>1. N \in Nat /\ a \in Run
  BY DEF Run
<1>2. G \in [Run \X (1..N) -> Run]
  <2>1. ASSUME NEW t \in Run \X (1..N) PROVE Data!LoopStep(t[1], bytes[t[2]]) \in Run
    <3>1. t[1] \in Run /\ t[2] \in 1..N
      OBVIOUS
    <3>2. bytes[t[2]] \in Bytes
      BY <3>1
    <3> QED BY <3>1, <3>2, LoopStepType
  <2> HIDE DEF N
  <2> QED BY <2>1
<1>3. PICK f : Loops(f, N, Run, a, G)
  <2> HIDE DEF G, N, a
  <2> QED BY <1>1, <1>2, Iteration
<1>4. ASSUME NEW i \in 1..N PROVE f[i] = Data!LoopStep(f[i - 1], bytes[i])
  <2>1. i - 1 \in 0..N
    OBVIOUS
  <2>2. <<f[i - 1], i>> \in Run \X (1..N)
    BY <1>3, <2>1 DEF Loops
  <2> QED BY <1>3, <2>2 DEF Loops
<1>5. Is(f)
  <2> HIDE DEF a
  <2> QED BY <1>3, <1>4 DEF Loops
<1>6. Is(g)
  <2> HIDE DEF Is
  <2> QED BY <1>5, Zenon
<1>7. Data!Turns(s, bytes) = g
  BY DEF Data!Turns
<1> HIDE DEF g, a
<1>8. DOMAIN g = 0..N /\ g[0] = a /\ \A i \in 1..N : g[i] = Data!LoopStep(g[i - 1], bytes[i])
  BY <1>6
<1> DEFINE S == {n \in Nat : n <= N => g[n] \in Run}
<1>9. 0 \in S
  BY <1>1, <1>8
<1>10. ASSUME NEW n \in Nat, n \in S PROVE n + 1 \in S
  <2> SUFFICES ASSUME n + 1 <= N PROVE g[n + 1] \in Run
    OBVIOUS
  <2>1. n + 1 \in 1..N /\ (n + 1) - 1 = n /\ g[n] \in Run
    BY <1>10
  <2>2. bytes[n + 1] \in Bytes
    BY <2>1
  <2>3. g[n + 1] = Data!LoopStep(g[n], bytes[n + 1])
    BY <1>8, <2>1
  <2> QED BY <2>1, <2>2, <2>3, LoopStepType
<1>11. \A n \in Nat : n \in S
  <2> HIDE DEF S
  <2> QED BY <1>9, <1>10, SetInduction
<1>12. g \in [0..N -> Run]
  <2>1. \A i \in 0..N : g[i] \in Run
    BY <1>11
  <2> QED BY <1>6, <2>1
<1> QED BY <1>7, <1>8, <1>12 DEF a

\* The client's stuffing.
LEMMA StuffedByteType ==
  ASSUME NEW q \in Seq(Bytes), NEW i \in 1..Len(q) PROVE Data!StuffedByte(q, i) \in Seq(Bytes)
<1>1. q[i] \in Bytes /\ "." \in Bytes
  BY DEF Bytes
<1> QED BY <1>1 DEF Data!StuffedByte, Data!DOT

LEMMA StuffedAre ==
  ASSUME NEW q \in Seq(Bytes)
  PROVE  LET t == Data!StuffedUpTo(q)
         IN  /\ t \in [0..Len(q) -> Seq(Bytes)] /\ t[0] = <<>>
             /\ \A i \in 1..Len(q) : t[i] = t[i - 1] \o Data!StuffedByte(q, i)
<1> DEFINE N == Len(q)
           V == Seq(Bytes)
           a == <<>>
           G == [t \in V \X (1..N) |-> t[1] \o Data!StuffedByte(q, t[2])]
           Is(f) == f = [i \in 0..N |-> IF i = 0 THEN a ELSE f[i - 1] \o Data!StuffedByte(q, i)]
           g == CHOOSE h : Is(h)
<1>1. N \in Nat /\ a \in V
  OBVIOUS
<1>2. G \in [V \X (1..N) -> V]
  <2>1. ASSUME NEW t \in V \X (1..N) PROVE t[1] \o Data!StuffedByte(q, t[2]) \in V
    <3>1. t[1] \in V /\ t[2] \in 1..N
      OBVIOUS
    <3>2. Data!StuffedByte(q, t[2]) \in V
      BY <3>1, StuffedByteType
    <3> QED BY <3>1, <3>2
  <2> HIDE DEF N, V
  <2> QED BY <2>1
<1>3. PICK f : Loops(f, N, V, a, G)
  <2> HIDE DEF G, N, V, a
  <2> QED BY <1>1, <1>2, Iteration
<1>4. ASSUME NEW i \in 1..N PROVE f[i] = f[i - 1] \o Data!StuffedByte(q, i)
  <2>1. i - 1 \in 0..N
    OBVIOUS
  <2>2. <<f[i - 1], i>> \in V \X (1..N)
    BY <1>3, <2>1 DEF Loops
  <2> HIDE DEF V
  <2> QED BY <1>3, <2>2 DEF Loops
<1>5. Is(f)
  <2> HIDE DEF a
  <2> QED BY <1>3, <1>4 DEF Loops
<1>6. Is(g)
  <2> HIDE DEF Is
  <2> QED BY <1>5, Zenon
<1>7. Data!StuffedUpTo(q) = g
  BY DEF Data!StuffedUpTo
<1> HIDE DEF g, a
<1>8. DOMAIN g = 0..N /\ g[0] = a /\ \A i \in 1..N : g[i] = g[i - 1] \o Data!StuffedByte(q, i)
  <2> DEFINE Piece(i) == IF i = 0 THEN a ELSE g[i - 1] \o Data!StuffedByte(q, i)
  <2>1. g = [i \in 0..N |-> Piece(i)]
    BY <1>6
  <2> HIDE DEF Piece
  <2>2. DOMAIN g = 0..N /\ \A i \in 0..N : g[i] = Piece(i)
    BY <2>1
  <2>3. ASSUME NEW i \in 1..N PROVE i \in 0..N /\ Piece(i) = g[i - 1] \o Data!StuffedByte(q, i)
    BY DEF Piece
  <2>4. Piece(0) = a /\ 0 \in 0..N
    BY <1>1 DEF Piece
  <2> QED BY <2>2, <2>3, <2>4
<1> DEFINE S == {n \in Nat : n <= N => g[n] \in V}
<1>9. 0 \in S
  BY <1>1, <1>8
<1>10. ASSUME NEW n \in Nat, n \in S PROVE n + 1 \in S
  <2> SUFFICES ASSUME n + 1 <= N PROVE g[n + 1] \in V
    OBVIOUS
  <2>1. n + 1 \in 1..N /\ (n + 1) - 1 = n /\ g[n] \in V
    BY <1>10
  <2>2. Data!StuffedByte(q, n + 1) \in V
    BY <2>1, StuffedByteType
  <2>3. g[n + 1] = g[n] \o Data!StuffedByte(q, n + 1)
    BY <1>8, <2>1
  <2> QED BY <2>1, <2>2, <2>3
<1>11. \A n \in Nat : n \in S
  <2> HIDE DEF S
  <2> QED BY <1>9, <1>10, SetInduction
<1>12. g \in [0..N -> V]
  <2>1. \A i \in 0..N : g[i] \in V
    BY <1>11
  <2> QED BY <1>6, <2>1
<1> QED BY <1>7, <1>8, <1>12 DEF a

-----------------------------------------------------------------------------
(* Sequences. *)

LEMMA Joined ==
  ASSUME NEW V, NEW s \in Seq(V), NEW t \in Seq(V)
  PROVE  /\ s \o t \in Seq(V) /\ Len(s \o t) = Len(s) + Len(t)
         /\ \A x \in 1..Len(s) : (s \o t)[x] = s[x]
         /\ \A y \in 1..Len(t) : (s \o t)[Len(s) + y] = t[y]
OBVIOUS

LEMMA JoinedIs ==
  ASSUME NEW V, NEW s \in Seq(V), NEW t \in Seq(V), NEW u, u = s \o t
  PROVE  /\ u \in Seq(V) /\ Len(u) = Len(s) + Len(t)
         /\ \A x \in 1..Len(s) : u[x] = s[x]
         /\ \A y \in 1..Len(t) : u[Len(s) + y] = t[y]
OBVIOUS

\* Sequences that agree are equal.
LEMMA SameBytes ==
  ASSUME NEW u \in Seq(Bytes), NEW v \in Seq(Bytes), NEW d, Len(u) = d, Len(v) = d,
         \A x \in 1..d : u[x] = v[x]
  PROVE  u = v
OBVIOUS

LEMMA BytesJoined ==
  ASSUME NEW s \in Seq(Bytes), NEW t \in Seq(Bytes), NEW u, u = s \o t
  PROVE  /\ u \in Seq(Bytes) /\ Len(u) = Len(s) + Len(t)
         /\ \A x \in 1..Len(s) : u[x] = s[x]
         /\ \A y \in 1..Len(t) : u[Len(s) + y] = t[y]
OBVIOUS

LEMMA AppendJoined ==
  ASSUME NEW s \in Seq(Bytes), NEW t \in Seq(Bytes), NEW c \in Bytes
  PROVE  Append(s \o t, c) = s \o Append(t, c)
<1> DEFINE a == Append(s \o t, c)
           b == s \o Append(t, c)
<1>1. /\ a \in Seq(Bytes) /\ b \in Seq(Bytes)
      /\ Len(a) = Len(s) + Len(t) + 1 /\ Len(b) = Len(s) + Len(t) + 1
  OBVIOUS
<1>2. ASSUME NEW x \in 1..(Len(s) + Len(t) + 1) PROVE a[x] = b[x]
  <2>1. CASE x <= Len(s)
    BY <2>1
  <2>2. CASE x > Len(s) /\ x <= Len(s) + Len(t)
    BY <2>2
  <2>3. CASE x = Len(s) + Len(t) + 1
    BY <2>3
  <2> QED BY <2>1, <2>2, <2>3
<1> HIDE DEF a, b
<1>3. a = b
  BY <1>1, <1>2
<1> QED BY <1>3 DEF a, b

LEMMA OneLonger ==
  ASSUME NEW V, NEW q \in Seq(V), NEW i \in Nat, i + 1 <= Len(q)
  PROVE  SubSeq(q, 1, i + 1) = Append(SubSeq(q, 1, i), q[i + 1]) /\ Len(SubSeq(q, 1, i)) = i
OBVIOUS

\* A part of a sequence, by its bytes.
LEMMA PartOf ==
  ASSUME NEW V, NEW q \in Seq(V), NEW m \in 1..(Len(q) + 1), NEW n \in 0..Len(q), m <= n + 1
  PROVE  /\ SubSeq(q, m, n) \in Seq(V) /\ Len(SubSeq(q, m, n)) = n - m + 1
         /\ \A x \in 1..(n - m + 1) : SubSeq(q, m, n)[x] = q[m + x - 1]
OBVIOUS

-----------------------------------------------------------------------------
(* The reader on the whole wire. *)

Conforming(q) ==
    q \in Seq(Bytes) /\ \A i \in 1..Len(q) : q[i] = "CR" => i < Len(q) /\ q[i + 1] = "LF"

\* The state of the reader after the first i bytes of a payload.
StateAfter(q, i) ==
    IF Data!AtLineStart(q, i + 1) THEN "beginLine" ELSE IF q[i] = "CR" THEN "cr" ELSE "data"

\* What is transmitted of the first bytes is transmitted first.
LEMMA StuffedPrefix ==
  ASSUME NEW q \in Seq(Bytes), NEW i \in 0..Len(q)
  PROVE  LET t == Data!StuffedUpTo(q)
         IN  Len(t[i]) <= Len(t[Len(q)]) /\ \A x \in 1..Len(t[i]) : t[Len(q)][x] = t[i][x]
<1> DEFINE t == Data!StuffedUpTo(q)
           N == Len(q)
           P(n) == Len(t[i]) <= Len(t[i + n]) /\ \A x \in 1..Len(t[i]) : t[i + n][x] = t[i][x]
           S == {n \in Nat : i + n <= N => P(n)}
<1>1. t \in [0..N -> Seq(Bytes)] /\ \A k \in 1..N : t[k] = t[k - 1] \o Data!StuffedByte(q, k)
  BY StuffedAre
<1> HIDE DEF t
<1>2. 0 \in S
  <2>1. i + 0 = i /\ t[i] \in Seq(Bytes)
    BY <1>1
  <2> QED BY <2>1
<1>3. ASSUME NEW n \in Nat, n \in S PROVE n + 1 \in S
  <2> SUFFICES ASSUME i + (n + 1) <= N PROVE P(n + 1)
    OBVIOUS
  <2> DEFINE k == i + (n + 1)
             b == Data!StuffedByte(q, k)
  <2>1. k \in 1..N /\ k - 1 = i + n /\ i + n \in 0..N /\ i + n <= N
    OBVIOUS
  <2>2. b \in Seq(Bytes) /\ t[i + n] \in Seq(Bytes) /\ t[i] \in Seq(Bytes) /\ t[k] = t[i + n] \o b
    BY <1>1, <2>1, StuffedByteType
  <2>3. P(n)
    BY <1>3, <2>1
  <2> HIDE DEF b, k
  <2>4. /\ Len(t[i + n] \o b) = Len(t[i + n]) + Len(b)
        /\ \A x \in 1..Len(t[i + n]) : (t[i + n] \o b)[x] = t[i + n][x]
    BY <2>2, Joined
  <2>5. Len(t[i]) \in Nat /\ Len(t[i + n]) \in Nat /\ Len(b) \in Nat
    BY <2>2
  <2>6. Len(t[i]) <= Len(t[k]) /\ \A x \in 1..Len(t[i]) : t[k][x] = t[i][x]
    BY <2>2, <2>3, <2>4, <2>5
  <2> QED BY <2>6 DEF k
<1>4. \A n \in Nat : n \in S
  <2> HIDE DEF S
  <2> QED BY <1>2, <1>3, SetInduction
<1>5. N - i \in Nat /\ i + (N - i) = N
  OBVIOUS
<1>6. P(N - i)
  <2> DEFINE n == N - i
  <2>1. n \in Nat /\ i + n = N
    BY <1>5
  <2> HIDE DEF n
  <2>2. n \in S
    <3> HIDE DEF S
    <3> QED BY <1>4, <2>1
  <2>3. i + n <= N => P(n)
    BY <2>2
  <2> QED BY <2>1, <2>3 DEF n
<1> QED BY <1>5, <1>6 DEF t

\* The wire: the stuffed payload, the end marker and the next command.
LEMMA WireIs ==
  ASSUME NEW p, NEW q \in Seq(Bytes), q = Data!Sent(p)
  PROVE  LET T == Data!StuffedUpTo(q)[Len(q)]
             L == Len(T)
             W == Data!Wire(p)
         IN  /\ T \in Seq(Bytes) /\ L \in Nat /\ W \in Seq(Bytes) /\ Len(W) = L + 5
             /\ \A x \in 1..L : W[x] = T[x]
             /\ W[L + 1] = "." /\ W[L + 2] = "CR" /\ W[L + 3] = "LF"
             /\ W[L + 4] = "x" /\ W[L + 5] = "x"
<1> DEFINE T == Data!StuffedUpTo(q)[Len(q)]
           L == Len(T)
           e == <<".", "CR", "LF", "x", "x">>
<1>1. T \in Seq(Bytes)
  BY StuffedAre
<1>2. e \in Seq(Bytes) /\ Len(e) = 5
  BY DEF Bytes
<1>3. Data!Wire(p) = T \o e
  <2>1. Data!Wire(p) = ((T \o <<".">>) \o <<"CR", "LF">>) \o <<"x", "x">>
    BY DEF Data!Wire, Data!DOT, Data!CRLF, Data!CR, Data!LF, Data!NextCommand, Data!X
  <2>2. e = (<<".">> \o <<"CR", "LF">>) \o <<"x", "x">>
    OBVIOUS
  <2>3. <<".">> \in Seq(Bytes) /\ <<"CR", "LF">> \in Seq(Bytes) /\ <<"x", "x">> \in Seq(Bytes)
    BY DEF Bytes
  <2> HIDE DEF T, e
  <2> QED BY <1>1, <1>2, <2>1, <2>2, <2>3
<1> HIDE DEF T
<1>4. ASSUME NEW y \in 1..5 PROVE (T \o e)[L + y] = e[y]
  BY <1>1, <1>2, Joined
<1>5. T \o e \in Seq(Bytes) /\ Len(T \o e) = L + 5 /\ \A x \in 1..L : (T \o e)[x] = T[x]
  BY <1>1, <1>2, Joined
<1>6. e[1] = "." /\ e[2] = "CR" /\ e[3] = "LF" /\ e[4] = "x" /\ e[5] = "x"
  OBVIOUS
<1> DEFINE W == T \o e
<1> HIDE DEF e
<1>7. /\ W[L + 1] = "." /\ W[L + 2] = "CR" /\ W[L + 3] = "LF"
      /\ W[L + 4] = "x" /\ W[L + 5] = "x"
  <2>1. \A y \in 1..5 : W[L + y] = e[y]
    BY <1>4
  <2> HIDE DEF W, L
  <2>2. W[L + 1] = e[1] /\ W[L + 2] = e[2] /\ W[L + 3] = e[3]
    BY <2>1
  <2>3. W[L + 4] = e[4] /\ W[L + 5] = e[5]
    BY <2>1
  <2> QED BY <1>6, <2>2, <2>3
<1>8. L \in Nat /\ W \in Seq(Bytes) /\ Len(W) = L + 5 /\ \A x \in 1..L : W[x] = T[x]
  BY <1>1, <1>5
<1> HIDE DEF W
<1>9. Data!Wire(p) = W
  BY <1>3 DEF W
<1> QED BY <1>1, <1>7, <1>8, <1>9 DEF T

\* One byte more, without its stuffing.
LEMMA ByteRead ==
  ASSUME NEW q, Conforming(q), NEW i \in Nat, i + 1 <= Len(q),
         NEW r \in Run, r.state = StateAfter(q, i), NEW c, c = q[i + 1],
         ~(c = "." /\ Data!AtLineStart(q, i + 1)), NEW s, s = Data!LoopStep(r, c)
  PROVE  s.state = StateAfter(q, i + 1) /\ s.copied = Append(r.copied, c)
<1>1. c \in Bytes /\ i + 1 \in 1..Len(q) /\ (i + 1) + 1 = i + 2 /\ Len(q) \in Nat
  BY DEF Conforming
<1>2. /\ Data!AtLineStart(q, i + 1) <=> i = 0 \/ (i > 1 /\ q[i] = "LF" /\ q[i - 1] = "CR")
      /\ Data!AtLineStart(q, (i + 1) + 1) <=> i > 0 /\ c = "LF" /\ q[i] = "CR"
  BY <1>1 DEF Data!AtLineStart, Data!LF, Data!CR
<1>3. i > 0 /\ q[i] = "CR" => c = "LF"
  BY <1>1 DEF Conforming
<1>4. r.state = IF Data!AtLineStart(q, i + 1) THEN "beginLine" ELSE IF q[i] = "CR" THEN "cr" ELSE "data"
  BY DEF StateAfter
<1>5. StateAfter(q, i + 1) = IF i > 0 /\ c = "LF" /\ q[i] = "CR" THEN "beginLine"
                             ELSE IF c = "CR" THEN "cr" ELSE "data"
  BY <1>2 DEF StateAfter
<1>6. Data!NextState(r.state, c) = StateAfter(q, i + 1)
  <2>1. CASE Data!AtLineStart(q, i + 1)
    <3>1. r.state = "beginLine" /\ c # "." /\ ~(i > 0 /\ c = "LF" /\ q[i] = "CR")
      BY <1>2, <1>4, <2>1
    <3> QED BY <1>5, <3>1 DEF Data!NextState, Data!DOT, Data!CR
  <2>2. CASE ~Data!AtLineStart(q, i + 1) /\ q[i] = "CR"
    <3>1. r.state = "cr" /\ c = "LF" /\ i > 0
      BY <1>2, <1>3, <1>4, <2>2
    <3> QED BY <1>5, <2>2, <3>1 DEF Data!NextState, Data!LF
  <2>3. CASE ~Data!AtLineStart(q, i + 1) /\ q[i] # "CR"
    <3>1. r.state = "data"
      BY <1>4, <2>3
    <3> QED BY <1>5, <2>3, <3>1 DEF Data!NextState, Data!CR
  <2> QED BY <2>1, <2>2, <2>3
<1>7. ~Data!Elided(r.state, c)
  BY <1>4 DEF Data!Elided, Data!DOT, Data!CR, Data!LF
<1> QED BY <1>6, <1>7 DEF Data!LoopStep

\* A stuffed dot: the first is dropped, the second is data.
LEMMA DotRead ==
  ASSUME NEW r \in Run, r.state = "beginLine",
         NEW s, s = Data!LoopStep(r, "."), NEW t, t = Data!LoopStep(s, ".")
  PROVE  s.state = "dot" /\ s.copied = r.copied /\ t.state = "data" /\ t.copied = Append(r.copied, ".")
<1>1. s.state = "dot" /\ s.copied = r.copied
  BY DEF Data!LoopStep, Data!NextState, Data!Elided, Data!DOT
<1>2. t.state = "data" /\ t.copied = Append(r.copied, ".")
  BY <1>1 DEF Data!LoopStep, Data!NextState, Data!Elided, Data!DOT, Data!CR, Data!LF
<1> QED BY <1>1, <1>2

\* The end marker.
LEMMA EndRead ==
  ASSUME NEW r \in Run, r.state = "beginLine", NEW s, s = Data!LoopStep(r, "."),
         NEW t, t = Data!LoopStep(s, "CR"), NEW u, u = Data!LoopStep(t, "LF")
  PROVE  /\ s.state = "dot" /\ s.copied = r.copied
         /\ t.state = "dotCR" /\ t.copied = r.copied
         /\ u.state = "eof" /\ u.copied = r.copied
<1>1. s.state = "dot" /\ s.copied = r.copied
  BY DEF Data!LoopStep, Data!NextState, Data!Elided, Data!DOT
<1>2. t.state = "dotCR" /\ t.copied = r.copied
  BY <1>1 DEF Data!LoopStep, Data!NextState, Data!Elided, Data!CR
<1>3. u.state = "eof" /\ u.copied = r.copied
  BY <1>2 DEF Data!LoopStep, Data!NextState, Data!Elided, Data!LF
<1> QED BY <1>1, <1>2, <1>3

\* The reader has copied what it was sent, and has not met the end, after each byte
\* of the payload.
ReadUpTo(R, q, i, n) ==
    /\ R[n].state = StateAfter(q, i) /\ R[n].copied = SubSeq(q, 1, i)
    /\ \A j \in 0..n : R[j].state # "eof" /\ Len(R[j].copied) <= i

LEMMA PayloadRead ==
  ASSUME NEW p, NEW q, q = Data!Sent(p), Conforming(q)
  PROVE  LET t == Data!StuffedUpTo(q)
         IN  ReadUpTo(Data!Turns("beginLine", Data!Wire(p)), q, Len(q), Len(t[Len(q)]))
<1> DEFINE t == Data!StuffedUpTo(q)
           N == Len(q)
           W == Data!Wire(p)
           R == Data!Turns("beginLine", W)
           S == {i \in Nat : i <= N => ReadUpTo(R, q, i, Len(t[i]))}
<1>0. q \in Seq(Bytes) /\ N \in Nat
  BY DEF Conforming
<1>1. /\ t \in [0..N -> Seq(Bytes)] /\ t[0] = <<>>
      /\ \A k \in 1..N : t[k] = t[k - 1] \o Data!StuffedByte(q, k)
  BY <1>0, StuffedAre
<1>2. W \in Seq(Bytes) /\ Len(W) = Len(t[N]) + 5 /\ \A x \in 1..Len(t[N]) : W[x] = t[N][x]
  BY <1>0, WireIs
<1>3. /\ R \in [0..Len(W) -> Run] /\ R[0] = [state |-> "beginLine", copied |-> <<>>]
      /\ \A i \in 1..Len(W) : R[i] = Data!LoopStep(R[i - 1], W[i])
  BY <1>2, TurnsAre DEF States
<1>4. ASSUME NEW i \in 0..N PROVE Len(t[i]) <= Len(t[N]) /\ \A x \in 1..Len(t[i]) : W[x] = t[i][x]
  <2>1. Len(t[i]) <= Len(t[N]) /\ \A x \in 1..Len(t[i]) : t[N][x] = t[i][x]
    BY <1>0, StuffedPrefix
  <2>2. Len(t[i]) \in Nat /\ Len(t[N]) \in Nat
    BY <1>0, <1>1
  <2> QED BY <1>2, <2>1, <2>2
<1> HIDE DEF t, W, R
<1>5. 0 \in S
  <2>1. Data!AtLineStart(q, 0 + 1)
    BY DEF Data!AtLineStart
  <2>2. Len(t[0]) = 0 /\ SubSeq(q, 1, 0) = <<>>
    BY <1>0, <1>1
  <2>3. ReadUpTo(R, q, 0, 0)
    BY <1>3, <2>1, <2>2 DEF ReadUpTo, StateAfter
  <2> QED BY <2>2, <2>3
<1>6. ASSUME NEW i \in Nat, i \in S PROVE i + 1 \in S
  <2> SUFFICES ASSUME i + 1 <= N PROVE ReadUpTo(R, q, i + 1, Len(t[i + 1]))
    OBVIOUS
  <2> DEFINE n == Len(t[i])
             c == q[i + 1]
             b == Data!StuffedByte(q, i + 1)
  <2>1. i \in 0..N /\ i + 1 \in 0..N /\ i + 1 \in 1..N /\ (i + 1) - 1 = i /\ i <= N
    BY <1>0
  <2>2. ReadUpTo(R, q, i, n)
    BY <1>6, <2>1
  <2>3. t[i + 1] = t[i] \o b /\ t[i] \in Seq(Bytes) /\ b \in Seq(Bytes) /\ n \in Nat /\ c \in Bytes
    <3>1. t[i + 1] = t[i] \o b
      BY <1>1, <2>1
    <3>2. t[i] \in Seq(Bytes) /\ n \in Nat
      BY <1>1, <2>1
    <3>3. b \in Seq(Bytes)
      BY <1>0, <2>1, StuffedByteType
    <3>4. c \in Bytes
      BY <1>0, <2>1
    <3> QED BY <3>1, <3>2, <3>3, <3>4
  <2> HIDE DEF b, c
  <2>4. Len(t[i + 1]) = n + Len(b) /\ \A y \in 1..Len(b) : W[n + y] = b[y]
    <3>1. Len(t[i + 1]) = n + Len(b) /\ \A y \in 1..Len(b) : t[i + 1][n + y] = b[y]
      <4> DEFINE lo == t[i]
                 hi == t[i + 1]
      <4>1. lo \in Seq(Bytes) /\ hi = lo \o b /\ n = Len(lo)
        BY <2>3
      <4> HIDE DEF lo, hi, n
      <4>2. Len(hi) = Len(lo) + Len(b) /\ \A y \in 1..Len(b) : hi[Len(lo) + y] = b[y]
        BY <2>3, <4>1, BytesJoined
      <4>3. Len(hi) = n + Len(b) /\ \A y \in 1..Len(b) : hi[n + y] = b[y]
        BY <4>1, <4>2
      <4> QED BY <4>3 DEF hi
    <3> HIDE DEF n
    <3>2. ASSUME NEW y \in 1..Len(b) PROVE W[n + y] = t[i + 1][n + y]
      <4>1. Len(b) \in Nat /\ n + y \in 1..Len(t[i + 1])
        BY <2>3, <3>1
      <4>2. \A x \in 1..Len(t[i + 1]) : W[x] = t[i + 1][x]
        BY <1>4, <2>1
      <4> QED BY <4>1, <4>2
    <3> QED BY <3>1, <3>2
  <2>5. n + Len(b) <= Len(W)
    <3>1. Len(t[i + 1]) <= Len(t[N])
      BY <1>4, <2>1
    <3>2. Len(t[N]) \in Nat /\ Len(b) \in Nat
      BY <1>0, <1>1, <2>3
    <3> HIDE DEF n, N
    <3> QED BY <1>2, <2>3, <2>4, <3>1, <3>2
  <2>6. SubSeq(q, 1, i + 1) = Append(SubSeq(q, 1, i), c) /\ Len(SubSeq(q, 1, i)) = i
    BY <1>0, <2>1, OneLonger DEF c
  <2>7. Len(W) \in Nat /\ n \in 0..Len(W)
    BY <1>2, <2>3, <2>5
  <2>8. R[n] \in Run /\ R[n].state = StateAfter(q, i) /\ R[n].copied = SubSeq(q, 1, i)
    BY <1>3, <2>2, <2>7 DEF ReadUpTo
  <2> HIDE DEF n
  <2>9. CASE c = "." /\ Data!AtLineStart(q, i + 1)
    <3>1. b = <<".", ".">> /\ Len(b) = 2
      BY <2>9 DEF Data!StuffedByte, Data!DOT, b, c
    <3>2. W[n + 1] = "." /\ W[n + 2] = "."
      <4>1. W[n + 1] = b[1] /\ W[n + 2] = b[2]
        <5> QED BY <2>4, <3>1
      <4> QED BY <3>1, <4>1
    <3>3. n + 1 \in 1..Len(W) /\ n + 2 \in 1..Len(W) /\ (n + 1) - 1 = n /\ (n + 2) - 1 = n + 1
      BY <2>3, <2>5, <2>7, <3>1
    <3>4. R[n + 1] = Data!LoopStep(R[n], ".") /\ R[n + 2] = Data!LoopStep(R[n + 1], ".")
      BY <1>3, <3>2, <3>3
    <3>5. R[n].state = "beginLine"
      BY <2>8, <2>9 DEF StateAfter
    <3>6. /\ R[n + 1].state = "dot" /\ R[n + 1].copied = R[n].copied
          /\ R[n + 2].state = "data" /\ R[n + 2].copied = Append(R[n].copied, ".")
      <4> DEFINE r == R[n]
                 s == R[n + 1]
                 u == R[n + 2]
      <4>1. r \in Run /\ r.state = "beginLine" /\ s = Data!LoopStep(r, ".") /\ u = Data!LoopStep(s, ".")
        BY <2>8, <3>4, <3>5
      <4> HIDE DEF r, s, u
      <4>2. s.state = "dot" /\ s.copied = r.copied /\ u.state = "data" /\ u.copied = Append(r.copied, ".")
        BY <4>1, DotRead
      <4> QED BY <4>2 DEF r, s, u
    <3>7. StateAfter(q, i + 1) = "data"
      BY <2>9 DEF StateAfter, Data!AtLineStart, Data!LF, Data!CR, c
    <3>8. R[n + 2].copied = SubSeq(q, 1, i + 1) /\ Len(R[n + 2].copied) = i + 1 /\ Len(R[n + 1].copied) = i
      <4>1. R[n + 2].copied = SubSeq(q, 1, i + 1) /\ R[n + 1].copied = SubSeq(q, 1, i)
        BY <2>6, <2>8, <2>9, <3>6
      <4>2. Len(SubSeq(q, 1, i + 1)) = i + 1
        BY <1>0, <2>1, PartOf
      <4> QED BY <2>6, <4>1, <4>2
    <3>9. ASSUME NEW j \in 0..(n + 2) PROVE R[j].state # "eof" /\ Len(R[j].copied) <= i + 1
      <4>1. CASE j \in 0..n
        <5>1. R[j] \in Run /\ R[j].state # "eof" /\ Len(R[j].copied) <= i
          <6>1. j \in 0..Len(W)
            BY <2>7, <4>1
          <6>2. R[j] \in Run
            BY <1>3, <6>1
          <6> QED BY <2>2, <4>1, <6>2 DEF ReadUpTo
        <5>2. Len(R[j].copied) \in Nat
          BY <5>1 DEF Run
        <5> QED BY <5>1, <5>2
      <4>2. CASE j = n + 1
        BY <3>6, <3>8, <4>2
      <4>3. CASE j = n + 2
        BY <3>6, <3>8, <4>3
      <4> QED BY <2>3, <4>1, <4>2, <4>3
    <3>10. ReadUpTo(R, q, i + 1, n + 2)
      BY <3>6, <3>7, <3>8, <3>9 DEF ReadUpTo
    <3> QED BY <2>4, <3>1, <3>10
  <2>10. CASE ~(c = "." /\ Data!AtLineStart(q, i + 1))
    <3>1. b = <<c>> /\ Len(b) = 1
      BY <2>10 DEF Data!StuffedByte, Data!DOT, b, c
    <3>2. W[n + 1] = c
      <4>1. W[n + 1] = b[1]
        <5> QED BY <2>4, <3>1
      <4> QED BY <3>1, <4>1
    <3>3. n + 1 \in 1..Len(W) /\ (n + 1) - 1 = n
      BY <2>3, <2>5, <2>7, <3>1
    <3>4. R[n + 1] = Data!LoopStep(R[n], c)
      BY <1>3, <3>2, <3>3
    <3>5. R[n + 1].state = StateAfter(q, i + 1) /\ R[n + 1].copied = Append(R[n].copied, c)
      <4> DEFINE r == R[n]
                 s == R[n + 1]
      <4>1. r \in Run /\ r.state = StateAfter(q, i) /\ s = Data!LoopStep(r, c) /\ c = q[i + 1]
        BY <2>8, <3>4 DEF c
      <4>2. i + 1 <= Len(q) /\ ~(c = "." /\ Data!AtLineStart(q, i + 1))
        BY <2>1, <2>10
      <4> HIDE DEF r, s
      <4>3. s.state = StateAfter(q, i + 1) /\ s.copied = Append(r.copied, c)
        BY <4>1, <4>2, ByteRead
      <4> QED BY <4>3 DEF r, s
    <3>6. R[n + 1].copied = SubSeq(q, 1, i + 1) /\ Len(R[n + 1].copied) = i + 1
      <4>1. R[n + 1].copied = SubSeq(q, 1, i + 1)
        BY <2>6, <2>8, <3>5
      <4>2. Len(SubSeq(q, 1, i + 1)) = i + 1
        BY <1>0, <2>1, PartOf
      <4> QED BY <4>1, <4>2
    <3>7. StateAfter(q, i + 1) # "eof"
      BY DEF StateAfter
    <3>8. ASSUME NEW j \in 0..(n + 1) PROVE R[j].state # "eof" /\ Len(R[j].copied) <= i + 1
      <4>1. CASE j \in 0..n
        <5>1. R[j] \in Run /\ R[j].state # "eof" /\ Len(R[j].copied) <= i
          <6>1. j \in 0..Len(W)
            BY <2>7, <4>1
          <6>2. R[j] \in Run
            BY <1>3, <6>1
          <6> QED BY <2>2, <4>1, <6>2 DEF ReadUpTo
        <5>2. Len(R[j].copied) \in Nat
          BY <5>1 DEF Run
        <5> QED BY <5>1, <5>2
      <4>2. CASE j = n + 1
        BY <3>5, <3>6, <3>7, <4>2
      <4> QED BY <2>3, <4>1, <4>2
    <3>9. ReadUpTo(R, q, i + 1, n + 1)
      BY <3>5, <3>6, <3>8 DEF ReadUpTo
    <3> QED BY <2>4, <3>1, <3>9
  <2> QED BY <2>9, <2>10
<1>7. N \in S
  <2> HIDE DEF S
  <2> QED BY <1>0, <1>5, <1>6, SetInduction
<1>8. ReadUpTo(R, q, N, Len(t[N]))
  BY <1>0, <1>7
<1> QED BY <1>8 DEF t, W, R

\* What a conforming payload is sent as conforms and ends a line.
LEMMA SentConforms ==
  ASSUME NEW p, Conforming(p)
  PROVE  LET q == Data!Sent(p) IN Conforming(q) /\ StateAfter(q, Len(q)) = "beginLine"
<1> DEFINE q == Data!Sent(p)
<1>0. p \in Seq(Bytes) /\ Len(p) \in Nat
  BY DEF Conforming
<1>1. CASE Data!EndsLine(p)
  <2>1. q = p
    BY <1>1 DEF Data!Sent
  <2>2. Data!AtLineStart(p, Len(p) + 1)
    <3>1. CASE p = <<>>
      BY <3>1 DEF Data!AtLineStart
    <3>2. CASE p # <<>>
      <4> DEFINE a == Append(p, "x")
                 n == Len(p) + 1
      <4>1. n = 1 \/ (n > 2 /\ a[n - 1] = "LF" /\ a[n - 2] = "CR")
        BY <1>1, <3>2 DEF Data!EndsLine, Data!AtLineStart, Data!LF, Data!CR, Data!X
      <4>2. \A x \in 1..Len(p) : a[x] = p[x]
        BY <1>0
      <4>3. n > 2 => n - 1 \in 1..Len(p) /\ n - 2 \in 1..Len(p)
        BY <1>0
      <4> HIDE DEF a
      <4> QED BY <4>1, <4>2, <4>3 DEF Data!AtLineStart, Data!LF, Data!CR
    <3> QED BY <3>1, <3>2
  <2> QED BY <2>1, <2>2 DEF StateAfter
<1>2. CASE ~Data!EndsLine(p)
  <2> DEFINE e == <<"CR", "LF">>
             N == Len(p) + 2
  <2>1. q = p \o e
    BY <1>2 DEF Data!Sent, Data!CRLF, Data!CR, Data!LF
  <2>2. e \in Seq(Bytes) /\ Len(e) = 2 /\ e[1] = "CR" /\ e[2] = "LF"
    BY DEF Bytes
  <2> HIDE DEF e, q
  <2>0. e \in Seq(Bytes)
    BY <2>2
  <2>4. /\ q \in Seq(Bytes) /\ Len(q) = Len(p) + Len(e)
        /\ \A x \in 1..Len(p) : q[x] = p[x]
        /\ \A y \in 1..Len(e) : q[Len(p) + y] = e[y]
    BY <1>0, <2>0, <2>1, JoinedIs
  <2>3. /\ q \in Seq(Bytes) /\ Len(q) = N
        /\ \A x \in 1..Len(p) : q[x] = p[x]
    BY <1>0, <2>2, <2>4
  <2>5. q[Len(p) + 1] = "CR" /\ q[Len(p) + 2] = "LF"
    <3>1. 1 \in 1..Len(e) /\ 2 \in 1..Len(e)
      BY <2>2
    <3>2. q[Len(p) + 1] = e[1]
      BY <2>4, <3>1
    <3>3. q[Len(p) + 2] = e[2]
      BY <2>4, <3>1
    <3> QED BY <2>2, <3>2, <3>3
  <2>6. ASSUME NEW i \in 1..Len(q), q[i] = "CR" PROVE i < Len(q) /\ q[i + 1] = "LF"
    <3>1. CASE i \in 1..Len(p)
      <4>1. p[i] = "CR"
        BY <2>3, <2>6, <3>1
      <4>2. i < Len(p) /\ p[i + 1] = "LF" /\ i + 1 \in 1..Len(p)
        BY <1>0, <3>1, <4>1 DEF Conforming
      <4> QED BY <1>0, <2>3, <4>2
    <3>2. CASE i = Len(p) + 1
      <4>1. i + 1 = Len(p) + 2 /\ i < N
        BY <1>0, <3>2
      <4> QED BY <2>3, <2>5, <4>1
    <3>3. CASE i = Len(p) + 2
      BY <2>5, <2>6, <3>3
    <3> QED BY <1>0, <2>3, <3>1, <3>2, <3>3
  <2>7. Data!AtLineStart(q, N + 1)
    <3>1. (N + 1) - 1 = Len(p) + 2 /\ (N + 1) - 2 = Len(p) + 1 /\ N + 1 > 2
      BY <1>0
    <3> QED BY <2>5, <3>1 DEF Data!AtLineStart, Data!LF, Data!CR
  <2>8. Conforming(q)
    BY <2>3, <2>6 DEF Conforming
  <2>9. StateAfter(q, Len(q)) = "beginLine"
    BY <2>3, <2>7 DEF StateAfter
  <2> QED BY <2>8, <2>9 DEF q
<1> QED BY <1>1, <1>2

\* The run over a whole wire W whose payload q ends before the L-th byte.
WholeRun(q, W, R, L) ==
    /\ q \in Seq(Bytes) /\ W \in Seq(Bytes) /\ L \in Nat /\ Len(W) = L + 5
    /\ W[L + 4] = "x" /\ W[L + 5] = "x"
    /\ R \in [0..(L + 5) -> Run] /\ R[0] = [state |-> "beginLine", copied |-> <<>>]
    /\ \A i \in 1..(L + 5) : R[i] = Data!LoopStep(R[i - 1], W[i])
    /\ \A j \in 0..(L + 3) : (R[j].state = "eof" <=> j = L + 3) /\ Len(R[j].copied) <= Len(q)
    /\ R[L + 3].copied = q

LEMMA WireRead ==
  ASSUME NEW p, Conforming(p)
  PROVE  \E L, R : WholeRun(Data!Sent(p), Data!Wire(p), R, L)
<1> DEFINE q == Data!Sent(p)
           W == Data!Wire(p)
           R == Data!Turns("beginLine", W)
           N == Len(q)
           L == Len(Data!StuffedUpTo(q)[N])
<1>1. Conforming(q) /\ StateAfter(q, N) = "beginLine"
  BY SentConforms
<1>2. q \in Seq(Bytes) /\ N \in Nat
  BY <1>1 DEF Conforming
<1>3. /\ L \in Nat /\ W \in Seq(Bytes) /\ Len(W) = L + 5
      /\ W[L + 1] = "." /\ W[L + 2] = "CR" /\ W[L + 3] = "LF"
      /\ W[L + 4] = "x" /\ W[L + 5] = "x"
  BY <1>2, WireIs
<1>4. /\ R \in [0..Len(W) -> Run] /\ R[0] = [state |-> "beginLine", copied |-> <<>>]
      /\ \A i \in 1..Len(W) : R[i] = Data!LoopStep(R[i - 1], W[i])
  BY <1>3, TurnsAre DEF States
<1>5. ReadUpTo(R, q, N, L)
  BY <1>1, PayloadRead
<1> HIDE DEF q, W, R, L
<1>6. /\ R[L] \in Run /\ R[L].state = "beginLine" /\ R[L].copied = q
      /\ \A j \in 0..L : R[j].state # "eof" /\ Len(R[j].copied) <= N
  <2>1. SubSeq(q, 1, N) = q
    BY <1>2
  <2>2. L \in 0..Len(W)
    BY <1>3
  <2> QED BY <1>1, <1>4, <1>5, <2>1, <2>2 DEF ReadUpTo
<1>7. R[L + 1] = Data!LoopStep(R[L], ".") /\ R[L + 2] = Data!LoopStep(R[L + 1], "CR") /\ R[L + 3] = Data!LoopStep(R[L + 2], "LF")
  <2>1. /\ L + 1 \in 1..Len(W) /\ L + 2 \in 1..Len(W) /\ L + 3 \in 1..Len(W)
        /\ (L + 1) - 1 = L /\ (L + 2) - 1 = L + 1 /\ (L + 3) - 1 = L + 2
    BY <1>3
  <2>2. R[L + 1] = Data!LoopStep(R[L], ".")
    BY <1>3, <1>4, <2>1
  <2>3. R[L + 2] = Data!LoopStep(R[L + 1], "CR")
    BY <1>3, <1>4, <2>1
  <2>4. R[L + 3] = Data!LoopStep(R[L + 2], "LF")
    BY <1>3, <1>4, <2>1
  <2> QED BY <2>2, <2>3, <2>4
<1>8. /\ R[L + 1].state = "dot" /\ R[L + 1].copied = q
      /\ R[L + 2].state = "dotCR" /\ R[L + 2].copied = q
      /\ R[L + 3].state = "eof" /\ R[L + 3].copied = q
  <2> DEFINE r == R[L]
             s == R[L + 1]
             t == R[L + 2]
             u == R[L + 3]
  <2>1. /\ r \in Run /\ r.state = "beginLine" /\ r.copied = q
        /\ s = Data!LoopStep(r, ".") /\ t = Data!LoopStep(s, "CR") /\ u = Data!LoopStep(t, "LF")
    BY <1>6, <1>7
  <2> HIDE DEF r, s, t, u
  <2>2. /\ s.state = "dot" /\ s.copied = r.copied
        /\ t.state = "dotCR" /\ t.copied = r.copied
        /\ u.state = "eof" /\ u.copied = r.copied
    BY <2>1, EndRead
  <2> QED BY <2>1, <2>2 DEF s, t, u
<1>9. ASSUME NEW j \in 0..(L + 3) PROVE (R[j].state = "eof" <=> j = L + 3) /\ Len(R[j].copied) <= N
  <2>1. CASE j \in 0..L
    BY <1>3, <1>6, <2>1
  <2>2. CASE j = L + 1
    BY <1>2, <1>3, <1>8, <2>2
  <2>3. CASE j = L + 2
    BY <1>2, <1>3, <1>8, <2>3
  <2>4. CASE j = L + 3
    BY <1>2, <1>3, <1>8, <2>4
  <2> QED BY <1>3, <2>1, <2>2, <2>3, <2>4
<1>10. WholeRun(q, W, R, L)
  BY <1>2, <1>3, <1>4, <1>8, <1>9 DEF WholeRun
<1> QED BY <1>10 DEF q, W

\* The loop F that began after j bytes is where the run is after m bytes more.
Follows(R, j, F, m) ==
    /\ F[m].state = R[j + m].state /\ F[m].copied \in Seq(Bytes)
    /\ R[j + m].copied = R[j].copied \o F[m].copied

\* A Read in the middle of the wire goes on as the whole run does.
LEMMA LoopFollows ==
  ASSUME NEW q, NEW W, NEW R, NEW L \in Nat, WholeRun(q, W, R, L),
         NEW j \in Nat, NEW k \in Nat, j <= k, k <= L + 5, NEW in, in = SubSeq(W, j + 1, k),
         NEW st, st = R[j].state, NEW F, F = Data!Turns(st, in), NEW m \in 0..(k - j)
  PROVE  Follows(R, j, F, m)
<1> DEFINE P(x) == /\ F[x].state = R[j + x].state /\ R[j + x].copied = R[j].copied \o F[x].copied
           S == {x \in Nat : x <= k - j => P(x)}
<1>1. /\ W \in Seq(Bytes) /\ L \in Nat /\ Len(W) = L + 5
      /\ R \in [0..(L + 5) -> Run]
      /\ \A i \in 1..(L + 5) : R[i] = Data!LoopStep(R[i - 1], W[i])
  BY DEF WholeRun
<1>2. R[j] \in Run /\ st \in States /\ R[j].copied \in Seq(Bytes)
  BY <1>1 DEF Run
<1>3. /\ in \in Seq(Bytes) /\ Len(in) = k - j
      /\ \A x \in 1..(k - j) : in[x] = W[j + x]
  <2>1. j + 1 \in 1..(Len(W) + 1) /\ k \in 0..Len(W) /\ j + 1 <= k + 1 /\ k - (j + 1) + 1 = k - j
    BY <1>1
  <2> DEFINE a == j + 1
  <2>2. a \in 1..(Len(W) + 1) /\ a <= k + 1 /\ k - a + 1 = k - j /\ in = SubSeq(W, a, k)
    BY <2>1
  <2>3. ASSUME NEW x \in 1..(k - j) PROVE a + x - 1 = j + x
    OBVIOUS
  <2> HIDE DEF a
  <2>4. /\ SubSeq(W, a, k) \in Seq(Bytes) /\ Len(SubSeq(W, a, k)) = k - a + 1
        /\ \A x \in 1..(k - a + 1) : SubSeq(W, a, k)[x] = W[a + x - 1]
    BY <1>1, <2>1, <2>2, PartOf
  <2>5. ASSUME NEW x \in 1..(k - j) PROVE in[x] = W[j + x]
    BY <2>2, <2>3, <2>4
  <2> QED BY <2>2, <2>4, <2>5
<1>4. /\ F \in [0..(k - j) -> Run] /\ F[0] = [state |-> st, copied |-> <<>>]
      /\ \A i \in 1..(k - j) : F[i] = Data!LoopStep(F[i - 1], in[i])
  BY <1>2, <1>3, TurnsAre
<1>5. 0 \in S
  <2>1. j + 0 = j /\ R[j].copied \o <<>> = R[j].copied
    BY <1>2
  <2>2. P(0)
    <3>1. F[0].state = st /\ F[0].copied = <<>>
      BY <1>4
    <3> QED BY <2>1, <3>1
  <2> HIDE DEF P
  <2> QED BY <2>2
<1>6. ASSUME NEW x \in Nat, x \in S PROVE x + 1 \in S
  <2>0. x <= k - j => P(x)
    <3> HIDE DEF P
    <3> QED BY <1>6
  <2> SUFFICES ASSUME x + 1 <= k - j PROVE P(x + 1)
    <3> HIDE DEF P
    <3> QED OBVIOUS
  <2>1. /\ x + 1 \in 1..(k - j) /\ (x + 1) - 1 = x /\ x \in 0..(k - j) /\ x <= k - j
        /\ j + (x + 1) \in 1..(L + 5) /\ (j + (x + 1)) - 1 = j + x /\ j + x \in 0..(L + 5)
    BY <1>1
  <2> DEFINE c == W[j + (x + 1)]
             f == F[x]
             r == R[j + x]
             g == F[x + 1]
             s == R[j + (x + 1)]
  <2>2. in[x + 1] = c
    BY <1>3, <2>1
  <2>3. g = Data!LoopStep(f, c) /\ s = Data!LoopStep(r, c) /\ f \in Run /\ r \in Run
    BY <1>1, <1>4, <2>1, <2>2
  <2>4. f.state = r.state /\ r.copied = R[j].copied \o f.copied
    BY <2>0, <2>1
  <2>5. c \in Bytes
    BY <1>1, <2>1
  <2> HIDE DEF c, f, r, g, s
  <2>8. f.copied \in Seq(Bytes)
    BY <2>3 DEF Run
  <2>6. g.state = s.state
    BY <2>3, <2>4 DEF Data!LoopStep
  <2>7. s.copied = R[j].copied \o g.copied
    <3>1. CASE Data!Elided(r.state, c)
      BY <2>3, <2>4, <3>1 DEF Data!LoopStep
    <3>2. CASE ~Data!Elided(r.state, c)
      <4>1. s.copied = Append(r.copied, c) /\ g.copied = Append(f.copied, c)
        BY <2>3, <2>4, <3>2 DEF Data!LoopStep
      <4> DEFINE a == R[j].copied
                 b == f.copied
      <4>2. a \in Seq(Bytes) /\ b \in Seq(Bytes)
        BY <1>2, <2>8
      <4> HIDE DEF a, b
      <4>3. Append(a \o b, c) = a \o Append(b, c)
        BY <2>5, <4>2, AppendJoined
      <4> QED BY <2>4, <4>1, <4>3 DEF a, b
    <3> QED BY <3>1, <3>2
  <2> QED BY <2>6, <2>7 DEF g, s
<1>7. m \in Nat /\ m <= k - j
  OBVIOUS
<1>8. m \in S
  <2> HIDE DEF S
  <2> QED BY <1>5, <1>6, <1>7, SetInduction
<1>9. P(m)
  BY <1>7, <1>8
<1>10. F[m].copied \in Seq(Bytes)
  BY <1>4 DEF Run
<1> QED BY <1>9, <1>10 DEF Follows

\* A loop copies no more than it reads.
LEMMA CopiedBound ==
  ASSUME NEW s \in States, NEW bytes \in Seq(Bytes), NEW m \in 0..Len(bytes)
  PROVE  LET F == Data!Turns(s, bytes) IN Len(F[m].copied) \in Nat /\ Len(F[m].copied) <= m
<1> DEFINE F == Data!Turns(s, bytes)
           N == Len(bytes)
           P(x) == Len(F[x].copied) <= x
           S == {x \in Nat : x <= N => P(x)}
<1>0. N \in Nat
  OBVIOUS
<1>1. /\ F \in [0..N -> Run] /\ F[0] = [state |-> s, copied |-> <<>>]
      /\ \A i \in 1..N : F[i] = Data!LoopStep(F[i - 1], bytes[i])
  BY TurnsAre
<1> HIDE DEF F, N
<1>2. 0 \in S
  <2>1. F[0].copied = <<>>
    BY <1>1
  <2>2. P(0)
    BY <2>1
  <2> HIDE DEF P
  <2> QED BY <2>2
<1>3. ASSUME NEW x \in Nat, x \in S PROVE x + 1 \in S
  <2>0. x <= N => P(x)
    <3> HIDE DEF P
    <3> QED BY <1>3
  <2> SUFFICES ASSUME x + 1 <= N PROVE P(x + 1)
    <3> HIDE DEF P
    <3> QED OBVIOUS
  <2> DEFINE c == bytes[x + 1]
             f == F[x]
             g == F[x + 1]
  <2>1. x + 1 \in 1..N /\ (x + 1) - 1 = x /\ x \in 0..N /\ x <= N
    BY <1>0
  <2>2. f \in Run /\ g = Data!LoopStep(f, c) /\ Len(f.copied) <= x
    BY <1>1, <2>0, <2>1
  <2>3. c \in Bytes
    BY <2>1 DEF N
  <2> HIDE DEF c, f, g
  <2>4. f.copied \in Seq(Bytes)
    BY <2>2 DEF Run
  <2>5. g.copied = f.copied \/ g.copied = Append(f.copied, c)
    BY <2>2 DEF Data!LoopStep
  <2>6. Len(Append(f.copied, c)) = Len(f.copied) + 1 /\ Len(f.copied) \in Nat
    BY <2>3, <2>4
  <2>7. Len(g.copied) <= x + 1
    BY <2>2, <2>5, <2>6
  <2> QED BY <2>7 DEF g
<1>4. m \in Nat /\ m <= N /\ m \in 0..N
  BY DEF N
<1>5. m \in S
  <2> HIDE DEF S
  <2> QED BY <1>2, <1>3, <1>4, SetInduction
<1>6. P(m)
  <2> HIDE DEF P
  <2> QED BY <1>4, <1>5
<1>7. F[m] \in Run
  BY <1>1, <1>4
<1>8. Len(F[m].copied) \in Nat
  BY <1>7 DEF Run
<1> QED BY <1>6, <1>8 DEF F

LEMMA SameMin == ASSUME NEW T PROVE Data!Min(T) = Min(T)
BY DEF Data!Min, Min

\* Where a Read stops: at the end of the message, with its buffer full, or with
\* nothing left to read, and never past one of them.
LEMMA StopIs ==
  ASSUME NEW b, input \in Seq(Bytes), NEW m, m = Data!Stop(b)
  PROVE  /\ m \in 0..Len(input)
         /\ m = Len(input) \/ Data!Loop(m).state = "eof" \/ Len(Data!Loop(m).copied) = b
         /\ \A k \in Nat : k < m => Data!Loop(k).state # "eof"
<1> DEFINE N == Len(input)
           A(k) == Data!Loop(k).state = "eof" \/ Len(Data!Loop(k).copied) = b
           T == {N} \cup {k \in 0..N : A(k)}
<1>1. N \in Nat
  OBVIOUS
<1>2. m = Min(T)
  BY SameMin DEF Data!Stop
<1>3. ASSUME NEW k, k \in Nat, k < N, Data!Loop(k).state = "eof" PROVE A(k)
  BY <1>3
<1> HIDE DEF N, A
<1>4. T \in SUBSET Nat /\ T # {} /\ T \in SUBSET Int
  BY <1>1
<1>5. PICK x \in T : \A y \in T : x <= y
  <2> HIDE DEF T
  <2> QED BY <1>4, LeastNumber
<1>6. m = x
  <2> HIDE DEF T
  <2> QED BY <1>2, <1>4, <1>5, MinIs
<1>7. m \in 0..N /\ (m = N \/ A(m))
  BY <1>1, <1>5, <1>6
<1>8. ASSUME NEW k \in Nat, k < m PROVE Data!Loop(k).state # "eof"
  <2> SUFFICES ASSUME Data!Loop(k).state = "eof" PROVE FALSE
    OBVIOUS
  <2>1. k < N /\ k \in 0..N
    BY <1>1, <1>7, <1>8
  <2>2. k \in T
    BY <1>3, <2>1
  <2>3. m <= k
    BY <1>5, <1>6, <2>2
  <2> QED BY <1>7, <1>8, <2>3
<1> QED BY <1>7, <1>8 DEF N, A

\* Bytes read move from what is to come to what was seen.
Moves(W, j, k, m, d, in) ==
    /\ Len(in) = k - j
    /\ SubSeq(in, m + 1, Len(in)) = SubSeq(W, d + 1, k)
    /\ SubSeq(W, 1, j) \o SubSeq(in, 1, m) = SubSeq(W, 1, d)

LEMMA Moved ==
  ASSUME NEW W \in Seq(Bytes), NEW j \in Nat, NEW k \in Nat, j <= k, k <= Len(W),
         NEW m \in Nat, NEW d \in Nat, d = j + m, d <= k, NEW in, in = SubSeq(W, j + 1, k)
  PROVE  Moves(W, j, k, m, d, in)
<1> DEFINE a == j + 1
           s == SubSeq(W, 1, j)
           f == SubSeq(in, 1, m)
           g == SubSeq(in, m + 1, k - j)
           h == SubSeq(W, d + 1, k)
           u == SubSeq(W, 1, d)
           v == s \o f
<1>0. Len(W) \in Nat /\ j <= Len(W) /\ m <= k - j
  OBVIOUS
<1>1. /\ in \in Seq(Bytes) /\ Len(in) = k - j
      /\ \A x \in 1..(k - j) : in[x] = W[j + x]
  <2>1. a \in 1..(Len(W) + 1) /\ k \in 0..Len(W) /\ a <= k + 1 /\ k - a + 1 = k - j /\ in = SubSeq(W, a, k)
    BY <1>0
  <2>2. ASSUME NEW x \in 1..(k - j) PROVE a + x - 1 = j + x
    OBVIOUS
  <2> HIDE DEF a
  <2>3. /\ SubSeq(W, a, k) \in Seq(Bytes) /\ Len(SubSeq(W, a, k)) = k - a + 1
        /\ \A x \in 1..(k - a + 1) : SubSeq(W, a, k)[x] = W[a + x - 1]
    BY <2>1, PartOf
  <2>4. ASSUME NEW x \in 1..(k - j) PROVE in[x] = W[j + x]
    BY <2>1, <2>2, <2>3
  <2> QED BY <2>1, <2>3, <2>4
<1>2. g = h
  <2>1. g \in Seq(Bytes) /\ Len(g) = (k - j) - m /\ \A x \in 1..((k - j) - m) : g[x] = in[m + x]
    BY <1>0, <1>1
  <2>2. h \in Seq(Bytes) /\ Len(h) = (k - j) - m /\ \A x \in 1..((k - j) - m) : h[x] = W[d + x]
    BY <1>0
  <2>3. ASSUME NEW x \in 1..((k - j) - m) PROVE in[m + x] = W[d + x]
    <3>1. m + x \in 1..(k - j) /\ j + (m + x) = d + x
      BY <1>0
    <3> QED BY <1>1, <3>1
  <2> HIDE DEF g, h
  <2>4. Len(g) = Len(h) /\ \A x \in 1..Len(g) : g[x] = h[x]
    BY <2>1, <2>2, <2>3
  <2> QED BY <2>1, <2>2, <2>4
<1>3. v = u
  <2>1. s \in Seq(Bytes) /\ Len(s) = j /\ \A x \in 1..j : s[x] = W[x]
    BY <1>0
  <2>2. f \in Seq(Bytes) /\ Len(f) = m /\ \A x \in 1..m : f[x] = in[x]
    BY <1>0, <1>1
  <2>3. u \in Seq(Bytes) /\ Len(u) = d /\ \A x \in 1..d : u[x] = W[x]
    BY <1>0
  <2>0. v = s \o f
    OBVIOUS
  <2> HIDE DEF s, f, u, v
  <2>4. /\ v \in Seq(Bytes) /\ Len(v) = Len(s) + Len(f)
        /\ \A x \in 1..Len(s) : v[x] = s[x]
        /\ \A y \in 1..Len(f) : v[Len(s) + y] = f[y]
    <3>1. s \in Seq(Bytes) /\ f \in Seq(Bytes)
      BY <2>1, <2>2
    <3> QED BY <2>0, <3>1, JoinedIs
  <2>5. ASSUME NEW x \in 1..d PROVE v[x] = u[x]
    <3>1. CASE x <= j
      <4>1. x \in 1..j /\ x \in 1..Len(s)
        BY <2>1, <3>1
      <4> QED BY <2>1, <2>3, <2>4, <4>1
    <3>2. CASE x > j
      <4> DEFINE y == x - j
      <4>1. y \in 1..m /\ y \in 1..(k - j) /\ j + y = x
        BY <1>0, <3>2
      <4> HIDE DEF y
      <4>2. v[j + y] = f[y] /\ f[y] = in[y] /\ in[y] = W[j + y]
        BY <1>1, <2>1, <2>2, <2>4, <4>1
      <4> QED BY <2>3, <4>1, <4>2
    <3> QED BY <3>1, <3>2
  <2>6. Len(v) = d
    BY <2>1, <2>2, <2>4
  <2>7. u \in Seq(Bytes) /\ v \in Seq(Bytes) /\ Len(u) = d /\ Len(v) = d
    BY <2>3, <2>4, <2>6
  <2> QED BY <2>5, <2>7, SameBytes
<1> QED BY <1>1, <1>2, <1>3 DEF Moves

-----------------------------------------------------------------------------
(* The invariant. *)

\* The reader has read j bytes of the wire, of which the connection gives k: it
\* stands where the run over the whole wire was after j bytes.
Place(p, L, R, j, k) ==
    /\ payload = p /\ WholeRun(Data!Sent(p), Data!Wire(p), R, L)
    /\ L \in Nat /\ j \in Nat /\ k \in Nat /\ j <= k /\ k <= L + 5 /\ j <= L + 3
    /\ seen = SubSeq(Data!Wire(p), 1, j) /\ input = SubSeq(Data!Wire(p), j + 1, k)
    /\ state = R[j].state

\* What Session.Data has in its buffer and what it made of it.
Held(p, L, R, j, k) ==
    /\ out \in Seq(Bytes) /\ left = MaxBytes + 1 - Len(out)
    /\ phase \in {"reading", "discarding", "done"}
    /\ phase = "reading" => verdict = "none" /\ out = R[j].copied
    /\ verdict = "message" => out = Data!Sent(p) /\ Len(out) <= MaxBytes
    /\ verdict = "toolarge" => Len(out) > MaxBytes /\ Len(Data!Sent(p)) > MaxBytes
    /\ verdict = "cut" => k < L + 5
    /\ phase = "done" => k < L + 5 \/ j = L + 3

DataInv == job = "data" => \E p, L, R, j, k : Place(p, L, R, j, k) /\ Held(p, L, R, j, k)

\* A Read of a buffer of b bytes that stopped after m, with f.
Stopped(L, R, j, k, b, m, f) ==
    /\ m \in Nat /\ Len(input) = k - j /\ j + m <= k /\ j + m <= L + 3
    /\ f.state = R[j + m].state /\ f.copied \in Seq(Bytes)
    /\ R[j + m].copied = R[j].copied \o f.copied
    /\ Len(f.copied) \in Nat /\ Len(f.copied) <= m
    /\ m = k - j \/ f.state = "eof" \/ Len(f.copied) = b

\* A Read stops before the next command.
LEMMA Stops ==
  ASSUME NEW p, NEW L \in Nat, NEW R, NEW j \in Nat, NEW k \in Nat, Place(p, L, R, j, k), NEW b,
         NEW m, m = Data!Stop(b), NEW f, f = Data!Loop(m)
  PROVE  Stopped(L, R, j, k, b, m, f)
<1> DEFINE q == Data!Sent(p)
           W == Data!Wire(p)
           F == Data!Turns(state, input)
<1>1. /\ WholeRun(q, W, R, L) /\ L \in Nat /\ j \in Nat /\ k \in Nat
      /\ j <= k /\ k <= L + 5 /\ j <= L + 3
      /\ input = SubSeq(W, j + 1, k) /\ state = R[j].state
  BY DEF Place
<1> HIDE DEF q, W
<1>2. /\ W \in Seq(Bytes) /\ Len(W) = L + 5 /\ R \in [0..(L + 5) -> Run]
      /\ \A i \in 0..(L + 3) : R[i].state = "eof" <=> i = L + 3
  BY <1>1 DEF WholeRun
<1>3. input \in Seq(Bytes) /\ Len(input) = k - j /\ state \in States
  <2>1. input \in Seq(Bytes)
    BY <1>1, <1>2
  <2>2. 0 \in Nat /\ j = j + 0 /\ k <= Len(W)
    BY <1>1, <1>2
  <2>5. Moves(W, j, k, 0, j, input)
    BY <1>1, <1>2, <2>2, Moved, Zenon
  <2>3. Len(input) = k - j
    BY <2>5 DEF Moves
  <2>4. R[j] \in Run
    BY <1>1, <1>2
  <2> QED BY <1>1, <2>1, <2>3, <2>4 DEF Run
<1>4. ASSUME NEW i \in Nat PROVE Data!Loop(i) = F[i]
  BY DEF Data!Loop
<1>5. /\ m \in 0..(k - j)
      /\ m = k - j \/ Data!Loop(m).state = "eof" \/ Len(Data!Loop(m).copied) = b
      /\ \A i \in Nat : i < m => Data!Loop(i).state # "eof"
  BY <1>3, StopIs
<1>6. m \in Nat /\ j + m <= k /\ f = F[m]
  BY <1>1, <1>4, <1>5
<1>7. ASSUME NEW i \in 0..(k - j)
      PROVE  /\ F[i].state = R[j + i].state /\ F[i].copied \in Seq(Bytes)
             /\ R[j + i].copied = R[j].copied \o F[i].copied
  <2>1. F = Data!Turns(state, input)
    OBVIOUS
  <2> HIDE DEF F
  <2>2. Follows(R, j, F, i)
    BY <1>1, <2>1, LoopFollows, Zenon
  <2> QED BY <2>2 DEF Follows
<1>8. Len(F[m].copied) \in Nat /\ Len(F[m].copied) <= m
  BY <1>3, <1>5, CopiedBound
<1> HIDE DEF F
<1>9. j + m <= L + 3
  <2> SUFFICES ASSUME j + m > L + 3 PROVE FALSE
    BY <1>1, <1>6
  <2> DEFINE i == L + 3 - j
  <2>1. i \in Nat /\ i < m /\ i \in 0..(k - j) /\ j + i = L + 3 /\ L + 3 \in 0..(L + 3)
    BY <1>1, <1>5, <1>6
  <2> HIDE DEF i
  <2>2. F[i].state = "eof"
    BY <1>2, <1>7, <2>1
  <2> QED BY <1>4, <1>5, <2>1, <2>2
<1> QED BY <1>3, <1>5, <1>6, <1>7, <1>8, <1>9 DEF Stopped

\* Taking what the loop read moves the reader on.
LEMMA Consumed ==
  ASSUME NEW p, NEW L \in Nat, NEW R, NEW j \in Nat, NEW k \in Nat, Place(p, L, R, j, k), NEW b,
         NEW m, m = Data!Stop(b), Data!Consume(m), payload' = payload
  PROVE  Place(p, L, R, j + m, k)'
<1> DEFINE q == Data!Sent(p)
           W == Data!Wire(p)
           f == Data!Loop(m)
<1>1. /\ payload = p /\ WholeRun(q, W, R, L) /\ L \in Nat /\ j \in Nat /\ k \in Nat
      /\ j <= k /\ k <= L + 5 /\ j <= L + 3
      /\ seen = SubSeq(W, 1, j) /\ input = SubSeq(W, j + 1, k) /\ state = R[j].state
  BY DEF Place
<1>0. f = Data!Loop(m)
  OBVIOUS
<1>2. m \in Nat /\ Len(input) = k - j /\ j + m <= k /\ j + m <= L + 3 /\ f.state = R[j + m].state
  <2> HIDE DEF f
  <2>1. Stopped(L, R, j, k, b, m, f)
    BY <1>0, Stops, Zenon
  <2> QED BY <2>1 DEF Stopped
<1>3. /\ state' = f.state /\ input' = SubSeq(input, m + 1, Len(input))
      /\ seen' = seen \o SubSeq(input, 1, m)
  BY DEF Data!Consume
<1> HIDE DEF q, W, f
<1>4. W \in Seq(Bytes) /\ Len(W) = L + 5
  BY <1>1 DEF WholeRun
<1> DEFINE d == j + m
<1>5. d = j + m /\ d \in Nat /\ d <= k /\ d <= L + 3 /\ k <= Len(W)
  BY <1>1, <1>2, <1>4
<1> HIDE DEF d
<1>6. /\ SubSeq(input, m + 1, Len(input)) = SubSeq(W, d + 1, k)
      /\ SubSeq(W, 1, j) \o SubSeq(input, 1, m) = SubSeq(W, 1, d)
  <2>1. j \in Nat /\ k \in Nat /\ j <= k /\ input = SubSeq(W, j + 1, k)
    BY <1>1
  <2>2. Moves(W, j, k, m, d, input)
    BY <1>2, <1>4, <1>5, <2>1, Moved, Zenon
  <2> QED BY <2>2 DEF Moves
<1>7. payload' = p /\ state' = R[d].state /\ input' = SubSeq(W, d + 1, k) /\ seen' = SubSeq(W, 1, d)
  BY <1>1, <1>2, <1>3, <1>5, <1>6
<1>8. Place(p, L, R, d, k)'
  BY <1>1, <1>5, <1>7 DEF Place, q, W
<1> QED BY <1>5, <1>8

-----------------------------------------------------------------------------
(* The steps. *)

\* The first Read begins at the first byte of the wire.
LEMMA DataBegins == ASSUME Data!Init, payload \in Payloads, fed = <<>> PROVE DataInv
<1> DEFINE W == Data!Wire(payload)
<1>1. Conforming(payload)
  BY DataAssumption DEF Conforming
<1>2. PICK L, R : WholeRun(Data!Sent(payload), W, R, L)
  BY <1>1, WireRead
<1>3. PICK k \in 0..Len(W) : input = SubSeq(W, 1, k)
  BY DEF Data!Init
<1>4. /\ state = "beginLine" /\ left = MaxBytes + 1 /\ out = <<>> /\ verdict = "none"
      /\ phase = "reading" /\ seen = <<>>
  BY DEF Data!Init
<1> HIDE DEF W
<1>5. /\ W \in Seq(Bytes) /\ L \in Nat /\ Len(W) = L + 5
      /\ R[0] = [state |-> "beginLine", copied |-> <<>>]
  BY <1>2 DEF WholeRun
<1>6. SubSeq(W, 1, 0) = <<>> /\ SubSeq(W, 0 + 1, k) = SubSeq(W, 1, k)
  BY <1>5
<1>7. k \in Nat /\ 0 <= k /\ k <= L + 5 /\ 0 <= L + 3 /\ 0 \in Nat
  BY <1>5
<1>8. R[0].state = "beginLine" /\ R[0].copied = <<>>
  BY <1>5
<1>9. Place(payload, L, R, 0, k)
  BY <1>2, <1>3, <1>4, <1>5, <1>6, <1>7, <1>8 DEF Place, W
<1>10. <<>> \in Seq(Bytes) /\ Len(<<>>) = 0 /\ MaxBytes + 1 = MaxBytes + 1 - 0
  BY DataAssumption
<1>11. Held(payload, L, R, 0, k)
  BY <1>4, <1>8, <1>10 DEF Held
<1> QED BY <1>9, <1>11 DEF DataInv

\* The facts of a place that the steps use.
LEMMA PlaceFacts ==
  ASSUME NEW p, NEW L, NEW R, NEW j, NEW k, Place(p, L, R, j, k)
  PROVE  /\ L \in Nat /\ j \in Nat /\ k \in Nat /\ j <= k /\ k <= L + 5 /\ j <= L + 3
         /\ payload = p /\ Data!Sent(p) \in Seq(Bytes) /\ state = R[j].state
         /\ \A i \in 0..(L + 3) : R[i].state = "eof" <=> i = L + 3
         /\ R[L + 3].copied = Data!Sent(p)
BY DEF Place, WholeRun

LEMMA TooLargeStep ==
  ASSUME NEW p, NEW L, NEW R, NEW j, NEW k, Place(p, L, R, j, k), Held(p, L, R, j, k),
         Data!ReadTooLarge
  PROVE  Place(p, L, R, j, k)' /\ Held(p, L, R, j, k)'
<1>1. /\ phase = "reading" /\ left = 0 /\ verdict' = "toolarge" /\ phase' = "discarding"
      /\ UNCHANGED <<payload, input, state, left, out, seen>>
  BY DEF Data!ReadTooLarge, Data!Allowance
<1>2. Place(p, L, R, j, k)'
  BY <1>1 DEF Place
<1>3. out \in Seq(Bytes) /\ left = MaxBytes + 1 - Len(out) /\ out = R[j].copied
  BY <1>1 DEF Held
<1>4. Len(out) \in Nat /\ MaxBytes \in Nat /\ Len(out) = MaxBytes + 1
  BY <1>1, <1>3, DataAssumption
<1>5. j \in 0..(L + 3) /\ Len(R[j].copied) <= Len(Data!Sent(p)) /\ Data!Sent(p) \in Seq(Bytes)
  <2> DEFINE q == Data!Sent(p)
             W == Data!Wire(p)
  <2>1. WholeRun(q, W, R, L) /\ L \in Nat /\ j \in Nat /\ j <= L + 3
    BY DEF Place
  <2> HIDE DEF q, W
  <2>2. /\ q \in Seq(Bytes)
        /\ \A i \in 0..(L + 3) : (R[i].state = "eof" <=> i = L + 3) /\ Len(R[i].copied) <= Len(q)
    BY <2>1 DEF WholeRun
  <2>3. j \in 0..(L + 3)
    BY <2>1
  <2>4. q \in Seq(Bytes) /\ Len(R[j].copied) <= Len(q)
    BY <2>2, <2>3
  <2> QED BY <2>3, <2>4 DEF q
<1>6. Len(out) > MaxBytes /\ Len(Data!Sent(p)) > MaxBytes
  BY <1>3, <1>4, <1>5
<1> QED BY <1>1, <1>2, <1>3, <1>6 DEF Held

\* One Read.
LEMMA ReadStep ==
  ASSUME NEW p, NEW L, NEW R, NEW j, NEW k, Place(p, L, R, j, k), Held(p, L, R, j, k), Data!Read
  PROVE  \E i : Place(p, L, R, i, k)' /\ Held(p, L, R, i, k)'
<1> DEFINE q == Data!Sent(p)
<1>0. /\ L \in Nat /\ j \in Nat /\ k \in Nat /\ j <= k /\ k <= L + 5 /\ j <= L + 3
      /\ q \in Seq(Bytes)
      /\ \A i \in 0..(L + 3) : R[i].state = "eof" <=> i = L + 3
      /\ R[L + 3].copied = q
  BY PlaceFacts
<1> HIDE DEF q
<1>1. PICK size \in BufferSizes :
        LET b == IF size > left THEN left ELSE size
            m == Data!Stop(b)
            n == Len(Data!Loop(m).copied)
        IN  /\ Data!Consume(m)
            /\ out' = out \o Data!Loop(m).copied
            /\ left' = left - n
            /\ verdict' = Data!VerdictAfter(m, b, Len(out) + n)
            /\ phase' = IF Data!VerdictAfter(m, b, Len(out) + n) = "none" THEN "reading"
                                                                         ELSE "discarding"
  BY DEF Data!Read, Data!Allowance, Data!Remaining
<1>a. PICK b : b = IF size > left THEN left ELSE size
  OBVIOUS
<1>b. PICK m : m = Data!Stop(b)
  OBVIOUS
<1>c. PICK f : f = Data!Loop(m)
  OBVIOUS
<1>d. PICK n, d : n = Len(f.copied) /\ d = j + m
  OBVIOUS
<1>e. PICK v : v = Data!VerdictAfter(m, b, Len(out) + n)
  OBVIOUS
<1>2. /\ Data!Consume(m) /\ out' = out \o f.copied /\ left' = left - n /\ verdict' = v
      /\ phase' = IF v = "none" THEN "reading" ELSE "discarding"
  BY <1>1, <1>a, <1>b, <1>c, <1>d, <1>e
<1>4. v = IF f.state = "eof" THEN IF Len(out) + n > MaxBytes THEN "toolarge" ELSE "message"
          ELSE IF n < b THEN "cut" ELSE "none"
  BY <1>c, <1>d, <1>e DEF Data!VerdictAfter
<1>5. payload' = payload /\ phase = "reading"
  BY DEF Data!Read
<1>6. Stopped(L, R, j, k, b, m, f)
  BY <1>0, <1>b, <1>c, Stops, Zenon
<1>7. Place(p, L, R, d, k)'
  <2>1. Place(p, L, R, j + m, k)'
    BY <1>0, <1>2, <1>b, <1>5, Consumed, Zenon
  <2> QED BY <1>d, <2>1
<1>8. /\ m \in Nat /\ d \in 0..(L + 3) /\ d = j + m /\ d <= k
      /\ f.state = R[d].state /\ f.copied \in Seq(Bytes)
      /\ R[d].copied = R[j].copied \o f.copied
      /\ n \in Nat
      /\ m = k - j \/ f.state = "eof" \/ n = b
  <2>1. /\ m \in Nat /\ j + m <= k /\ j + m <= L + 3
        /\ f.state = R[j + m].state /\ f.copied \in Seq(Bytes)
        /\ R[j + m].copied = R[j].copied \o f.copied /\ Len(f.copied) \in Nat
        /\ m = k - j \/ f.state = "eof" \/ Len(f.copied) = b
    BY <1>6 DEF Stopped
  <2>2. d \in 0..(L + 3)
    BY <1>0, <1>d, <2>1
  <2> QED BY <1>d, <2>1, <2>2
<1>9. out \in Seq(Bytes) /\ left = MaxBytes + 1 - Len(out) /\ out = R[j].copied
  BY <1>5 DEF Held
<1>10. MaxBytes \in Nat /\ Len(out) \in Nat
  BY <1>9, DataAssumption
<1>11. out' \in Seq(Bytes) /\ Len(out') = Len(out) + n /\ out' = R[d].copied
  <2>1. out \o f.copied \in Seq(Bytes) /\ Len(out \o f.copied) = Len(out) + Len(f.copied)
    BY <1>8, <1>9
  <2> QED BY <1>2, <1>8, <1>9, <1>d, <2>1
<1>12. left' = MaxBytes + 1 - Len(out')
  <2>1. Len(out') = Len(out) + n /\ left' = left - n /\ left = MaxBytes + 1 - Len(out) /\ n \in Nat
    BY <1>2, <1>8, <1>9, <1>11
  <2> QED BY <1>10, <2>1
<1>13. f.state = "eof" => d = L + 3 /\ out' = q
  BY <1>0, <1>8, <1>11
<1>14. v = "message" => out' = q /\ Len(out') <= MaxBytes
  <2> SUFFICES ASSUME v = "message" PROVE out' = q /\ Len(out') <= MaxBytes
    OBVIOUS
  <2>1. f.state = "eof" /\ ~(Len(out) + n > MaxBytes)
    BY <1>4
  <2>2. Len(out') = Len(out) + n /\ n \in Nat
    BY <1>8, <1>11
  <2> QED BY <1>10, <1>13, <2>1, <2>2
<1>15. v = "toolarge" => Len(out') > MaxBytes /\ Len(q) > MaxBytes
  <2> SUFFICES ASSUME v = "toolarge" PROVE Len(out') > MaxBytes /\ Len(q) > MaxBytes
    OBVIOUS
  <2>1. f.state = "eof" /\ Len(out) + n > MaxBytes
    BY <1>4
  <2> QED BY <1>11, <1>13, <2>1
<1>16. v = "cut" => k < L + 5
  <2> SUFFICES ASSUME v = "cut" PROVE k < L + 5
    OBVIOUS
  <2>1. f.state # "eof" /\ n < b
    BY <1>4
  <2>2. n # b
    <3>1. ASSUME n = b PROVE FALSE
      BY <1>8, <2>1, <3>1
    <3> QED BY <3>1
  <2>3. m = k - j
    BY <1>8, <2>1, <2>2
  <2> QED BY <1>0, <1>8, <2>3
<1>17. phase' = "reading" => v = "none"
  BY <1>2
<1>18. phase' \in {"reading", "discarding", "done"} /\ phase' # "done"
  BY <1>2
<1>19. Held(p, L, R, d, k)'
  BY <1>2, <1>11, <1>12, <1>14, <1>15, <1>16, <1>17, <1>18 DEF Held, q
<1> QED BY <1>7, <1>19

\* Discard reads on to the end of the message.
LEMMA DiscardStep ==
  ASSUME NEW p, NEW L, NEW R, NEW j, NEW k, Place(p, L, R, j, k), Held(p, L, R, j, k), Data!Discard
  PROVE  \E i : Place(p, L, R, i, k)' /\ Held(p, L, R, i, k)'
<1>0. /\ L \in Nat /\ j \in Nat /\ k \in Nat /\ j <= k /\ k <= L + 5 /\ j <= L + 3
      /\ state = R[j].state
      /\ \A i \in 0..(L + 3) : R[i].state = "eof" <=> i = L + 3
  BY PlaceFacts
<1>1. phase' = "done" /\ UNCHANGED <<payload, left, out, verdict>>
  BY DEF Data!Discard
<1>2. ASSUME NEW i \in Nat, k < L + 5 \/ i = L + 3 PROVE Held(p, L, R, i, k)'
  BY <1>1, <1>2 DEF Held
<1>3. CASE state = "eof"
  <2>1. UNCHANGED <<state, input, seen>>
    BY <1>3 DEF Data!Discard
  <2>2. Place(p, L, R, j, k)'
    BY <1>1, <2>1 DEF Place
  <2>3. j = L + 3
    <3>1. j \in 0..(L + 3)
      BY <1>0
    <3> QED BY <1>0, <1>3, <3>1
  <2> QED BY <1>0, <1>2, <2>2, <2>3
<1>4. CASE state # "eof"
  <2>3. PICK b : b = Len(input) + 1
    OBVIOUS
  <2>a. PICK m : m = Data!Stop(b)
    OBVIOUS
  <2>2. PICK f, d : f = Data!Loop(m) /\ d = j + m
    OBVIOUS
  <2>1. Data!Consume(m)
    BY <1>4, <2>3, <2>a DEF Data!Discard
  <2>4. Stopped(L, R, j, k, b, m, f)
    BY <1>0, <2>2, <2>a, Stops, Zenon
  <2>5. payload' = payload
    BY <1>1
  <2>6. Place(p, L, R, d, k)'
    <3>1. Place(p, L, R, j + m, k)'
      BY <1>0, <2>1, <2>a, <2>5, Consumed, Zenon
    <3> QED BY <2>2, <3>1
  <2>7. /\ m \in Nat /\ d \in 0..(L + 3) /\ d = j + m /\ d <= k /\ f.state = R[d].state
        /\ Len(input) = k - j /\ Len(f.copied) \in Nat /\ Len(f.copied) <= m
        /\ m = k - j \/ f.state = "eof" \/ Len(f.copied) = b
    BY <1>0, <2>2, <2>4 DEF Stopped
  <2>8. Len(f.copied) # b
    BY <1>0, <2>3, <2>7
  <2>9. k < L + 5 \/ d = L + 3
    <3>1. CASE m = k - j
      BY <1>0, <2>7, <3>1
    <3>2. CASE f.state = "eof"
      BY <1>0, <2>7, <3>2
    <3> QED BY <2>7, <2>8, <3>1, <3>2
  <2>10. Held(p, L, R, d, k)'
    <3>1. d \in Nat
      BY <2>7
    <3> QED BY <1>2, <2>9, <3>1
  <2> QED BY <2>6, <2>10
<1> QED BY <1>3, <1>4

LEMMA DataInvariant == FeedsSpec => []DataInv
<1>1. FeedsInit => DataInv
  <2> SUFFICES ASSUME FeedsInit, job = "data" PROVE DataInv
    BY DEF DataInv
  <2>1. Data!Init /\ payload \in Payloads /\ fed = <<>>
    BY DEF FeedsInit, InitFeed, Data!Init
  <2> QED BY <2>1, DataBegins
<1>2. DataInv /\ [FeedsNext]_vars => DataInv'
  <2> SUFFICES ASSUME DataInv, [FeedsNext]_vars, job' = "data"
               PROVE  \E p, L, R, j, k : Place(p, L, R, j, k)' /\ Held(p, L, R, j, k)'
    BY DEF DataInv
  <2>1. job = "data" /\ (UNCHANGED vars \/ DataStep)
    BY DEF FeedsNext, FeedCalendar, FeedHistory, FeedHtml, FeedHttp, FeedWire, DataStep, vars, feedVars
  <2>2. PICK p, L, R, j, k : Place(p, L, R, j, k) /\ Held(p, L, R, j, k)
    BY <2>1 DEF DataInv
  <2>3. CASE UNCHANGED dataVars
    <3>1. Place(p, L, R, j, k)'
      BY <2>2, <2>3 DEF Place, dataVars
    <3>2. Held(p, L, R, j, k)'
      BY <2>2, <2>3 DEF Held, dataVars
    <3> QED BY <3>1, <3>2
  <2>4. CASE Data!ReadTooLarge
    BY <2>2, <2>4, TooLargeStep
  <2>5. CASE Data!Read
    BY <2>2, <2>5, ReadStep
  <2>6. CASE Data!Discard
    BY <2>2, <2>6, DiscardStep
  <2>7. CASE Data!Over
    BY <2>3, <2>7 DEF Data!Over, Data!vars, dataVars
  <2>8. UNCHANGED vars => UNCHANGED dataVars
    BY DEF vars
  <2> QED BY <2>1, <2>3, <2>4, <2>5, <2>6, <2>7, <2>8 DEF DataStep, Data!Next
<1> QED BY <1>1, <1>2, PTL DEF FeedsSpec

-----------------------------------------------------------------------------
(* The theorems. *)

\* When all of the wire is accounted for, the connection gave all of it.
LEMMA CompleteIs ==
  ASSUME NEW p, NEW L, NEW R, NEW j, NEW k, Place(p, L, R, j, k), Data!Complete
  PROVE  k = L + 5
<1> DEFINE W == Data!Wire(p)
<1>1. /\ L \in Nat /\ j \in Nat /\ k \in Nat /\ j <= k /\ k <= L + 5
      /\ seen = SubSeq(W, 1, j) /\ input = SubSeq(W, j + 1, k) /\ seen \o input = W
      /\ W \in Seq(Bytes) /\ Len(W) = L + 5
  BY DEF Place, WholeRun, Data!Complete
<1> HIDE DEF W
<1>2. 0 \in Nat /\ j = j + 0 /\ k <= Len(W)
  BY <1>1
<1>3. Moves(W, j, k, 0, j, input)
  BY <1>1, <1>2, Moved, Zenon
<1>4. Len(input) = k - j
  BY <1>3 DEF Moves
<1>5. seen \in Seq(Bytes) /\ Len(seen) = j /\ input \in Seq(Bytes)
  BY <1>1
<1>6. Len(seen \o input) = Len(seen) + Len(input)
  BY <1>5
<1> QED BY <1>1, <1>4, <1>5, <1>6

\* A message that is accepted is what the client sent, however it was split into
\* Read calls, and is not longer than the limit.
THEOREM FeedsFaithful == FeedsSpec => []Faithful
<1>1. DataInv => Faithful
  <2> SUFFICES ASSUME DataInv, job = "data", verdict = "message"
               PROVE  out = Data!Sent(payload) /\ Len(out) <= MaxBytes
    BY DEF Faithful, Data!Faithful
  <2>1. PICK p, L, R, j, k : Place(p, L, R, j, k) /\ Held(p, L, R, j, k)
    BY DEF DataInv
  <2>2. payload = p
    BY <2>1 DEF Place
  <2> QED BY <2>1, <2>2 DEF Held
<1> QED BY <1>1, DataInvariant, PTL

\* Only a message longer than the limit is refused as too large, and one that arrived
\* in full is never taken for a cut connection.
THEOREM FeedsLimitExact == FeedsSpec => []LimitExact
<1>1. DataInv => LimitExact
  <2> SUFFICES ASSUME DataInv, job = "data" PROVE Data!LimitExact
    BY DEF LimitExact
  <2>1. PICK p, L, R, j, k : Place(p, L, R, j, k) /\ Held(p, L, R, j, k)
    BY DEF DataInv
  <2>2. payload = p
    BY <2>1 DEF Place
  <2>3. verdict = "toolarge" => Len(out) > MaxBytes /\ Len(Data!Sent(payload)) > MaxBytes
    BY <2>1, <2>2 DEF Held
  <2>4. ASSUME Data!Complete PROVE verdict # "cut"
    <3>1. L \in Nat /\ k = L + 5
      BY <2>1, <2>4, CompleteIs, PlaceFacts
    <3>2. ~(k < L + 5)
      BY <3>1
    <3> QED BY <2>1, <3>2 DEF Held
  <2> QED BY <2>3, <2>4 DEF Data!LimitExact
<1> QED BY <1>1, DataInvariant, PTL

\* After DATA the connection is at the next command.
THEOREM FeedsInSync == FeedsSpec => []InSync
<1>1. DataInv => InSync
  <2> SUFFICES ASSUME DataInv, job = "data", phase = "done", Data!Complete
               PROVE  input = Data!NextCommand
    BY DEF InSync, Data!InSync
  <2>1. PICK p, L, R, j, k : Place(p, L, R, j, k) /\ Held(p, L, R, j, k)
    BY DEF DataInv
  <2> DEFINE W == Data!Wire(p)
  <2>2. /\ L \in Nat /\ W \in Seq(Bytes) /\ Len(W) = L + 5 /\ W[L + 4] = "x" /\ W[L + 5] = "x"
        /\ input = SubSeq(W, j + 1, k)
    BY <2>1 DEF Place, WholeRun
  <2> HIDE DEF W
  <2>3. k = L + 5 /\ ~(k < L + 5)
    BY <2>1, <2>2, CompleteIs
  <2>4. j = L + 3
    BY <2>1, <2>3 DEF Held
  <2>5. input = SubSeq(W, L + 4, L + 5)
    BY <2>2, <2>3, <2>4
  <2>6. SubSeq(W, L + 4, L + 5) = <<"x", "x">>
    <3> DEFINE s == SubSeq(W, L + 4, L + 5)
    <3>1. s \in Seq(Bytes) /\ Len(s) = 2 /\ s[1] = W[L + 4] /\ s[2] = W[L + 5]
      BY <2>2
    <3> HIDE DEF s
    <3>2. s = <<"x", "x">>
      BY <2>2, <3>1
    <3> QED BY <3>2 DEF s
  <2> QED BY <2>5, <2>6 DEF Data!NextCommand, Data!X
<1> QED BY <1>1, DataInvariant, PTL

-----------------------------------------------------------------------------
(* The message on its way to a POP3 client: the loops of the writer, of the    *)
(* reader and of the reference. *)

Cutting == [lines : Seq(Seq(Bytes)), line : Seq(Bytes)]
Receiving == [lines : Seq(Seq(Bytes)), line : Seq(Bytes), done : BOOLEAN, rest : Seq(Bytes)]

LEMMA WrittenByteType ==
  ASSUME NEW data \in Seq(Bytes), NEW i \in 1..Len(data), NEW s \in Seq(Bytes)
  PROVE  Wire!WrittenByte(data, i) \in Seq(Bytes) /\ s \o Wire!WrittenByte(data, i) \in Seq(Bytes)
<1>1. data[i] \in Bytes /\ "." \in Bytes /\ "CR" \in Bytes /\ "LF" \in Bytes
  BY DEF Bytes
<1>2. Wire!WrittenByte(data, i) \in Seq(Bytes)
  BY <1>1 DEF Wire!WrittenByte, Wire!CRLF
<1> QED BY <1>2

LEMMA CutByteType ==
  ASSUME NEW data \in Seq(Bytes), NEW i \in 1..Len(data), NEW s \in Cutting
  PROVE  Wire!CutByte(s, data, i) \in Cutting
<1>1. data[i] \in Bytes /\ s.lines \in Seq(Seq(Bytes)) /\ s.line \in Seq(Bytes)
  BY DEF Cutting
<1>2. Append(s.lines, s.line) \in Seq(Seq(Bytes)) /\ Append(s.line, data[i]) \in Seq(Bytes) /\ <<>> \in Seq(Bytes)
  BY <1>1
<1> QED BY <1>1, <1>2 DEF Wire!CutByte, Cutting

LEMMA ReceiveByteType ==
  ASSUME NEW data \in Seq(Bytes), NEW i \in 1..Len(data), NEW s \in Receiving
  PROVE  Wire!ReceiveByte(s, data[i]) \in Receiving
<1> DEFINE c == data[i]
           line == Wire!Front(s.line)
           text == IF line # <<>> /\ line[1] = "." THEN Tail(line) ELSE line
<1>1. /\ c \in Bytes /\ s.lines \in Seq(Seq(Bytes)) /\ s.line \in Seq(Bytes) /\ s.done \in BOOLEAN
      /\ s.rest \in Seq(Bytes)
  BY DEF Receiving
<1>2. Append(s.line, c) \in Seq(Bytes) /\ Append(s.rest, c) \in Seq(Bytes) /\ <<>> \in Seq(Bytes)
  BY <1>1
<1>3. ASSUME s.line # <<>> PROVE Append(s.lines, text) \in Seq(Seq(Bytes))
  <2>1. line \in Seq(Bytes)
    BY <1>1, <1>3 DEF Wire!Front
  <2> HIDE DEF line
  <2>2. text \in Seq(Bytes)
    BY <2>1
  <2> QED BY <1>1, <2>2
<1> HIDE DEF c
<1>4. Wire!ReceiveByte(s, c) =
        IF s.done THEN [s EXCEPT !.rest = Append(@, c)]
        ELSE IF c # "LF" \/ s.line = <<>> \/ Wire!Last(s.line) # "CR" THEN [s EXCEPT !.line = Append(@, c)]
        ELSE IF line = <<".">> THEN [s EXCEPT !.done = TRUE]
        ELSE [s EXCEPT !.line = <<>>, !.lines = Append(@, text)]
  BY DEF Wire!ReceiveByte
<1> HIDE DEF line, text
<1>5. Wire!ReceiveByte(s, c) \in Receiving
  <2>1. CASE s.done
    BY <1>1, <1>2, <1>4, <2>1 DEF Receiving
  <2>2. CASE ~s.done /\ (c # "LF" \/ s.line = <<>> \/ Wire!Last(s.line) # "CR")
    BY <1>1, <1>2, <1>4, <2>2 DEF Receiving
  <2>3. CASE ~s.done /\ ~(c # "LF" \/ s.line = <<>> \/ Wire!Last(s.line) # "CR")
    BY <1>1, <1>2, <1>3, <1>4, <2>3 DEF Receiving
  <2> QED BY <2>1, <2>2, <2>3
<1> QED BY <1>5 DEF c

LEMMA WrittenAre ==
  ASSUME NEW data \in Seq(Bytes)
  PROVE  LET t == Wire!Written(data)
         IN  /\ t \in [0..Len(data) -> Seq(Bytes)] /\ t[0] = <<>>
             /\ \A i \in 1..Len(data) : t[i] = t[i - 1] \o Wire!WrittenByte(data, i)
<1> DEFINE N == Len(data)
           V == Seq(Bytes)
           a == <<>>
           G == [t \in V \X (1..N) |-> t[1] \o Wire!WrittenByte(data, t[2])]
           Is(f) == f = [i \in 0..N |-> IF i = 0 THEN a ELSE f[i - 1] \o Wire!WrittenByte(data, i)]
           g == CHOOSE h : Is(h)
<1>1. N \in Nat /\ a \in V
  OBVIOUS
<1>2. G \in [V \X (1..N) -> V]
  <2>1. ASSUME NEW t \in V \X (1..N) PROVE t[1] \o Wire!WrittenByte(data, t[2]) \in V
    <3>1. t[1] \in V /\ t[2] \in 1..N
      OBVIOUS
    <3> QED BY <3>1, WrittenByteType
  <2> HIDE DEF N, V
  <2> QED BY <2>1
<1>3. PICK f : Loops(f, N, V, a, G)
  <2> HIDE DEF G, N, V, a
  <2> QED BY <1>1, <1>2, Iteration
<1>4. ASSUME NEW i \in 1..N PROVE f[i] = f[i - 1] \o Wire!WrittenByte(data, i)
  <2>1. i - 1 \in 0..N
    OBVIOUS
  <2>2. <<f[i - 1], i>> \in V \X (1..N)
    BY <1>3, <2>1 DEF Loops
  <2> HIDE DEF V
  <2> QED BY <1>3, <2>2 DEF Loops
<1>5. Is(f)
  <2> HIDE DEF a
  <2> QED BY <1>3, <1>4 DEF Loops
<1>6. Is(g)
  <2> HIDE DEF Is
  <2> QED BY <1>5, Zenon
<1>7. Wire!Written(data) = g
  BY DEF Wire!Written
<1> HIDE DEF g, a
<1>8. DOMAIN g = 0..N /\ g[0] = a /\ \A i \in 1..N : g[i] = g[i - 1] \o Wire!WrittenByte(data, i)
  <2> DEFINE Piece(i) == IF i = 0 THEN a ELSE g[i - 1] \o Wire!WrittenByte(data, i)
  <2>1. g = [i \in 0..N |-> Piece(i)]
    BY <1>6
  <2> HIDE DEF Piece
  <2>2. DOMAIN g = 0..N /\ \A i \in 0..N : g[i] = Piece(i)
    BY <2>1
  <2>3. ASSUME NEW i \in 1..N PROVE i \in 0..N /\ Piece(i) = g[i - 1] \o Wire!WrittenByte(data, i)
    BY DEF Piece
  <2>4. Piece(0) = a /\ 0 \in 0..N
    BY <1>1 DEF Piece
  <2> QED BY <2>2, <2>3, <2>4
<1> DEFINE S == {n \in Nat : n <= N => g[n] \in V}
<1>9. 0 \in S
  BY <1>1, <1>8
<1>10. ASSUME NEW n \in Nat, n \in S PROVE n + 1 \in S
  <2> SUFFICES ASSUME n + 1 <= N PROVE g[n + 1] \in V
    OBVIOUS
  <2>1. n + 1 \in 1..N /\ (n + 1) - 1 = n /\ g[n] \in V
    BY <1>10
  <2>2. g[n + 1] = g[n] \o Wire!WrittenByte(data, n + 1)
    BY <1>8, <2>1
  <2> HIDE DEF V
  <2> QED BY <2>1, <2>2, WrittenByteType DEF V
<1>11. \A n \in Nat : n \in S
  <2> HIDE DEF S
  <2> QED BY <1>9, <1>10, SetInduction
<1>12. g \in [0..N -> V]
  <2>1. \A i \in 0..N : g[i] \in V
    BY <1>11
  <2> QED BY <1>6, <2>1
<1> QED BY <1>7, <1>8, <1>12 DEF a

LEMMA CutLinesAre ==
  ASSUME NEW data \in Seq(Bytes)
  PROVE  LET t == Wire!CutLines(data)
         IN  /\ t \in [0..Len(data) -> Cutting] /\ t[0] = Wire!NoLines
             /\ \A i \in 1..Len(data) : t[i] = Wire!CutByte(t[i - 1], data, i)
<1> DEFINE N == Len(data)
           V == Cutting
           a == Wire!NoLines
           G == [t \in V \X (1..N) |-> Wire!CutByte(t[1], data, t[2])]
           Is(f) == f = [i \in 0..N |-> IF i = 0 THEN a ELSE Wire!CutByte(f[i - 1], data, i)]
           g == CHOOSE h : Is(h)
<1>1. N \in Nat /\ a \in V
  BY DEF Cutting, Wire!NoLines
<1>2. G \in [V \X (1..N) -> V]
  <2>1. ASSUME NEW t \in V \X (1..N) PROVE Wire!CutByte(t[1], data, t[2]) \in V
    <3>1. t[1] \in V /\ t[2] \in 1..N
      OBVIOUS
    <3> QED BY <3>1, CutByteType
  <2> HIDE DEF N, V
  <2> QED BY <2>1
<1>3. PICK f : Loops(f, N, V, a, G)
  <2> HIDE DEF G, N, V, a
  <2> QED BY <1>1, <1>2, Iteration
<1>4. ASSUME NEW i \in 1..N PROVE f[i] = Wire!CutByte(f[i - 1], data, i)
  <2>1. i - 1 \in 0..N
    OBVIOUS
  <2>2. <<f[i - 1], i>> \in V \X (1..N)
    BY <1>3, <2>1 DEF Loops
  <2> HIDE DEF V
  <2> QED BY <1>3, <2>2 DEF Loops
<1>5. Is(f)
  <2> HIDE DEF a
  <2> QED BY <1>3, <1>4 DEF Loops
<1>6. Is(g)
  <2> HIDE DEF Is
  <2> QED BY <1>5, Zenon
<1>7. Wire!CutLines(data) = g
  BY DEF Wire!CutLines
<1> HIDE DEF g, a
<1>8. DOMAIN g = 0..N /\ g[0] = a /\ \A i \in 1..N : g[i] = Wire!CutByte(g[i - 1], data, i)
  <2> DEFINE Piece(i) == IF i = 0 THEN a ELSE Wire!CutByte(g[i - 1], data, i)
  <2>1. g = [i \in 0..N |-> Piece(i)]
    BY <1>6
  <2> HIDE DEF Piece
  <2>2. DOMAIN g = 0..N /\ \A i \in 0..N : g[i] = Piece(i)
    BY <2>1
  <2>3. ASSUME NEW i \in 1..N PROVE i \in 0..N /\ Piece(i) = Wire!CutByte(g[i - 1], data, i)
    BY DEF Piece
  <2>4. Piece(0) = a /\ 0 \in 0..N
    BY <1>1 DEF Piece
  <2> QED BY <2>2, <2>3, <2>4
<1> DEFINE S == {n \in Nat : n <= N => g[n] \in V}
<1>9. 0 \in S
  BY <1>1, <1>8
<1>10. ASSUME NEW n \in Nat, n \in S PROVE n + 1 \in S
  <2> SUFFICES ASSUME n + 1 <= N PROVE g[n + 1] \in V
    OBVIOUS
  <2>1. n + 1 \in 1..N /\ (n + 1) - 1 = n /\ g[n] \in V
    BY <1>10
  <2>2. g[n + 1] = Wire!CutByte(g[n], data, n + 1)
    BY <1>8, <2>1
  <2> HIDE DEF V
  <2> QED BY <2>1, <2>2, CutByteType DEF V
<1>11. \A n \in Nat : n \in S
  <2> HIDE DEF S
  <2> QED BY <1>9, <1>10, SetInduction
<1>12. g \in [0..N -> V]
  <2>1. \A i \in 0..N : g[i] \in V
    BY <1>11
  <2> QED BY <1>6, <2>1
<1> QED BY <1>7, <1>8, <1>12 DEF a

LEMMA ReceivedAre ==
  ASSUME NEW data \in Seq(Bytes)
  PROVE  LET t == Wire!Received(data)
         IN  /\ t \in [0..Len(data) -> Receiving] /\ t[0] = Wire!NoAnswer
             /\ \A i \in 1..Len(data) : t[i] = Wire!ReceiveByte(t[i - 1], data[i])
<1> DEFINE N == Len(data)
           V == Receiving
           a == Wire!NoAnswer
           G == [t \in V \X (1..N) |-> Wire!ReceiveByte(t[1], data[t[2]])]
           Is(f) == f = [i \in 0..N |-> IF i = 0 THEN a ELSE Wire!ReceiveByte(f[i - 1], data[i])]
           g == CHOOSE h : Is(h)
<1>1. N \in Nat /\ a \in V
  BY DEF Receiving, Wire!NoAnswer
<1>2. G \in [V \X (1..N) -> V]
  <2>1. ASSUME NEW t \in V \X (1..N) PROVE Wire!ReceiveByte(t[1], data[t[2]]) \in V
    <3>1. t[1] \in V /\ t[2] \in 1..N
      OBVIOUS
    <3> QED BY <3>1, ReceiveByteType
  <2> HIDE DEF N, V
  <2> QED BY <2>1
<1>3. PICK f : Loops(f, N, V, a, G)
  <2> HIDE DEF G, N, V, a
  <2> QED BY <1>1, <1>2, Iteration
<1>4. ASSUME NEW i \in 1..N PROVE f[i] = Wire!ReceiveByte(f[i - 1], data[i])
  <2>1. i - 1 \in 0..N
    OBVIOUS
  <2>2. <<f[i - 1], i>> \in V \X (1..N)
    BY <1>3, <2>1 DEF Loops
  <2> HIDE DEF V
  <2> QED BY <1>3, <2>2 DEF Loops
<1>5. Is(f)
  <2> HIDE DEF a
  <2> QED BY <1>3, <1>4 DEF Loops
<1>6. Is(g)
  <2> HIDE DEF Is
  <2> QED BY <1>5, Zenon
<1>7. Wire!Received(data) = g
  BY DEF Wire!Received
<1> HIDE DEF g, a
<1>8. DOMAIN g = 0..N /\ g[0] = a /\ \A i \in 1..N : g[i] = Wire!ReceiveByte(g[i - 1], data[i])
  <2> DEFINE Piece(i) == IF i = 0 THEN a ELSE Wire!ReceiveByte(g[i - 1], data[i])
  <2>1. g = [i \in 0..N |-> Piece(i)]
    BY <1>6
  <2> HIDE DEF Piece
  <2>2. DOMAIN g = 0..N /\ \A i \in 0..N : g[i] = Piece(i)
    BY <2>1
  <2>3. ASSUME NEW i \in 1..N PROVE i \in 0..N /\ Piece(i) = Wire!ReceiveByte(g[i - 1], data[i])
    BY DEF Piece
  <2>4. Piece(0) = a /\ 0 \in 0..N
    BY <1>1 DEF Piece
  <2> QED BY <2>2, <2>3, <2>4
<1> DEFINE S == {n \in Nat : n <= N => g[n] \in V}
<1>9. 0 \in S
  BY <1>1, <1>8
<1>10. ASSUME NEW n \in Nat, n \in S PROVE n + 1 \in S
  <2> SUFFICES ASSUME n + 1 <= N PROVE g[n + 1] \in V
    OBVIOUS
  <2>1. n + 1 \in 1..N /\ (n + 1) - 1 = n /\ g[n] \in V
    BY <1>10
  <2>2. g[n + 1] = Wire!ReceiveByte(g[n], data[n + 1])
    BY <1>8, <2>1
  <2> HIDE DEF V
  <2> QED BY <2>1, <2>2, ReceiveByteType DEF V
<1>11. \A n \in Nat : n \in S
  <2> HIDE DEF S
  <2> QED BY <1>9, <1>10, SetInduction
<1>12. g \in [0..N -> V]
  <2>1. \A i \in 0..N : g[i] \in V
    BY <1>11
  <2> QED BY <1>6, <2>1
<1> QED BY <1>7, <1>8, <1>12 DEF a

-----------------------------------------------------------------------------
(* The client reads what the server writes. *)

\* The client has these lines and the beginning of the next one.
Reading(L, line) == [lines |-> L, line |-> line, done |-> FALSE, rest |-> <<>>]

\* A line as it is sent.
DotStuffed(line) == IF line # <<>> /\ line[1] = "." THEN <<".">> \o line ELSE line

\* The last line, before and after its CR, and a line that is a dot.
Dot == <<".">>
DotCR == <<".", "CR">>
DotDot == <<".", ".">>

\* The client has seen the end of the response.
Answered(L) == [lines |-> L, line |-> DotCR, done |-> TRUE, rest |-> <<>>]

LEMMA TwoBytes ==
  ASSUME NEW u \in Seq(Bytes), Len(u) = 2, NEW a, NEW b, u[1] = a, u[2] = b PROVE u = <<a, b>>
<1>1. a \in Bytes /\ b \in Bytes
  OBVIOUS
<1>2. <<a, b>> \in Seq(Bytes) /\ Len(<<a, b>>) = 2
  BY <1>1
<1>3. ASSUME NEW x \in 1..2 PROVE u[x] = <<a, b>>[x]
  <2>1. x = 1 \/ x = 2
    OBVIOUS
  <2> QED BY <2>1
<1> QED BY <1>2, <1>3, SameBytes

LEMMA ShortLines ==
  /\ Dot \in Seq(Bytes) /\ Dot # <<>> /\ <<>> \in Seq(Bytes)
  /\ Append(<<>>, ".") = Dot /\ Append(Dot, "CR") = DotCR /\ Append(Dot, ".") = DotDot
  /\ DotStuffed(<<>>) = <<>> /\ DotStuffed(Dot) = DotDot
<1>1. Dot \in Seq(Bytes) /\ Dot # <<>> /\ Append(<<>>, ".") = Dot /\ <<>> \in Seq(Bytes)
  BY DEF Dot, Bytes
<1>2. Append(Dot, "CR") = DotCR
  <2> DEFINE u == Append(Dot, "CR")
  <2>1. u \in Seq(Bytes) /\ Len(u) = 2 /\ u[1] = "." /\ u[2] = "CR"
    BY DEF Dot, Bytes
  <2> HIDE DEF u
  <2>2. u = <<".", "CR">>
    BY <2>1, TwoBytes
  <2> QED BY <2>2 DEF u, DotCR
<1>3. Append(Dot, ".") = DotDot
  <2> DEFINE u == Append(Dot, ".")
  <2>1. u \in Seq(Bytes) /\ Len(u) = 2 /\ u[1] = "." /\ u[2] = "."
    BY DEF Dot, Bytes
  <2> HIDE DEF u
  <2>2. u = <<".", ".">>
    BY <2>1, TwoBytes
  <2> QED BY <2>2 DEF u, DotDot
<1>4. DotStuffed(<<>>) = <<>>
  BY DEF DotStuffed
<1>5. DotStuffed(Dot) = DotDot
  <2> DEFINE u == <<".">> \o Dot
  <2>1. Dot[1] = "." /\ u \in Seq(Bytes) /\ Len(u) = 2 /\ u[1] = "." /\ u[2] = "."
    BY DEF Dot, Bytes
  <2> HIDE DEF u
  <2>2. u = <<".", ".">>
    BY <2>1, TwoBytes
  <2> QED BY <1>1, <2>1, <2>2 DEF DotStuffed, DotDot, u
<1> QED BY <1>1, <1>2, <1>3, <1>4, <1>5

LEMMA TakesByte ==
  ASSUME NEW L, NEW line \in Seq(Bytes), NEW c \in Bytes \ {"LF"}
  PROVE  Wire!ReceiveByte(Reading(L, line), c) = Reading(L, Append(line, c))
BY DEF Wire!ReceiveByte, Reading

LEMMA FrontOf ==
  ASSUME NEW line \in Seq(Bytes), NEW c \in Bytes
  PROVE  LET s == Append(line, c) IN s \in Seq(Bytes) /\ s # <<>> /\ Wire!Front(s) = line /\ Wire!Last(s) = c
BY DEF Wire!Front, Wire!Last

LEMMA TakesBreak ==
  ASSUME NEW L, NEW line \in Seq(Bytes), line # <<".">>
  PROVE  Wire!ReceiveByte(Reading(L, Append(line, "CR")), "LF") =
             Reading(Append(L, IF line # <<>> /\ line[1] = "." THEN Tail(line) ELSE line), <<>>)
<1> DEFINE s == Append(line, "CR")
<1>1. s # <<>> /\ Wire!Front(s) = line /\ Wire!Last(s) = "CR"
  BY FrontOf DEF Bytes
<1> HIDE DEF s
<1>2. Wire!ReceiveByte(Reading(L, s), "LF") =
        Reading(Append(L, IF line # <<>> /\ line[1] = "." THEN Tail(line) ELSE line), <<>>)
  BY <1>1 DEF Wire!ReceiveByte, Reading
<1> QED BY <1>2 DEF s

LEMMA TakesEnd ==
  ASSUME NEW L
  PROVE  Wire!ReceiveByte(Reading(L, DotCR), "LF") = Answered(L)
<1>1. "CR" \in Bytes
  BY DEF Bytes
<1>2. DotCR # <<>> /\ Wire!Front(DotCR) = Dot /\ Wire!Last(DotCR) = "CR"
  BY <1>1, FrontOf, ShortLines
<1> QED BY <1>2 DEF Wire!ReceiveByte, Reading, Answered, Dot

LEMMA StuffedLine ==
  ASSUME NEW line \in Seq(Bytes)
  PROVE  LET st == DotStuffed(line)
         IN  /\ st \in Seq(Bytes) /\ st # <<".">>
             /\ (IF st # <<>> /\ st[1] = "." THEN Tail(st) ELSE st) = line
<1> DEFINE st == DotStuffed(line)
<1>1. CASE line # <<>> /\ line[1] = "."
  <2>1. st = <<".">> \o line /\ "." \in Bytes
    BY <1>1 DEF DotStuffed, Bytes
  <2>2. /\ st \in Seq(Bytes) /\ Len(st) = 1 + Len(line) /\ st[1] = "."
        /\ \A x \in 1..Len(line) : st[1 + x] = line[x]
    BY <2>1
  <2>3. Len(line) \in Nat /\ Len(line) > 0
    BY <1>1
  <2> HIDE DEF st
  <2>4. Tail(st) \in Seq(Bytes) /\ Len(Tail(st)) = Len(line) /\ \A x \in 1..Len(line) : Tail(st)[x] = line[x]
    BY <2>2, <2>3
  <2>5. Tail(st) = line
    BY <2>4
  <2>6. st # <<".">> /\ st # <<>>
    BY <2>2, <2>3
  <2> QED BY <2>2, <2>5, <2>6 DEF st
<1>2. CASE ~(line # <<>> /\ line[1] = ".")
  <2>1. st = line
    BY <1>2 DEF DotStuffed
  <2>2. line # <<".">>
    BY <1>2
  <2> QED BY <1>2, <2>1, <2>2
<1> QED BY <1>1, <1>2

LEMMA StuffedMore ==
  ASSUME NEW line \in Seq(Bytes), NEW c \in Bytes, line # <<>> \/ c # "."
  PROVE  DotStuffed(Append(line, c)) = Append(DotStuffed(line), c)
<1>1. CASE line = <<>>
  <2>1. Append(line, c) = <<c>> /\ DotStuffed(line) = <<>> /\ <<c>>[1] = c
    BY <1>1 DEF DotStuffed
  <2> QED BY <1>1, <2>1 DEF DotStuffed
<1>2. CASE line # <<>> /\ line[1] = "."
  <2>1. Append(line, c) # <<>> /\ Append(line, c)[1] = "."
    BY <1>2
  <2>2. <<".">> \in Seq(Bytes)
    BY DEF Bytes
  <2>3. Append(<<".">> \o line, c) = <<".">> \o Append(line, c)
    BY <2>2, AppendJoined
  <2> QED BY <1>2, <2>1, <2>3 DEF DotStuffed
<1>3. CASE line # <<>> /\ line[1] # "."
  <2>1. Append(line, c) # <<>> /\ Append(line, c)[1] = line[1]
    BY <1>3
  <2> QED BY <1>3, <2>1 DEF DotStuffed
<1> QED BY <1>1, <1>2, <1>3

\* What is written of the first bytes is written first.
LEMMA WrittenPrefix ==
  ASSUME NEW data \in Seq(Bytes), NEW i \in 0..Len(data)
  PROVE  LET w == Wire!Written(data)
         IN  Len(w[i]) <= Len(w[Len(data)]) /\ \A x \in 1..Len(w[i]) : w[Len(data)][x] = w[i][x]
<1> DEFINE w == Wire!Written(data)
           N == Len(data)
           P(n) == Len(w[i]) <= Len(w[i + n]) /\ \A x \in 1..Len(w[i]) : w[i + n][x] = w[i][x]
           S == {n \in Nat : i + n <= N => P(n)}
<1>1. w \in [0..N -> Seq(Bytes)] /\ \A k \in 1..N : w[k] = w[k - 1] \o Wire!WrittenByte(data, k)
  BY WrittenAre
<1> HIDE DEF w
<1>2. 0 \in S
  <2>1. i + 0 = i /\ w[i] \in Seq(Bytes)
    BY <1>1
  <2> QED BY <2>1
<1>3. ASSUME NEW n \in Nat, n \in S PROVE n + 1 \in S
  <2> SUFFICES ASSUME i + (n + 1) <= N PROVE P(n + 1)
    OBVIOUS
  <2> DEFINE k == i + n + 1
             lo == w[i + n]
             hi == w[k]
             b == Wire!WrittenByte(data, k)
             first == w[i]
  <2>1. k \in 1..N /\ k - 1 = i + n /\ i + n \in 0..N /\ k = i + (n + 1)
    OBVIOUS
  <2>2. first \in Seq(Bytes) /\ lo \in Seq(Bytes) /\ hi = lo \o b /\ b \in Seq(Bytes)
    BY <1>1, <2>1, WrittenByteType
  <2>3. Len(first) <= Len(lo) /\ \A x \in 1..Len(first) : lo[x] = first[x]
    BY <1>3, <2>1
  <2> HIDE DEF lo, hi, b, first
  <2>4. Len(hi) = Len(lo) + Len(b) /\ \A x \in 1..Len(lo) : hi[x] = lo[x]
    BY <2>2, BytesJoined
  <2>5. Len(first) <= Len(hi) /\ \A x \in 1..Len(first) : hi[x] = first[x]
    BY <2>2, <2>3, <2>4
  <2> QED BY <2>1, <2>5 DEF hi, first
<1>4. \A n \in Nat : n \in S
  <2> HIDE DEF S
  <2> QED BY <1>2, <1>3, SetInduction
<1>5. N - i \in Nat /\ i + (N - i) = N
  OBVIOUS
<1>6. P(N - i)
  <2>1. \A m \in Nat : i + m <= N => P(m)
    BY <1>4
  <2>2. i + (N - i) <= N
    OBVIOUS
  <2> HIDE DEF P
  <2> QED BY <1>5, <2>1, <2>2
<1> QED BY <1>5, <1>6 DEF w

\* The end of the response.
EndsAt(W, n) == Len(W) = n + 3 /\ W[n + 1] = "." /\ W[n + 2] = "CR" /\ W[n + 3] = "LF"

LEMMA ResponseIs ==
  ASSUME NEW data \in Seq(Bytes)
  PROVE  LET w == Wire!Written(data)[Len(data)]
             W == Wire!WriteMultiline(data)
             n == Len(w)
         IN  /\ W \in Seq(Bytes) /\ n \in Nat /\ n <= Len(W) /\ \A x \in 1..n : W[x] = w[x]
             /\ Wire!LineStart(data, Len(data) + 1) => EndsAt(W, n)
             /\ ~Wire!LineStart(data, Len(data) + 1) =>
                  W[n + 1] = "CR" /\ W[n + 2] = "LF" /\ EndsAt(W, n + 2)
<1> DEFINE w == Wire!Written(data)[Len(data)]
           W == Wire!WriteMultiline(data)
           n == Len(w)
<1>1. w \in Seq(Bytes)
  BY WrittenAre
<1>2. n \in Nat /\ "." \in Bytes /\ "CR" \in Bytes /\ "LF" \in Bytes
  BY <1>1 DEF Bytes
<1> HIDE DEF w
<1>3. CASE Wire!LineStart(data, Len(data) + 1)
  <2>1. W = w \o <<>> \o <<".">> \o <<"CR", "LF">>
    BY <1>3 DEF Wire!WriteMultiline, Wire!CRLF, w
  <2>2. /\ W \in Seq(Bytes) /\ \A x \in 1..n : W[x] = w[x]
        /\ Len(W) = n + 3 /\ W[n + 1] = "." /\ W[n + 2] = "CR" /\ W[n + 3] = "LF"
    BY <1>1, <1>2, <2>1
  <2> QED BY <1>2, <1>3, <2>2 DEF EndsAt, w
<1>4. CASE ~Wire!LineStart(data, Len(data) + 1)
  <2>1. W = w \o <<"CR", "LF">> \o <<".">> \o <<"CR", "LF">>
    BY <1>4 DEF Wire!WriteMultiline, Wire!CRLF, w
  <2>2. /\ W \in Seq(Bytes) /\ \A x \in 1..n : W[x] = w[x]
        /\ Len(W) = n + 5 /\ W[n + 1] = "CR" /\ W[n + 2] = "LF" /\ W[n + 3] = "."
        /\ W[n + 4] = "CR" /\ W[n + 5] = "LF"
    BY <1>1, <1>2, <2>1
  <2>3. (n + 2) + 1 = n + 3 /\ (n + 2) + 2 = n + 4 /\ (n + 2) + 3 = n + 5
    BY <1>2
  <2> QED BY <1>2, <1>4, <2>2, <2>3 DEF EndsAt, w
<1> QED BY <1>3, <1>4

\* After the bytes written for the first i bytes of the message the client has the
\* lines that have ended there, and the stuffed beginning of the next.
LEMMA ClientFollows ==
  ASSUME NEW data \in Seq(Bytes), NEW i \in 0..Len(data)
  PROVE  LET w == Wire!Written(data)
             cut == Wire!CutLines(data)
             R == Wire!Received(Wire!WriteMultiline(data))
         IN  /\ R[Len(w[i])] = Reading(cut[i].lines, DotStuffed(cut[i].line))
             /\ cut[i].line = <<>> <=> Wire!LineStart(data, i + 1)
<1> DEFINE N == Len(data)
           w == Wire!Written(data)
           cut == Wire!CutLines(data)
           W == Wire!WriteMultiline(data)
           R == Wire!Received(W)
           C(k) == /\ R[Len(w[k])] = Reading(cut[k].lines, DotStuffed(cut[k].line))
                   /\ cut[k].line = <<>> <=> Wire!LineStart(data, k + 1)
           S == {k \in Nat : k <= N => C(k)}
<1>1. /\ w \in [0..N -> Seq(Bytes)] /\ w[0] = <<>>
      /\ \A k \in 1..N : w[k] = w[k - 1] \o Wire!WrittenByte(data, k)
  BY WrittenAre
<1>2. /\ cut \in [0..N -> Cutting] /\ cut[0] = Wire!NoLines
      /\ \A k \in 1..N : cut[k] = Wire!CutByte(cut[k - 1], data, k)
  BY CutLinesAre
<1>3. W \in Seq(Bytes) /\ Len(w[N]) \in Nat /\ Len(w[N]) <= Len(W) /\ \A x \in 1..Len(w[N]) : W[x] = w[N][x]
  BY ResponseIs
<1>4. /\ R[0] = Wire!NoAnswer
      /\ \A x \in 1..Len(W) : R[x] = Wire!ReceiveByte(R[x - 1], W[x])
  <2> HIDE DEF W
  <2> QED BY <1>3, ReceivedAre
<1>5. ASSUME NEW k \in 0..N PROVE Len(w[k]) <= Len(w[N]) /\ \A x \in 1..Len(w[k]) : w[N][x] = w[k][x]
  BY WrittenPrefix
<1> HIDE DEF w, cut, W, R
<1>6. 0 \in S
  <2>1. Len(w[0]) = 0 /\ cut[0].lines = <<>> /\ cut[0].line = <<>>
    BY <1>1, <1>2 DEF Wire!NoLines
  <2>2. DotStuffed(<<>>) = <<>> /\ Wire!LineStart(data, 0 + 1)
    BY DEF DotStuffed, Wire!LineStart
  <2>3. Wire!NoAnswer = Reading(<<>>, <<>>)
    BY DEF Wire!NoAnswer, Reading
  <2> QED BY <1>4, <2>1, <2>2, <2>3
<1>7. ASSUME NEW k \in Nat, k \in S PROVE k + 1 \in S
  <2> SUFFICES ASSUME k + 1 <= N PROVE C(k + 1)
    OBVIOUS
  <2> DEFINE n == Len(w[k])
             c == data[k + 1]
             b == Wire!WrittenByte(data, k + 1)
             L == cut[k].lines
             line == cut[k].line
             st == DotStuffed(line)
             next == cut[k + 1]
             hi == w[k + 1]
             start == Wire!LineStart(data, k + 1)
  <2>1. k \in 0..N /\ k + 1 \in 0..N /\ k + 1 \in 1..N /\ (k + 1) - 1 = k /\ k <= N
    OBVIOUS
  <2>2. c \in Bytes /\ b \in Seq(Bytes) /\ w[k] \in Seq(Bytes) /\ n \in Nat
    <3>1. w[k] \in Seq(Bytes)
      BY <1>1, <2>1
    <3>2. n \in Nat
      BY <3>1
    <3>3. b \in Seq(Bytes) /\ c \in Bytes
      BY <2>1, <3>1, WrittenByteType
    <3> QED BY <3>1, <3>2, <3>3
  <2>3. R[n] = Reading(L, st) /\ (line = <<>> <=> start)
    BY <1>7, <2>1
  <2>4. cut[k] \in Cutting /\ L \in Seq(Seq(Bytes)) /\ line \in Seq(Bytes) /\ st \in Seq(Bytes) /\ st # <<".">>
    <3>1. cut[k] \in Cutting
      BY <1>2, <2>1
    <3>2. L \in Seq(Seq(Bytes)) /\ line \in Seq(Bytes)
      BY <3>1 DEF Cutting
    <3> QED BY <3>1, <3>2, StuffedLine
  <2>5. next = Wire!CutByte(cut[k], data, k + 1)
    BY <1>2, <2>1
  <2>6. Len(hi) = n + Len(b) /\ Len(hi) <= Len(W) /\ \A y \in 1..Len(b) : W[n + y] = b[y]
    <3> DEFINE lo == w[k]
               top == w[N]
    <3>1. hi = lo \o b /\ lo \in Seq(Bytes) /\ n = Len(lo) /\ top \in Seq(Bytes)
      <4>1. hi = w[(k + 1) - 1] \o b
        BY <1>1, <2>1
      <4>2. N \in 0..N
        OBVIOUS
      <4>3. top \in Seq(Bytes)
        BY <1>1, <4>2
      <4> QED BY <2>1, <2>2, <4>1, <4>3
    <3>2. Len(hi) <= Len(top) /\ Len(top) <= Len(W) /\ \A x \in 1..Len(hi) : W[x] = hi[x]
      <4>1. Len(hi) <= Len(top) /\ \A x \in 1..Len(hi) : top[x] = hi[x]
        BY <1>5, <2>1
      <4>2. Len(top) \in Nat /\ Len(top) <= Len(W) /\ \A x \in 1..Len(top) : W[x] = top[x]
        BY <1>3
      <4>3. hi \in Seq(Bytes)
        BY <1>1, <2>1
      <4> HIDE DEF hi, top
      <4> QED BY <4>1, <4>2, <4>3
    <3> HIDE DEF hi, lo, b, n, top
    <3>3. Len(hi) = Len(lo) + Len(b) /\ \A y \in 1..Len(b) : hi[Len(lo) + y] = b[y]
      BY <2>2, <3>1, BytesJoined
    <3>4. ASSUME NEW y \in 1..Len(b) PROVE W[n + y] = b[y]
      <4>1. n + y \in 1..Len(hi)
        BY <2>2, <3>1, <3>3
      <4> QED BY <3>1, <3>2, <3>3, <4>1
    <3>5. Len(hi) <= Len(W)
      BY <1>3, <3>1, <3>2, <3>3, <2>2
    <3> QED BY <3>1, <3>3, <3>4, <3>5
  <2>7. Len(W) \in Nat /\ \A x \in 1..Len(W) : R[x] = Wire!ReceiveByte(R[x - 1], W[x])
    BY <1>3, <1>4
  <2>8. Wire!LineStart(data, (k + 1) + 1) <=> c \in {"CR", "LF"}
    BY <2>1 DEF Wire!LineStart, Wire!EOL
  <2> SUFFICES R[Len(hi)] = Reading(next.lines, DotStuffed(next.line)) /\ (next.line = <<>> <=> c \in {"CR", "LF"})
    BY <2>8
  <2> DEFINE skipped == c = "LF" /\ k + 1 > 1 /\ data[k] = "CR"
  <2>9. skipped => start
    BY <2>1 DEF Wire!LineStart, Wire!EOL
  <2>10. /\ skipped => next = cut[k]
         /\ ~skipped /\ c \in {"CR", "LF"} => next.lines = Append(L, line) /\ next.line = <<>>
         /\ c \notin {"CR", "LF"} => next.lines = L /\ next.line = Append(line, c)
    <3>1. next = IF skipped THEN cut[k]
                 ELSE IF c \in {"CR", "LF"} THEN [lines |-> Append(L, line), line |-> <<>>]
                 ELSE [cut[k] EXCEPT !.line = Append(@, c)]
      BY <2>1, <2>5 DEF Wire!CutByte, Wire!EOL
    <3> HIDE DEF c, next
    <3> QED BY <2>4, <3>1 DEF Cutting
  <2>11. b = IF skipped THEN <<>> ELSE IF c \in {"CR", "LF"} THEN <<"CR", "LF">>
             ELSE IF c = "." /\ start THEN <<".", ".">> ELSE <<c>>
    BY <2>1 DEF Wire!WrittenByte, Wire!EOL, Wire!CRLF
  <2> HIDE DEF n, c, b, L, line, st, next, hi, start, C, S
  <2>12. CASE skipped
    <3>1. Len(hi) = n /\ next.lines = L /\ next.line = line
      BY <2>2, <2>6, <2>10, <2>11, <2>12 DEF L, line
    <3> QED BY <2>3, <2>9, <2>12, <3>1 DEF st
  <2>13. CASE ~skipped /\ c \in {"CR", "LF"}
    <3>1. b = <<"CR", "LF">> /\ Len(b) = 2 /\ b[1] = "CR" /\ b[2] = "LF"
      BY <2>11, <2>13
    <3>2. Len(hi) = n + 2 /\ n + 1 \in 1..Len(W) /\ n + 2 \in 1..Len(W) /\ W[n + 1] = "CR" /\ W[n + 2] = "LF"
      BY <2>2, <2>6, <2>7, <3>1
    <3>3. R[n + 1] = Reading(L, Append(st, "CR"))
      <4>1. R[n + 1] = Wire!ReceiveByte(R[n], "CR") /\ "CR" \in Bytes \ {"LF"}
        BY <2>2, <2>7, <3>2 DEF Bytes
      <4> QED BY <2>3, <2>4, <4>1, TakesByte
    <3>4. R[n + 2] = Reading(Append(L, line), <<>>)
      <4>1. R[n + 2] = Wire!ReceiveByte(R[n + 1], "LF")
        BY <2>2, <2>7, <3>2
      <4>2. (IF st # <<>> /\ st[1] = "." THEN Tail(st) ELSE st) = line
        BY <2>4, StuffedLine DEF st
      <4>3. Wire!ReceiveByte(Reading(L, Append(st, "CR")), "LF") =
               Reading(Append(L, IF st # <<>> /\ st[1] = "." THEN Tail(st) ELSE st), <<>>)
        BY <2>4, TakesBreak
      <4> QED BY <3>3, <4>1, <4>2, <4>3
    <3>5. DotStuffed(<<>>) = <<>>
      BY DEF DotStuffed
    <3> QED BY <2>10, <2>13, <3>2, <3>4, <3>5
  <2>14. CASE c \notin {"CR", "LF"} /\ c = "." /\ start
    <3>1. ~skipped /\ line = <<>> /\ b = <<".", ".">> /\ Len(b) = 2 /\ b[1] = "." /\ b[2] = "."
      BY <2>3, <2>11, <2>14
    <3>2. Len(hi) = n + 2 /\ n + 1 \in 1..Len(W) /\ n + 2 \in 1..Len(W) /\ W[n + 1] = "." /\ W[n + 2] = "."
      BY <2>2, <2>6, <2>7, <3>1
    <3>3. "." \in Bytes \ {"LF"} /\ st = <<>>
      BY <3>1, ShortLines DEF Bytes, st
    <3>4. R[n + 1] = Reading(L, Dot)
      <4>1. R[n + 1] = Wire!ReceiveByte(R[n], ".")
        BY <2>2, <2>7, <3>2
      <4> QED BY <2>3, <3>3, <4>1, TakesByte, ShortLines
    <3>5. R[n + 2] = Reading(L, DotDot)
      <4>1. R[n + 2] = Wire!ReceiveByte(R[n + 1], ".")
        BY <2>2, <2>7, <3>2
      <4> QED BY <3>3, <3>4, <4>1, TakesByte, ShortLines
    <3>6. next.lines = L /\ next.line = Dot /\ next.line # <<>>
      BY <2>10, <2>14, <3>1, ShortLines
    <3> QED BY <2>14, <3>2, <3>5, <3>6, ShortLines
  <2>15. CASE c \notin {"CR", "LF"} /\ ~(c = "." /\ start)
    <3>1. ~skipped /\ b = <<c>> /\ Len(b) = 1 /\ b[1] = c
      BY <2>11, <2>15
    <3>2. Len(hi) = n + 1 /\ n + 1 \in 1..Len(W) /\ W[n + 1] = c
      BY <2>2, <2>6, <2>7, <3>1
    <3>3. R[n + 1] = Reading(L, Append(st, c))
      <4>1. R[n + 1] = Wire!ReceiveByte(R[n], c) /\ c \in Bytes \ {"LF"}
        BY <2>2, <2>7, <2>15, <3>2
      <4> QED BY <2>3, <2>4, <4>1, TakesByte
    <3>4. next.lines = L /\ next.line = Append(line, c) /\ next.line # <<>>
      BY <2>2, <2>4, <2>10, <2>15
    <3>5. DotStuffed(Append(line, c)) = Append(st, c)
      BY <2>2, <2>3, <2>4, <2>15, StuffedMore DEF st
    <3> QED BY <2>15, <3>2, <3>3, <3>4, <3>5
  <2> HIDE DEF skipped
  <2> QED BY <2>12, <2>13, <2>14, <2>15
<1>8. i \in S
  <2> HIDE DEF S
  <2> QED BY <1>6, <1>7, SetInduction
<1> QED BY <1>8 DEF w, cut, W, R

\* The client has read the lines of the message, the response has ended, and it has
\* taken nothing of what comes next.
LEMMA ReadBack ==
  ASSUME NEW data \in Seq(Bytes)
  PROVE  Wire!Receive(Wire!WriteMultiline(data)) = Answered(Wire!LinesOf(data))
<1> DEFINE N == Len(data)
           n == Len(Wire!Written(data)[N])
           W == Wire!WriteMultiline(data)
           R == Wire!Received(W)
           s == Wire!CutLines(data)[N]
           Done(m, L) == EndsAt(W, m) /\ R[m] = Reading(L, <<>>)
<1>1. /\ W \in Seq(Bytes) /\ n \in Nat /\ n <= Len(W)
      /\ Wire!LineStart(data, N + 1) => EndsAt(W, n)
      /\ ~Wire!LineStart(data, N + 1) => W[n + 1] = "CR" /\ W[n + 2] = "LF" /\ EndsAt(W, n + 2)
  BY ResponseIs
<1>2. \A x \in 1..Len(W) : R[x] = Wire!ReceiveByte(R[x - 1], W[x])
  <2> HIDE DEF W
  <2> QED BY <1>1, ReceivedAre
<1>3. R[n] = Reading(s.lines, DotStuffed(s.line)) /\ (s.line = <<>> <=> Wire!LineStart(data, N + 1))
  <2>1. N \in 0..Len(data)
    OBVIOUS
  <2> QED BY <2>1, ClientFollows
<1>4. s.lines \in Seq(Seq(Bytes)) /\ s.line \in Seq(Bytes)
  <2>1. s \in Cutting
    BY CutLinesAre
  <2> QED BY <2>1 DEF Cutting
<1>5. Wire!LinesOf(data) = IF s.line = <<>> THEN s.lines ELSE Append(s.lines, s.line)
  BY DEF Wire!LinesOf
<1>6. Wire!Receive(W) = R[Len(W)]
  BY DEF Wire!Receive
<1>7. "." \in Bytes \ {"LF"} /\ "CR" \in Bytes \ {"LF"}
  BY DEF Bytes
<1> HIDE DEF n, W, R, s
<1>8. ASSUME NEW m \in Nat, NEW L, Done(m, L)
      PROVE  R[Len(W)] = Answered(L)
  <2>1. /\ Len(W) = m + 3 /\ W[m + 1] = "." /\ W[m + 2] = "CR" /\ W[m + 3] = "LF"
        /\ m + 1 \in 1..Len(W) /\ m + 2 \in 1..Len(W) /\ m + 3 \in 1..Len(W)
    BY <1>8 DEF EndsAt
  <2>2. R[m + 1] = Wire!ReceiveByte(R[m], ".")
    BY <1>2, <2>1
  <2>3. R[m + 2] = Wire!ReceiveByte(R[m + 1], "CR")
    BY <1>2, <2>1
  <2>4. R[m + 3] = Wire!ReceiveByte(R[m + 2], "LF")
    BY <1>2, <2>1
  <2>5. R[m + 1] = Reading(L, Dot)
    <3>1. R[m] = Reading(L, <<>>)
      BY <1>8
    <3>2. Wire!ReceiveByte(Reading(L, <<>>), ".") = Reading(L, Append(<<>>, "."))
      BY <1>7, TakesByte, ShortLines
    <3> QED BY <2>2, <3>1, <3>2, ShortLines
  <2>6. R[m + 2] = Reading(L, DotCR)
    <3>1. Wire!ReceiveByte(Reading(L, Dot), "CR") = Reading(L, Append(Dot, "CR"))
      BY <1>7, TakesByte, ShortLines
    <3> QED BY <2>3, <2>5, <3>1, ShortLines
  <2>7. R[m + 3] = Answered(L)
    BY <2>4, <2>6, TakesEnd
  <2> QED BY <2>1, <2>7
<1>9. CASE Wire!LineStart(data, N + 1)
  <2>1. s.line = <<>> /\ DotStuffed(s.line) = <<>>
    BY <1>3, <1>9 DEF DotStuffed
  <2>2. Done(n, s.lines)
    BY <1>1, <1>3, <1>9, <2>1
  <2> HIDE DEF Done
  <2> QED BY <1>1, <1>5, <1>6, <1>8, <2>1, <2>2 DEF W
<1>10. CASE ~Wire!LineStart(data, N + 1)
  <2> DEFINE st == DotStuffed(s.line)
             L == Append(s.lines, s.line)
  <2>1. s.line # <<>> /\ W[n + 1] = "CR" /\ W[n + 2] = "LF" /\ EndsAt(W, n + 2)
    BY <1>1, <1>3, <1>10
  <2>2. Len(W) = n + 5 /\ n + 1 \in 1..Len(W) /\ n + 2 \in 1..Len(W) /\ n + 2 \in Nat
    BY <1>1, <2>1 DEF EndsAt
  <2>3. st \in Seq(Bytes) /\ st # <<".">> /\ (IF st # <<>> /\ st[1] = "." THEN Tail(st) ELSE st) = s.line
    BY <1>4, StuffedLine
  <2>4. R[n] = Reading(s.lines, st)
    BY <1>3
  <2> HIDE DEF st
  <2>5. R[n + 1] = Reading(s.lines, Append(st, "CR"))
    <3>1. R[n + 1] = Wire!ReceiveByte(R[n], "CR")
      BY <1>1, <1>2, <2>1, <2>2
    <3> QED BY <1>7, <2>3, <2>4, <3>1, TakesByte
  <2>6. R[n + 2] = Reading(L, <<>>)
    <3>1. R[n + 2] = Wire!ReceiveByte(R[n + 1], "LF")
      BY <1>1, <1>2, <2>1, <2>2
    <3>2. Wire!ReceiveByte(Reading(s.lines, Append(st, "CR")), "LF") =
            Reading(Append(s.lines, IF st # <<>> /\ st[1] = "." THEN Tail(st) ELSE st), <<>>)
      BY <2>3, TakesBreak
    <3> QED BY <2>3, <2>5, <3>1, <3>2
  <2>7. Done(n + 2, L)
    BY <2>1, <2>6
  <2> HIDE DEF Done
  <2> QED BY <1>5, <1>6, <1>8, <2>1, <2>2, <2>7 DEF W
<1> QED BY <1>9, <1>10

-----------------------------------------------------------------------------
(* TOP cuts the message after a line. *)

LEMMA SameWireCardinality == ASSUME NEW T PROVE Wire!Cardinality(T) = Cardinality(T)
BY DEF Wire!Cardinality, Cardinality

LEMMA SameWireExtremes == ASSUME NEW T PROVE Wire!Max(T) = Max(T) /\ Wire!Min(T) = Min(T)
BY DEF Wire!Max, Max, Wire!Min, Min

LEMMA LineEndIs ==
  ASSUME NEW data \in Seq(Bytes), NEW i
  PROVE  i \in Wire!LineEnds(data) <=>
           /\ i \in 1..Len(data)
           /\ data[i] = "LF" \/ (data[i] = "CR" /\ ~(i < Len(data) /\ data[i + 1] = "LF"))
BY DEF Wire!LineEnds

\* The lines of the first bytes do not depend on the rest.
LEMMA CutLocal ==
  ASSUME NEW data \in Seq(Bytes), NEW m \in 0..Len(data), NEW pre, pre = SubSeq(data, 1, m), NEW i \in 0..m
  PROVE  Wire!CutLines(pre)[i] = Wire!CutLines(data)[i]
<1> DEFINE f == Wire!CutLines(pre)
           g == Wire!CutLines(data)
           S == {k \in Nat : k <= m => f[k] = g[k]}
<1>1. pre \in Seq(Bytes) /\ Len(pre) = m /\ \A k \in 1..m : pre[k] = data[k]
  OBVIOUS
<1>2. f[0] = Wire!NoLines /\ \A k \in 1..m : f[k] = Wire!CutByte(f[k - 1], pre, k)
  BY <1>1, CutLinesAre
<1>3. g[0] = Wire!NoLines /\ \A k \in 1..m : g[k] = Wire!CutByte(g[k - 1], data, k)
  <2>1. g[0] = Wire!NoLines /\ \A k \in 1..Len(data) : g[k] = Wire!CutByte(g[k - 1], data, k)
    BY CutLinesAre
  <2> QED BY <2>1
<1> HIDE DEF f, g
<1>4. 0 \in S
  BY <1>2, <1>3
<1>5. ASSUME NEW k \in Nat, k \in S PROVE k + 1 \in S
  <2> SUFFICES ASSUME k + 1 <= m PROVE f[k + 1] = g[k + 1]
    OBVIOUS
  <2>1. k + 1 \in 1..m /\ (k + 1) - 1 = k /\ f[k] = g[k] /\ (k + 1 > 1 => k \in 1..m)
    BY <1>5
  <2>2. f[k + 1] = Wire!CutByte(f[k], pre, k + 1) /\ g[k + 1] = Wire!CutByte(f[k], data, k + 1)
    BY <1>2, <1>3, <2>1
  <2>3. pre[k + 1] = data[k + 1] /\ (k + 1 > 1 => pre[k] = data[k])
    BY <1>1, <2>1
  <2>4. Wire!CutByte(f[k], pre, k + 1) = Wire!CutByte(f[k], data, k + 1)
    <3> DEFINE s == f[k]
    <3> HIDE DEF s
    <3>1. Wire!CutByte(s, pre, k + 1) = Wire!CutByte(s, data, k + 1)
      BY <2>1, <2>3 DEF Wire!CutByte
    <3> QED BY <3>1 DEF s
  <2> QED BY <2>2, <2>4
<1>6. i \in S
  <2> HIDE DEF S
  <2> QED BY <1>4, <1>5, SetInduction
<1> QED BY <1>6 DEF f, g

\* What a byte does to the lines.
LEMMA CutStep ==
  ASSUME NEW data \in Seq(Bytes), NEW i \in 1..Len(data)
  PROVE  LET cut == Wire!CutLines(data)
             skipped == data[i] = "LF" /\ i > 1 /\ data[i - 1] = "CR"
         IN  /\ cut[i - 1].lines \in Seq(Seq(Bytes)) /\ cut[i].lines \in Seq(Seq(Bytes))
             /\ cut[i - 1].line \in Seq(Bytes) /\ cut[i].line \in Seq(Bytes)
             /\ skipped => cut[i] = cut[i - 1]
             /\ ~skipped /\ data[i] \in {"CR", "LF"} =>
                  cut[i].lines = Append(cut[i - 1].lines, cut[i - 1].line)
             /\ data[i] \notin {"CR", "LF"} => cut[i].lines = cut[i - 1].lines
<1> DEFINE cut == Wire!CutLines(data)
           s == cut[i - 1]
           t == cut[i]
           skipped == data[i] = "LF" /\ i > 1 /\ data[i - 1] = "CR"
<1>1. t = Wire!CutByte(s, data, i)
  BY CutLinesAre
<1>2. s \in Cutting /\ t \in Cutting
  <2>1. i - 1 \in 0..Len(data) /\ i \in 0..Len(data)
    OBVIOUS
  <2>2. cut \in [0..Len(data) -> Cutting]
    BY CutLinesAre
  <2> HIDE DEF cut
  <2> QED BY <2>1, <2>2
<1> HIDE DEF cut, s, t
<1>3. t = IF skipped THEN s ELSE IF data[i] \in {"CR", "LF"} THEN [lines |-> Append(s.lines, s.line), line |-> <<>>]
          ELSE [s EXCEPT !.line = Append(@, data[i])]
  BY <1>1 DEF Wire!CutByte, Wire!EOL
<1>4. /\ skipped => t = s
      /\ ~skipped /\ data[i] \in {"CR", "LF"} => t.lines = Append(s.lines, s.line)
      /\ data[i] \notin {"CR", "LF"} => t.lines = s.lines
  BY <1>2, <1>3 DEF Cutting
<1>5. s.lines \in Seq(Seq(Bytes)) /\ t.lines \in Seq(Seq(Bytes)) /\ s.line \in Seq(Bytes) /\ t.line \in Seq(Bytes)
  BY <1>2 DEF Cutting
<1> QED BY <1>4, <1>5 DEF cut, s, t

\* Lines that have ended stay.
Extended(s, t) == Len(s) <= Len(t) /\ \A x \in 1..Len(s) : t[x] = s[x]

LEMMA CutTypes ==
  ASSUME NEW data \in Seq(Bytes), NEW i \in 0..Len(data)
  PROVE  LET s == Wire!CutLines(data)[i]
         IN  s.lines \in Seq(Seq(Bytes)) /\ s.line \in Seq(Bytes) /\ Len(s.lines) \in Nat
<1>1. Wire!CutLines(data)[i] \in Cutting
  BY CutLinesAre
<1> QED BY <1>1 DEF Cutting

LEMMA CutGrows ==
  ASSUME NEW data \in Seq(Bytes), NEW i \in 0..Len(data), NEW j \in i..Len(data)
  PROVE  Extended(Wire!CutLines(data)[i].lines, Wire!CutLines(data)[j].lines)
<1> DEFINE cut == Wire!CutLines(data)
           N == Len(data)
           S == {n \in Nat : i + n <= N => Extended(cut[i].lines, cut[i + n].lines)}
<1>1. 0 \in S
  <2>1. cut[i].lines \in Seq(Seq(Bytes))
    BY CutTypes
  <2> HIDE DEF cut
  <2>2. i + 0 = i /\ Extended(cut[i].lines, cut[i].lines)
    BY <2>1 DEF Extended
  <2> QED BY <2>2
<1>2. ASSUME NEW n \in Nat, n \in S PROVE n + 1 \in S
  <2> SUFFICES ASSUME i + (n + 1) <= N PROVE Extended(cut[i].lines, cut[i + (n + 1)].lines)
    OBVIOUS
  <2> DEFINE k == i + n + 1
             first == cut[i].lines
             lo == cut[k - 1].lines
             hi == cut[k].lines
             line == cut[k - 1].line
  <2>1. k \in 1..N /\ k - 1 = i + n /\ k = i + (n + 1) /\ i + n <= N
    OBVIOUS
  <2>2. /\ lo \in Seq(Seq(Bytes)) /\ hi \in Seq(Seq(Bytes)) /\ line \in Seq(Bytes)
        /\ hi = lo \/ hi = Append(lo, line)
    <3> HIDE DEF k
    <3>1. lo \in Seq(Seq(Bytes)) /\ hi \in Seq(Seq(Bytes)) /\ line \in Seq(Bytes)
      BY <2>1, CutStep
    <3>2. cut[k] = cut[k - 1] \/ hi = Append(lo, line) \/ hi = lo
      BY <2>1, CutStep
    <3> QED BY <3>1, <3>2
  <2>3. first \in Seq(Seq(Bytes))
    BY CutTypes
  <2>4. Extended(first, lo)
    BY <1>2, <2>1
  <2> HIDE DEF cut, first, lo, hi, line
  <2>5. Extended(first, hi)
    <3>1. CASE hi = lo
      BY <2>4, <3>1
    <3>2. CASE hi = Append(lo, line)
      BY <2>2, <2>3, <2>4, <3>2 DEF Extended
    <3> QED BY <2>2, <3>1, <3>2
  <2> QED BY <2>1, <2>5 DEF first, hi
<1>3. \A n \in Nat : n \in S
  <2> HIDE DEF S
  <2> QED BY <1>1, <1>2, SetInduction
<1>4. j - i \in Nat /\ i + (j - i) = j /\ i + (j - i) <= N
  OBVIOUS
<1>5. \A n \in Nat : i + n <= N => Extended(cut[i].lines, cut[i + n].lines)
  BY <1>3
<1>6. Extended(cut[i].lines, cut[i + (j - i)].lines)
  <2> HIDE DEF cut
  <2> QED BY <1>4, <1>5
<1> QED BY <1>4, <1>6

\* Where bytes.Index finds what it looks for.
FoundAt(data, s) == {i \in 1..(Len(data) + 1 - Len(s)) : SubSeq(data, i, i + Len(s) - 1) = s}

LEMMA IndexIs ==
  ASSUME NEW data \in Seq(Bytes), NEW s \in Seq(Bytes), Len(s) > 0, NEW k, k = Wire!Index(data, s)
  PROVE  /\ k \in Nat /\ (k = 0 <=> FoundAt(data, s) = {})
         /\ k # 0 => k \in FoundAt(data, s) /\ \A i \in FoundAt(data, s) : k <= i
<1> DEFINE at == FoundAt(data, s)
<1>1. k = IF at = {} THEN 0 ELSE Min(at)
  BY SameWireExtremes DEF Wire!Index, FoundAt
<1>2. at \in SUBSET (1..Len(data)) /\ Len(data) \in Nat
  BY DEF FoundAt
<1> HIDE DEF at
<1>3. at # {} => Min(at) \in at /\ \A i \in at : Min(at) <= i
  BY <1>2, MinOfIndices
<1>4. k \in Nat /\ (k = 0 <=> at = {}) /\ (k # 0 => k \in at /\ \A i \in at : k <= i)
  BY <1>1, <1>2, <1>3
<1> QED BY <1>4 DEF at

BlankCRLF(data, i) ==
    /\ i \in 1..Len(data) /\ i + 3 <= Len(data)
    /\ data[i] = "CR" /\ data[i + 1] = "LF" /\ data[i + 2] = "CR" /\ data[i + 3] = "LF"
BlankLF(data, i) == i \in 1..Len(data) /\ i + 1 <= Len(data) /\ data[i] = "LF" /\ data[i + 1] = "LF"

LEMMA CRLFTwice == LET s == Wire!CRLF \o Wire!CRLF
                   IN  s \in Seq(Bytes) /\ Len(s) = 4 /\ s[1] = "CR" /\ s[2] = "LF" /\ s[3] = "CR" /\ s[4] = "LF"
<1>1. Wire!CRLF \in Seq(Bytes) /\ Len(Wire!CRLF) = 2 /\ Wire!CRLF[1] = "CR" /\ Wire!CRLF[2] = "LF"
  BY DEF Wire!CRLF, Bytes
<1> DEFINE c == Wire!CRLF
           s == c \o c
<1>2. c \in Seq(Bytes) /\ s = c \o c
  BY <1>1
<1> HIDE DEF c, s
<1>3. s \in Seq(Bytes) /\ Len(s) = Len(c) + Len(c) /\ (\A x \in 1..Len(c) : s[x] = c[x] /\ s[Len(c) + x] = c[x])
  BY <1>2, BytesJoined
<1>4. Len(c) = 2 /\ c[1] = "CR" /\ c[2] = "LF"
  BY <1>1 DEF c
<1>5. s \in Seq(Bytes) /\ Len(s) = 4 /\ s[1] = "CR" /\ s[2] = "LF" /\ s[3] = "CR" /\ s[4] = "LF"
  BY <1>3, <1>4
<1> QED BY <1>5 DEF c, s

LEMMA IndexOfCRLF ==
  ASSUME NEW data \in Seq(Bytes), NEW k, k = Wire!Index(data, Wire!CRLF \o Wire!CRLF)
  PROVE  /\ k \in Nat /\ (k # 0 => BlankCRLF(data, k))
         /\ \A i : BlankCRLF(data, i) => k # 0 /\ k <= i
<1> DEFINE s == Wire!CRLF \o Wire!CRLF
           at == FoundAt(data, s)
<1>1. s \in Seq(Bytes) /\ Len(s) = 4 /\ s[1] = "CR" /\ s[2] = "LF" /\ s[3] = "CR" /\ s[4] = "LF"
  BY CRLFTwice
<1> HIDE DEF s
<1>2. k \in Nat /\ (k = 0 <=> at = {}) /\ (k # 0 => k \in at /\ \A i \in at : k <= i)
  <2>1. k = Wire!Index(data, s)
    BY DEF s
  <2>2. s \in Seq(Bytes) /\ Len(s) > 0
    BY <1>1
  <2>3. /\ k \in Nat /\ (k = 0 <=> FoundAt(data, s) = {})
        /\ k # 0 => k \in FoundAt(data, s) /\ \A i \in FoundAt(data, s) : k <= i
    BY <2>1, <2>2, IndexIs
  <2> QED BY <2>3
<1>3. ASSUME NEW i \in 1..Len(data), i + 3 <= Len(data)
      PROVE  SubSeq(data, i, i + 3) = s <=>
               data[i] = "CR" /\ data[i + 1] = "LF" /\ data[i + 2] = "CR" /\ data[i + 3] = "LF"
  <2> DEFINE u == SubSeq(data, i, i + 3)
  <2>1. /\ u \in Seq(Bytes) /\ Len(u) = 4 /\ u[1] = data[i] /\ u[2] = data[i + 1]
        /\ u[3] = data[i + 2] /\ u[4] = data[i + 3]
    BY <1>3
  <2> HIDE DEF u
  <2>2. u = s <=> \A x \in 1..4 : u[x] = s[x]
    BY <1>1, <2>1, SameBytes
  <2>3. (\A x \in 1..4 : u[x] = s[x]) <=> u[1] = s[1] /\ u[2] = s[2] /\ u[3] = s[3] /\ u[4] = s[4]
    <3>1. ASSUME NEW x \in 1..4 PROVE x = 1 \/ x = 2 \/ x = 3 \/ x = 4
      OBVIOUS
    <3> QED BY <3>1
  <2>4. u = s <=> data[i] = "CR" /\ data[i + 1] = "LF" /\ data[i + 2] = "CR" /\ data[i + 3] = "LF"
    BY <1>1, <2>1, <2>2, <2>3
  <2> QED BY <2>4 DEF u
<1>4. \A i : i \in at <=> BlankCRLF(data, i)
  <2>1. \A i \in 1..Len(data) : i + 3 <= Len(data) <=> i \in 1..(Len(data) + 1 - Len(s))
    BY <1>1
  <2>2. \A i \in 1..(Len(data) + 1 - Len(s)) : i \in 1..Len(data) /\ i + Len(s) - 1 = i + 3
    BY <1>1
  <2> QED BY <1>3, <2>1, <2>2 DEF BlankCRLF, FoundAt
<1> HIDE DEF at
<1> QED BY <1>2, <1>4

LEMMA IndexOfLF ==
  ASSUME NEW data \in Seq(Bytes), NEW k, k = Wire!Index(data, <<"LF", "LF">>)
  PROVE  /\ k \in Nat /\ (k # 0 => BlankLF(data, k))
         /\ \A i : BlankLF(data, i) => k # 0 /\ k <= i
<1> DEFINE s == <<"LF", "LF">>
           at == FoundAt(data, s)
<1>1. s \in Seq(Bytes) /\ Len(s) = 2 /\ s[1] = "LF" /\ s[2] = "LF"
  BY DEF Bytes
<1> HIDE DEF s
<1>2. k \in Nat /\ (k = 0 <=> at = {}) /\ (k # 0 => k \in at /\ \A i \in at : k <= i)
  <2>1. k = Wire!Index(data, s)
    BY DEF s
  <2>2. s \in Seq(Bytes) /\ Len(s) > 0
    BY <1>1
  <2>3. /\ k \in Nat /\ (k = 0 <=> FoundAt(data, s) = {})
        /\ k # 0 => k \in FoundAt(data, s) /\ \A i \in FoundAt(data, s) : k <= i
    BY <2>1, <2>2, IndexIs
  <2> QED BY <2>3
<1>3. ASSUME NEW i \in 1..Len(data), i + 1 <= Len(data)
      PROVE  SubSeq(data, i, i + 1) = s <=> data[i] = "LF" /\ data[i + 1] = "LF"
  <2> DEFINE u == SubSeq(data, i, i + 1)
  <2>1. u \in Seq(Bytes) /\ Len(u) = 2 /\ u[1] = data[i] /\ u[2] = data[i + 1]
    <3> DEFINE e == i + 1
    <3>1. i \in 1..(Len(data) + 1) /\ e \in 0..Len(data) /\ i <= e + 1 /\ e - i + 1 = 2
      BY <1>3
    <3> HIDE DEF e
    <3>2. /\ SubSeq(data, i, e) \in Seq(Bytes) /\ Len(SubSeq(data, i, e)) = e - i + 1
          /\ \A x \in 1..(e - i + 1) : SubSeq(data, i, e)[x] = data[i + x - 1]
      BY <3>1, PartOf
    <3>3. i + 1 - 1 = i /\ i + 2 - 1 = i + 1 /\ 1 \in 1..2 /\ 2 \in 1..2
      OBVIOUS
    <3>4. /\ SubSeq(data, i, e) \in Seq(Bytes) /\ Len(SubSeq(data, i, e)) = 2
          /\ SubSeq(data, i, e)[1] = data[i] /\ SubSeq(data, i, e)[2] = data[i + 1]
      BY <3>1, <3>2, <3>3
    <3> QED BY <3>4 DEF e
  <2> HIDE DEF u
  <2>2. u = s <=> \A x \in 1..2 : u[x] = s[x]
    BY <1>1, <2>1, SameBytes
  <2>3. (\A x \in 1..2 : u[x] = s[x]) <=> u[1] = s[1] /\ u[2] = s[2]
    <3>1. ASSUME NEW x \in 1..2 PROVE x = 1 \/ x = 2
      OBVIOUS
    <3> QED BY <3>1
  <2>4. u = s <=> data[i] = "LF" /\ data[i + 1] = "LF"
    BY <1>1, <2>1, <2>2, <2>3
  <2> QED BY <2>4 DEF u
<1>4. \A i : i \in at <=> BlankLF(data, i)
  <2>1. \A i \in 1..Len(data) : i + 1 <= Len(data) <=> i \in 1..(Len(data) + 1 - Len(s))
    BY <1>1
  <2>2. \A i \in 1..(Len(data) + 1 - Len(s)) : i \in 1..Len(data) /\ i + Len(s) - 1 = i + 1
    BY <1>1
  <2> QED BY <1>3, <2>1, <2>2 DEF BlankLF, FoundAt
<1> HIDE DEF at
<1> QED BY <1>2, <1>4

\* The header ends with a line.
LEMMA HeaderAtEnd ==
  ASSUME NEW data \in Seq(Bytes), NEW h, h = Wire!HeaderBoundary(data), h # 0
  PROVE  h \in Wire!LineEnds(data)
<1> DEFINE crlf == Wire!Index(data, Wire!CRLF \o Wire!CRLF)
           lf == Wire!Index(data, <<"LF", "LF">>)
<1>1. crlf \in Nat /\ (crlf # 0 => BlankCRLF(data, crlf))
  BY IndexOfCRLF
<1>2. lf \in Nat /\ (lf # 0 => BlankLF(data, lf))
  BY IndexOfLF
<1>3. h = IF crlf > 0 /\ (lf = 0 \/ crlf < lf) THEN crlf + 3 ELSE IF lf > 0 THEN lf + 1 ELSE 0
  BY DEF Wire!HeaderBoundary
<1> HIDE DEF crlf, lf
<1>4. h \in 1..Len(data) /\ data[h] = "LF"
  BY <1>1, <1>2, <1>3 DEF BlankCRLF, BlankLF
<1> QED BY <1>4, LineEndIs

\* TOP gives the message up to the end of a line, or all of it.
LEMMA TopIsCut ==
  ASSUME NEW data \in Seq(Bytes), NEW n
  PROVE  \E m \in 0..Len(data) :
           /\ Wire!TopBytes(data, n) = SubSeq(data, 1, m)
           /\ m = Len(data) \/ m \in Wire!LineEnds(data)
<1> DEFINE h == Wire!HeaderBoundary(data)
           ends == {i \in Wire!LineEnds(data) : i > h}
           last == {i \in ends : Cardinality({j \in ends : j <= i}) = n}
           top == Wire!TopBytes(data, n)
<1>1. top = IF h = 0 THEN data ELSE IF n = 0 THEN SubSeq(data, 1, h)
            ELSE IF last = {} THEN data ELSE SubSeq(data, 1, Max(last))
  BY SameWireCardinality, SameWireExtremes DEF Wire!TopBytes
<1>2. Len(data) \in 0..Len(data) /\ data = SubSeq(data, 1, Len(data))
  OBVIOUS
<1>3. h # 0 => h \in Wire!LineEnds(data)
  BY HeaderAtEnd
<1>4. last \in SUBSET Wire!LineEnds(data) /\ Wire!LineEnds(data) \in SUBSET (1..Len(data)) /\ Len(data) \in Nat
  BY DEF Wire!LineEnds
<1> HIDE DEF h, last, top
<1>5. last # {} => Max(last) \in Wire!LineEnds(data)
  BY <1>4, MaxOfIndices
<1>6. \A i \in Wire!LineEnds(data) : i \in 0..Len(data)
  BY <1>4
<1>7. CASE h = 0 \/ (n # 0 /\ last = {})
  BY <1>1, <1>2, <1>7 DEF top
<1>8. CASE h # 0 /\ n = 0
  BY <1>1, <1>3, <1>6, <1>8 DEF top
<1>9. CASE h # 0 /\ n # 0 /\ last # {}
  BY <1>1, <1>5, <1>6, <1>9 DEF top
<1> QED BY <1>7, <1>8, <1>9

\* The lines of a message that is cut there.
LEMMA LinesUpTo ==
  ASSUME NEW data \in Seq(Bytes), NEW m \in Wire!LineEnds(data)
  PROVE  Wire!LinesOf(SubSeq(data, 1, m)) = Wire!CutLines(data)[m].lines
<1> DEFINE pre == SubSeq(data, 1, m)
           s == Wire!CutLines(data)[m]
<1>1. m \in 0..Len(data) /\ m \in 1..Len(data) /\ data[m] \in {"CR", "LF"}
  BY LineEndIs
<1>2. pre \in Seq(Bytes) /\ Len(pre) = m /\ m \in 0..m
  BY <1>1
<1>3. Wire!CutLines(pre)[m] = s
  <2> HIDE DEF pre, s
  <2> QED BY <1>1, <1>2, CutLocal DEF pre, s
<1>4. s.line = <<>>
  <2>1. Wire!LineStart(data, m + 1)
    BY <1>1 DEF Wire!LineStart, Wire!EOL
  <2> QED BY <1>1, <2>1, ClientFollows
<1> HIDE DEF pre, s
<1>5. Wire!LinesOf(pre) = s.lines
  BY <1>2, <1>3, <1>4 DEF Wire!LinesOf
<1> QED BY <1>5 DEF pre, s

\* The lines of the message begin with the ones that have ended by byte m.
LEMMA LinesBegin ==
  ASSUME NEW data \in Seq(Bytes), NEW m \in 0..Len(data)
  PROVE  Extended(Wire!CutLines(data)[m].lines, Wire!LinesOf(data))
<1> DEFINE N == Len(data)
           s == Wire!CutLines(data)[N]
           first == Wire!CutLines(data)[m].lines
           all == Wire!LinesOf(data)
<1>1. N \in m..N /\ N \in 0..N
  OBVIOUS
<1>2. Extended(first, s.lines)
  BY <1>1, CutGrows
<1>3. s.lines \in Seq(Seq(Bytes)) /\ s.line \in Seq(Bytes)
  BY <1>1, CutTypes
<1>4. first \in Seq(Seq(Bytes))
  BY CutTypes
<1>5. all = IF s.line = <<>> THEN s.lines ELSE Append(s.lines, s.line)
  BY DEF Wire!LinesOf
<1> HIDE DEF N, s, first, all
<1>6. Extended(first, all)
  BY <1>2, <1>3, <1>4, <1>5 DEF Extended
<1> QED BY <1>6 DEF first, all

-----------------------------------------------------------------------------
(* TOP counts lines. *)

\* The ends of lines up to byte i.
EndsUpTo(data, i) == {j \in Wire!LineEnds(data) : j <= i}
Count(data, i) == Cardinality(EndsUpTo(data, i))

LEMMA CountIs ==
  ASSUME NEW data \in Seq(Bytes), NEW i \in Nat, i + 1 <= Len(data)
  PROVE  /\ Count(data, i) \in Nat /\ IsFiniteSet(EndsUpTo(data, i)) /\ Count(data, 0) = 0
         /\ i + 1 \in Wire!LineEnds(data) => Count(data, i + 1) = Count(data, i) + 1
         /\ i + 1 \notin Wire!LineEnds(data) => Count(data, i + 1) = Count(data, i)
<1> DEFINE ends == Wire!LineEnds(data)
           T == EndsUpTo(data, i)
           U == EndsUpTo(data, i + 1)
<1>1. ends \in SUBSET (1..Len(data)) /\ Len(data) \in Nat
  BY DEF Wire!LineEnds
<1>2. IsFiniteSet(T)
  <2>1. T \subseteq 1..Len(data) /\ IsFiniteSet(1..Len(data))
    BY <1>1, FS_Interval DEF EndsUpTo
  <2> QED BY <2>1, FS_Subset
<1>3. Cardinality(T) \in Nat
  BY <1>2, FS_CardinalityType
<1>4. EndsUpTo(data, 0) = {}
  BY <1>1 DEF EndsUpTo
<1>5. Cardinality({}) = 0
  BY FS_EmptySet
<1>6. ASSUME i + 1 \in ends PROVE U = T \cup {i + 1} /\ i + 1 \notin T
  BY <1>1, <1>6 DEF EndsUpTo
<1>7. ASSUME i + 1 \notin ends PROVE U = T
  BY <1>1, <1>7 DEF EndsUpTo
<1> HIDE DEF ends, T, U
<1>8. i + 1 \in ends => Cardinality(U) = Cardinality(T) + 1
  BY <1>2, <1>6, FS_AddElement
<1> QED BY <1>2, <1>3, <1>4, <1>5, <1>7, <1>8 DEF Count, ends, T, U

\* A line that has ended with a CR whose LF is still to come.
Pending(data, i) == IF i > 0 /\ data[i] = "CR" /\ i \notin Wire!LineEnds(data) THEN 1 ELSE 0

LEMMA LineCount ==
  ASSUME NEW data \in Seq(Bytes), NEW i \in 0..Len(data)
  PROVE  Len(Wire!CutLines(data)[i].lines) = Count(data, i) + Pending(data, i) /\ Count(data, i) \in Nat
<1> DEFINE N == Len(data)
           size == [k \in 0..N |-> Len(Wire!CutLines(data)[k].lines)]
           S == {k \in Nat : k <= N => size[k] = Count(data, k) + Pending(data, k) /\ Count(data, k) \in Nat}
<1>1. 0 \in S
  <2>1. Wire!CutLines(data)[0].lines = <<>>
    BY CutLinesAre DEF Wire!NoLines
  <2>2. EndsUpTo(data, 0) = {} /\ Cardinality({}) = 0
    BY FS_EmptySet DEF EndsUpTo, Wire!LineEnds
  <2>3. Count(data, 0) = 0 /\ Pending(data, 0) = 0
    BY <2>2 DEF Count, Pending
  <2>4. size[0] = 0
    BY <2>1
  <2> QED BY <2>3, <2>4
<1>2. ASSUME NEW k \in Nat, k \in S PROVE k + 1 \in S
  <2> SUFFICES ASSUME k + 1 <= N
               PROVE  size[k + 1] = Count(data, k + 1) + Pending(data, k + 1) /\ Count(data, k + 1) \in Nat
    OBVIOUS
  <2> DEFINE c == data[k + 1]
             b == data[k]
             skipped == c = "LF" /\ k + 1 > 1 /\ b = "CR"
             ended == k + 1 \in Wire!LineEnds(data)
  <2>1. k + 1 \in 1..N /\ (k + 1) - 1 = k /\ k \in 0..N /\ k + 1 \in 0..N /\ (k > 0 => k \in 1..N)
    OBVIOUS
  <2>2. size[k] = Count(data, k) + Pending(data, k)
    BY <1>2, <2>1
  <2>3. /\ Count(data, k) \in Nat
        /\ ended => Count(data, k + 1) = Count(data, k) + 1
        /\ ~ended => Count(data, k + 1) = Count(data, k)
    BY CountIs
  <2>4. /\ skipped => size[k + 1] = size[k]
        /\ ~skipped /\ c \in {"CR", "LF"} => size[k + 1] = size[k] + 1
        /\ c \notin {"CR", "LF"} => size[k + 1] = size[k]
    <3> DEFINE x == k + 1
               lo == Wire!CutLines(data)[x - 1]
               hi == Wire!CutLines(data)[x]
    <3>0. x \in 1..N /\ x - 1 = k
      BY <2>1
    <3> HIDE DEF x
    <3>1. /\ lo.lines \in Seq(Seq(Bytes)) /\ lo.line \in Seq(Bytes)
          /\ data[x] = "LF" /\ x > 1 /\ data[x - 1] = "CR" => hi = lo
          /\ ~(data[x] = "LF" /\ x > 1 /\ data[x - 1] = "CR") /\ data[x] \in {"CR", "LF"} =>
               hi.lines = Append(lo.lines, lo.line)
          /\ data[x] \notin {"CR", "LF"} => hi.lines = lo.lines
      BY <3>0, CutStep
    <3>2. size[x - 1] = Len(lo.lines) /\ size[x] = Len(hi.lines)
      BY <3>0
    <3> HIDE DEF lo, hi, size
    <3>3. Len(Append(lo.lines, lo.line)) = Len(lo.lines) + 1
      BY <3>1
    <3>4. /\ data[x] = "LF" /\ x > 1 /\ data[x - 1] = "CR" => size[x] = size[x - 1]
          /\ ~(data[x] = "LF" /\ x > 1 /\ data[x - 1] = "CR") /\ data[x] \in {"CR", "LF"} =>
               size[x] = size[x - 1] + 1
          /\ data[x] \notin {"CR", "LF"} => size[x] = size[x - 1]
      BY <3>1, <3>2, <3>3
    <3> QED BY <3>0, <3>4 DEF x
  <2>5. ended <=> c = "LF" \/ (c = "CR" /\ ~(k + 1 < N /\ data[k + 1 + 1] = "LF"))
    BY <2>1, LineEndIs
  <2>6. k > 0 => (k \in Wire!LineEnds(data) <=> b = "LF" \/ (b = "CR" /\ c # "LF"))
    <3>1. ASSUME k > 0 PROVE k \in 1..N /\ k < N
      BY <2>1, <3>1
    <3> QED BY <3>1, LineEndIs
  <2>7. Pending(data, k) = IF k > 0 /\ b = "CR" /\ c = "LF" THEN 1 ELSE 0
    BY <2>6 DEF Pending
  <2>8. Pending(data, k + 1) = IF c = "CR" /\ ~ended THEN 1 ELSE 0
    BY DEF Pending
  <2>9. skipped <=> k > 0 /\ b = "CR" /\ c = "LF"
    OBVIOUS
  <2> HIDE DEF c, b, ended, skipped, size
  <2> QED BY <2>2, <2>3, <2>4, <2>5, <2>7, <2>8, <2>9
<1>3. i \in S
  <2> HIDE DEF S
  <2> QED BY <1>1, <1>2, SetInduction
<1> QED BY <1>3

\* At the end of a line, and at the end of the message, none is pending.
LEMMA LinesCounted ==
  ASSUME NEW data \in Seq(Bytes), NEW m \in 0..Len(data), m = Len(data) \/ m \in Wire!LineEnds(data)
  PROVE  Len(Wire!CutLines(data)[m].lines) = Count(data, m) /\ Count(data, m) \in Nat
<1>1. Pending(data, m) = 0
  <2>1. ASSUME m > 0, data[m] = "CR", m = Len(data) PROVE m \in Wire!LineEnds(data)
    BY <2>1, LineEndIs
  <2> QED BY <2>1 DEF Pending
<1>2. Len(Wire!CutLines(data)[m].lines) = Count(data, m) + Pending(data, m) /\ Count(data, m) \in Nat
  BY LineCount
<1> QED BY <1>1, <1>2

\* Ends after h, up to i.
LEMMA CountAfter ==
  ASSUME NEW data \in Seq(Bytes), NEW h \in 0..Len(data), NEW i \in h..Len(data)
  PROVE  LET ends == {j \in Wire!LineEnds(data) : j > h}
         IN  Cardinality({j \in ends : j <= i}) = Count(data, i) - Count(data, h)
<1> DEFINE A == EndsUpTo(data, h)
           B == EndsUpTo(data, i)
           ends == {j \in Wire!LineEnds(data) : j > h}
           C == {j \in ends : j <= i}
<1>1. Wire!LineEnds(data) \in SUBSET (1..Len(data)) /\ Len(data) \in Nat
  BY DEF Wire!LineEnds
<1>2. A \subseteq 1..Len(data) /\ C \subseteq 1..Len(data) /\ B = A \cup C /\ A \cap C = {}
  BY <1>1 DEF EndsUpTo
<1> HIDE DEF A, B, C
<1>3. IsFiniteSet(A) /\ IsFiniteSet(C)
  <2>1. IsFiniteSet(1..Len(data))
    BY <1>1, FS_Interval
  <2> QED BY <1>2, <2>1, FS_Subset
<1>4. Cardinality(A \cup C) = Cardinality(A) + Cardinality(C) - Cardinality(A \cap C)
  BY <1>3, FS_Union
<1>5. Cardinality(A \cap C) = 0 /\ Cardinality(A) \in Nat /\ Cardinality(C) \in Nat
  BY <1>2, <1>3, FS_EmptySet, FS_CardinalityType
<1>6. Cardinality(C) = Cardinality(B) - Cardinality(A)
  BY <1>2, <1>4, <1>5
<1> QED BY <1>6 DEF A, B, C, Count

\* With a header that ends at h, TOP n gives the lines up to there and n more.
LEMMA TopCount ==
  ASSUME NEW data \in Seq(Bytes), NEW n \in Nat,
         NEW h \in Wire!LineEnds(data), h = Wire!HeaderBoundary(data)
  PROVE  LET all == Len(Wire!LinesOf(data))
         IN  Len(Wire!LinesOf(Wire!TopBytes(data, n))) = IF all <= Count(data, h) + n THEN all ELSE Count(data, h) + n
<1> DEFINE N == Len(data)
           cut == Wire!CutLines(data)
           ends == {i \in Wire!LineEnds(data) : i > h}
           last == {i \in ends : Cardinality({j \in ends : j <= i}) = n}
           top == Wire!TopBytes(data, n)
           lines == Wire!LinesOf(data)
           all == Len(lines)
           e == Count(data, h)
<1>1. top = IF h = 0 THEN data ELSE IF n = 0 THEN SubSeq(data, 1, h)
            ELSE IF last = {} THEN data ELSE SubSeq(data, 1, Max(last))
  BY SameWireCardinality, SameWireExtremes DEF Wire!TopBytes
<1>2. h \in 1..N /\ N \in Nat /\ Wire!LineEnds(data) \in SUBSET (1..N) /\ h \in 0..N /\ N \in 0..N
  BY LineEndIs DEF Wire!LineEnds
<1>3. Len(cut[N].lines) = Count(data, N) /\ Count(data, N) \in Nat
  BY <1>2, LinesCounted
<1>4. all \in Nat /\ all <= Count(data, N) + 1
  <2> DEFINE s == cut[N]
  <2>1. s.lines \in Seq(Seq(Bytes)) /\ s.line \in Seq(Bytes)
    BY <1>2, CutTypes
  <2>2. lines = IF s.line = <<>> THEN s.lines ELSE Append(s.lines, s.line)
    BY DEF Wire!LinesOf
  <2>3. Len(s.lines) = Count(data, N)
    BY <1>3
  <2> HIDE DEF s, lines
  <2> QED BY <1>3, <2>1, <2>2, <2>3
\* What is cut at the end of a line.
<1>5. ASSUME NEW m \in Wire!LineEnds(data)
      PROVE  Len(Wire!LinesOf(SubSeq(data, 1, m))) = Count(data, m) /\ Count(data, m) \in Nat /\ Count(data, m) <= all
  <2>1. m \in 0..N
    BY <1>2
  <2>2. Len(cut[m].lines) = Count(data, m) /\ Count(data, m) \in Nat
    BY <2>1, LinesCounted
  <2>3. Wire!LinesOf(SubSeq(data, 1, m)) = cut[m].lines
    BY LinesUpTo
  <2>4. Len(cut[m].lines) <= all
    BY <2>1, LinesBegin DEF Extended
  <2> HIDE DEF cut, all
  <2> QED BY <2>2, <2>3, <2>4
<1>6. e \in Nat /\ e <= all
  BY <1>5
<1>7. ASSUME NEW i \in ends PROVE Cardinality({j \in ends : j <= i}) = Count(data, i) - e
  <2>1. i \in h..N
    BY <1>2
  <2> QED BY <1>2, <2>1, CountAfter
<1> HIDE DEF cut, top, all, lines, e
<1>8. CASE n = 0
  <2>1. top = SubSeq(data, 1, h)
    BY <1>1, <1>2, <1>8
  <2>2. Len(Wire!LinesOf(top)) = e
    BY <1>5, <2>1 DEF e
  <2> QED BY <1>4, <1>6, <1>8, <2>2 DEF top, all, lines, e
<1>9. CASE n # 0 /\ last # {}
  <2>1. last \in SUBSET (1..N)
    BY <1>2
  <2>2. Max(last) \in last
    <3> HIDE DEF last
    <3> QED BY <1>2, <1>9, <2>1, MaxOfIndices
  <2>3. PICK m \in last : m = Max(last)
    BY <2>2
  <2>4. m \in ends /\ m \in Wire!LineEnds(data) /\ Cardinality({j \in ends : j <= m}) = n
    BY <2>3
  <2>5. Count(data, m) - e = n
    BY <1>7, <2>4
  <2>6. top = SubSeq(data, 1, m)
    <3>1. h # 0
      BY <1>2
    <3> HIDE DEF last
    <3> QED BY <1>1, <1>9, <2>3, <3>1
  <2>7. Len(Wire!LinesOf(top)) = Count(data, m) /\ Count(data, m) \in Nat /\ Count(data, m) <= all
    BY <1>5, <2>4, <2>6
  <2>8. Count(data, m) = e + n
    BY <1>6, <2>5, <2>7
  <2> QED BY <1>4, <1>6, <2>7, <2>8 DEF top, all, lines, e
<1>10. CASE n # 0 /\ last = {}
  <2> DEFINE S == {k \in Nat : h + k <= N => Count(data, h + k) < e + n}
  <2>1. 0 \in S
    <3>1. h + 0 = h /\ Count(data, h) < e + n
      BY <1>2, <1>6, <1>10 DEF e
    <3> QED BY <3>1
  <2>2. ASSUME NEW k \in Nat, k \in S PROVE k + 1 \in S
    <3> SUFFICES ASSUME h + (k + 1) <= N PROVE Count(data, h + (k + 1)) < e + n
      OBVIOUS
    <3> DEFINE x == h + k
    <3>1. x \in Nat /\ x + 1 = h + (k + 1) /\ x + 1 <= N /\ x + 1 > h /\ h + k <= N
      BY <1>2
    <3>2. Count(data, x) < e + n
      BY <2>2, <3>1
    <3> HIDE DEF x
    <3>3. /\ Count(data, x) \in Nat
          /\ x + 1 \in Wire!LineEnds(data) => Count(data, x + 1) = Count(data, x) + 1
          /\ x + 1 \notin Wire!LineEnds(data) => Count(data, x + 1) = Count(data, x)
      BY <3>1, CountIs
    <3>4. ASSUME x + 1 \in Wire!LineEnds(data) PROVE Count(data, x + 1) - e # n
      <4>1. x + 1 \in ends
        BY <3>1, <3>4
      <4> QED BY <1>7, <1>10, <4>1
    <3>5. Count(data, x + 1) < e + n
      BY <1>6, <3>2, <3>3, <3>4
    <3> QED BY <3>1, <3>5
  <2>3. \A k \in Nat : k \in S
    <3> HIDE DEF S
    <3> QED BY <2>1, <2>2, SetInduction
  <2>4. N - h \in Nat /\ h + (N - h) = N /\ h + (N - h) <= N
    BY <1>2
  <2>5. \A k \in Nat : h + k <= N => Count(data, h + k) < e + n
    BY <2>3
  <2>6. Count(data, N) < e + n
    <3>1. Count(data, h + (N - h)) < e + n
      BY <2>4, <2>5
    <3> QED BY <2>4, <3>1
  <2>7. top = data
    BY <1>1, <1>2, <1>10
  <2>8. all <= e + n /\ Len(Wire!LinesOf(top)) = all
    BY <1>3, <1>4, <1>6, <2>6, <2>7 DEF all, lines
  <2> QED BY <2>8 DEF top, all, lines, e
<1> QED BY <1>8, <1>9, <1>10

\* Byte i ends an empty line.
Gap(data, i) ==
    /\ i \in 1..Len(data) /\ data[i] \in {"CR", "LF"}
    /\ ~(data[i] = "LF" /\ i > 1 /\ data[i - 1] = "CR")
    /\ i = 1 \/ data[i - 1] \in {"CR", "LF"}

LEMMA GapEmpty ==
  ASSUME NEW data \in Seq(Bytes), NEW i, Gap(data, i)
  PROVE  Wire!CutLines(data)[i].lines = Append(Wire!CutLines(data)[i - 1].lines, <<>>)
<1>1. /\ i \in 1..Len(data) /\ data[i] \in {"CR", "LF"} /\ i - 1 \in 0..Len(data)
      /\ ~(data[i] = "LF" /\ i > 1 /\ data[i - 1] = "CR") /\ (i = 1 \/ data[i - 1] \in {"CR", "LF"})
  BY DEF Gap
<1>2. Wire!CutLines(data)[i].lines = Append(Wire!CutLines(data)[i - 1].lines, Wire!CutLines(data)[i - 1].line)
  BY <1>1, CutStep
<1>3. Wire!CutLines(data)[i - 1].line = <<>>
  <2> DEFINE k == i - 1
  <2>1. k \in 0..Len(data) /\ k + 1 = i
    BY <1>1
  <2>2. Wire!LineStart(data, k + 1)
    BY <1>1, <2>1 DEF Wire!LineStart, Wire!EOL
  <2> HIDE DEF k
  <2>3. Wire!CutLines(data)[k].line = <<>>
    BY <2>1, <2>2, ClientFollows
  <2> QED BY <2>3 DEF k
<1> QED BY <1>2, <1>3

\* Where no byte has ended an empty line there is none.
NoneEmpty(L) == \A x \in 1..Len(L) : L[x] # <<>>

LEMMA NoGap ==
  ASSUME NEW data \in Seq(Bytes), NEW i \in 0..Len(data), \A k \in 1..i : ~Gap(data, k)
  PROVE  NoneEmpty(Wire!CutLines(data)[i].lines)
<1> DEFINE N == Len(data)
           cut == Wire!CutLines(data)
           S == {k \in Nat : k <= i => NoneEmpty(cut[k].lines)}
<1>1. 0 \in S
  <2>1. cut[0].lines = <<>>
    BY CutLinesAre DEF Wire!NoLines
  <2> QED BY <2>1 DEF NoneEmpty
<1>2. ASSUME NEW k \in Nat, k \in S PROVE k + 1 \in S
  <2> SUFFICES ASSUME k + 1 <= i PROVE NoneEmpty(cut[k + 1].lines)
    OBVIOUS
  <2> DEFINE x == k + 1
             lo == cut[x - 1]
             hi == cut[x]
             skipped == data[x] = "LF" /\ x > 1 /\ data[x - 1] = "CR"
  <2>1. x \in 1..N /\ x \in 1..i /\ x - 1 = k /\ k \in 0..N
    OBVIOUS
  <2>2. NoneEmpty(lo.lines)
    BY <1>2, <2>1
  <2>3. ~Gap(data, x)
    BY <2>1
  <2>4. lo.line = <<>> <=> x = 1 \/ data[x - 1] \in {"CR", "LF"}
    <3>1. cut[k].line = <<>> <=> Wire!LineStart(data, k + 1)
      BY <2>1, ClientFollows
    <3> QED BY <2>1, <3>1 DEF Wire!LineStart, Wire!EOL
  <2> HIDE DEF x
  <2>5. /\ lo.lines \in Seq(Seq(Bytes)) /\ lo.line \in Seq(Bytes)
        /\ skipped => hi = lo
        /\ ~skipped /\ data[x] \in {"CR", "LF"} => hi.lines = Append(lo.lines, lo.line)
        /\ data[x] \notin {"CR", "LF"} => hi.lines = lo.lines
    BY <2>1, CutStep
  <2>6. ~skipped /\ data[x] \in {"CR", "LF"} => lo.line # <<>>
    BY <2>1, <2>3, <2>4 DEF Gap
  <2> HIDE DEF lo, hi, cut, skipped
  <2>7. lo.line # <<>> => NoneEmpty(Append(lo.lines, lo.line))
    BY <2>2, <2>5 DEF NoneEmpty
  <2>8. NoneEmpty(hi.lines)
    BY <2>2, <2>5, <2>6, <2>7
  <2> QED BY <2>8 DEF hi, x
<1>3. i \in S
  <2> HIDE DEF S
  <2> QED BY <1>1, <1>2, SetInduction
<1> QED BY <1>3

\* The first empty line is the one that the first gap ends.
FirstGap(data, g) == Gap(data, g) /\ \A k \in 1..(g - 1) : ~Gap(data, k)

LEMMA GapExists ==
  ASSUME NEW data \in Seq(Bytes), NEW x \in 1..Len(Wire!LinesOf(data)), Wire!LinesOf(data)[x] = <<>>
  PROVE  \E g : FirstGap(data, g)
<1> DEFINE N == Len(data)
           s == Wire!CutLines(data)[N]
           lines == Wire!LinesOf(data)
           gaps == {k \in 1..N : Gap(data, k)}
<1>1. N \in Nat /\ N \in 0..N
  OBVIOUS
<1>2. s.lines \in Seq(Seq(Bytes)) /\ s.line \in Seq(Bytes)
  BY <1>1, CutTypes
<1>3. lines = IF s.line = <<>> THEN s.lines ELSE Append(s.lines, s.line)
  BY DEF Wire!LinesOf
<1>4. gaps # {}
  <2> SUFFICES ASSUME gaps = {} PROVE FALSE
    OBVIOUS
  <2>1. \A k \in 1..N : ~Gap(data, k)
    OBVIOUS
  <2>2. NoneEmpty(s.lines)
    BY <1>1, <2>1, NoGap
  <2>3. lines[x] = <<>> /\ x \in 1..Len(lines)
    OBVIOUS
  <2> HIDE DEF s, lines
  <2> QED BY <1>2, <1>3, <2>2, <2>3 DEF NoneEmpty
<1>5. gaps \in SUBSET Nat
  OBVIOUS
<1>6. PICK g \in gaps : \A k \in gaps : g <= k
  <2> HIDE DEF gaps
  <2> QED BY <1>4, <1>5, LeastNumber
<1>7. g \in 1..N /\ Gap(data, g) /\ \A k \in 1..N : Gap(data, k) => g <= k
  BY <1>6
<1>8. \A k \in 1..(g - 1) : k \in 1..N /\ ~(g <= k)
  BY <1>7
<1> QED BY <1>7, <1>8 DEF FirstGap

LEMMA FirstEmpty ==
  ASSUME NEW data \in Seq(Bytes), NEW g, FirstGap(data, g)
  PROVE  LET lines == Wire!LinesOf(data)
             e == Len(Wire!CutLines(data)[g].lines)
         IN  e \in 1..Len(lines) /\ lines[e] = <<>> /\ \A x \in 1..(e - 1) : lines[x] # <<>>
<1> DEFINE N == Len(data)
           lo == Wire!CutLines(data)[g - 1].lines
           hi == Wire!CutLines(data)[g].lines
           lines == Wire!LinesOf(data)
           e == Len(hi)
<1>1. g \in 1..N /\ g \in 0..N /\ g - 1 \in 0..N
  BY DEF FirstGap, Gap
<1>2. hi = Append(lo, <<>>)
  BY GapEmpty DEF FirstGap
<1>3. lo \in Seq(Seq(Bytes))
  BY <1>1, CutTypes
<1>4. Extended(hi, lines)
  BY <1>1, LinesBegin
<1>5. NoneEmpty(lo)
  BY <1>1, NoGap DEF FirstGap
<1>6. Len(lines) \in Nat
  <2>1. N \in 0..N
    OBVIOUS
  <2>2. Wire!CutLines(data)[N].lines \in Seq(Seq(Bytes)) /\ Wire!CutLines(data)[N].line \in Seq(Bytes)
    BY <2>1, CutTypes
  <2> QED BY <2>2 DEF Wire!LinesOf
<1> HIDE DEF lo, hi, lines
<1>7. Len(lo) \in Nat /\ e = Len(lo) + 1 /\ hi[e] = <<>> /\ \A x \in 1..Len(lo) : hi[x] = lo[x]
  BY <1>2, <1>3
<1>8. e \in 1..Len(lines) /\ lines[e] = hi[e] /\ \A x \in 1..(e - 1) : lines[x] = hi[x]
  BY <1>4, <1>6, <1>7 DEF Extended
<1>9. e \in 1..Len(lines) /\ lines[e] = <<>> /\ \A x \in 1..(e - 1) : lines[x] # <<>>
  BY <1>5, <1>7, <1>8 DEF NoneEmpty
<1> QED BY <1>9 DEF hi, lines

\* In a message whose lines end alike the header ends with the first empty line.
LEMMA UniformHeader ==
  ASSUME NEW data \in Seq(Bytes), Wire!Uniform(data), NEW g, FirstGap(data, g)
  PROVE  LET h == Wire!HeaderBoundary(data)
         IN  h \in Wire!LineEnds(data) /\ Len(Wire!CutLines(data)[h].lines) = Len(Wire!CutLines(data)[g].lines)
<1> DEFINE N == Len(data)
           crlf == Wire!Index(data, Wire!CRLF \o Wire!CRLF)
           lf == Wire!Index(data, <<"LF", "LF">>)
           h == Wire!HeaderBoundary(data)
           cut == Wire!CutLines(data)
           lines == Wire!LinesOf(data)
<1>1. /\ g \in 1..N /\ data[g] \in {"CR", "LF"}
      /\ ~(data[g] = "LF" /\ g > 1 /\ data[g - 1] = "CR")
      /\ g = 1 \/ data[g - 1] \in {"CR", "LF"}
      /\ \A k \in 1..(g - 1) : ~Gap(data, k)
  BY DEF FirstGap, Gap
<1>2. /\ crlf \in Nat /\ (crlf # 0 => BlankCRLF(data, crlf))
      /\ \A i : BlankCRLF(data, i) => crlf # 0 /\ crlf <= i
  BY IndexOfCRLF
<1>3. /\ lf \in Nat /\ (lf # 0 => BlankLF(data, lf))
      /\ \A i : BlankLF(data, i) => lf # 0 /\ lf <= i
  BY IndexOfLF
<1>4. h = IF crlf > 0 /\ (lf = 0 \/ crlf < lf) THEN crlf + 3 ELSE IF lf > 0 THEN lf + 1 ELSE 0
  BY DEF Wire!HeaderBoundary
<1>5. /\ lines # <<>> => lines[1] # <<>>
      /\ \/ \A i \in 1..N : data[i] # "CR"
         \/ \A i \in 1..N : (data[i] = "CR" <=> (i < N /\ data[i + 1] = "LF"))
  BY DEF Wire!Uniform
<1>6. g # 1
  <2> SUFFICES ASSUME g = 1 PROVE FALSE
    OBVIOUS
  <2> DEFINE e == Len(cut[g].lines)
             first == cut[0].lines
  <2>1. e \in 1..Len(lines) /\ lines[e] = <<>>
    BY FirstEmpty
  <2>2. e = 1
    <3>1. cut[g].lines = Append(cut[g - 1].lines, <<>>)
      BY GapEmpty DEF FirstGap
    <3>2. cut[0].lines = <<>> /\ g - 1 = 0
      BY CutLinesAre DEF Wire!NoLines
    <3>3. cut[g].lines = Append(<<>>, <<>>)
      BY <3>1, <3>2
    <3>4. Len(Append(<<>>, <<>>)) = 1
      OBVIOUS
    <3> QED BY <3>3, <3>4
  <2>3. lines # <<>>
    BY <2>1
  <2> HIDE DEF e, lines
  <2> QED BY <1>5, <2>1, <2>2, <2>3
<1>7. g - 1 \in 1..N /\ data[g - 1] \in {"CR", "LF"} /\ (g - 1) + 1 = g /\ g > 1 /\ N \in Nat /\ g <= N
  BY <1>1, <1>6
<1> HIDE DEF crlf, lf, h, cut, lines
<1>8. CASE \A i \in 1..N : data[i] # "CR"
  <2>1. data[g] = "LF" /\ data[g - 1] = "LF"
    BY <1>1, <1>7, <1>8
  <2>2. BlankLF(data, g - 1)
    BY <1>1, <1>7, <2>1 DEF BlankLF
  <2>3. crlf = 0
    BY <1>2, <1>8 DEF BlankCRLF
  <2>4. ASSUME NEW i, BlankLF(data, i) PROVE i \in Nat /\ g - 1 <= i
    <3>1. i \in 1..N /\ i + 1 \in 1..N /\ data[i] = "LF" /\ data[i + 1] = "LF" /\ (i + 1) - 1 = i
      BY <2>4 DEF BlankLF
    <3>2. Gap(data, i + 1)
      BY <3>1 DEF Gap
    <3>3. i + 1 \notin 1..(g - 1)
      BY <1>1, <3>2
    <3> QED BY <1>1, <3>1, <3>3
  <2>5. lf = g - 1
    <3>1. lf # 0 /\ lf <= g - 1
      BY <1>3, <2>2
    <3>2. g - 1 <= lf
      BY <1>3, <2>4, <3>1
    <3> QED BY <1>3, <1>7, <3>1, <3>2
  <2>6. h = g
    BY <1>4, <1>7, <2>3, <2>5
  <2>7. g \in Wire!LineEnds(data)
    BY <1>1, <2>1, LineEndIs
  <2> QED BY <2>6, <2>7 DEF h
<1>9. CASE \A i \in 1..N : (data[i] = "CR" <=> (i < N /\ data[i + 1] = "LF"))
  <2>1. data[g] = "CR"
    <3>1. data[g - 1] = "CR" <=> g - 1 < N /\ data[(g - 1) + 1] = "LF"
      BY <1>7, <1>9
    <3> QED BY <1>1, <1>7, <3>1
  <2>2. g < N /\ data[g + 1] = "LF"
    BY <1>1, <1>9, <2>1
  <2>3. data[g - 1] = "LF"
    <3>1. data[g - 1] = "CR" => data[(g - 1) + 1] = "LF"
      BY <1>7, <1>9
    <3> QED BY <1>7, <2>1, <3>1
  <2>4. g - 1 # 1
    <3> SUFFICES ASSUME g - 1 = 1 PROVE FALSE
      OBVIOUS
    <3>1. Gap(data, 1)
      BY <1>7, <2>3 DEF Gap
    <3> QED BY <1>1, <3>1
  <2>5. g - 2 \in 1..N /\ (g - 2) + 1 = g - 1 /\ (g - 2) + 2 = g /\ (g - 2) + 3 = g + 1 /\ g - 2 < N
    BY <1>7, <2>4
  <2>6. data[g - 2] = "CR"
    BY <1>9, <2>3, <2>5
  <2>7. BlankCRLF(data, g - 2)
    BY <2>1, <2>2, <2>3, <2>5, <2>6 DEF BlankCRLF
  <2>8. lf = 0
    <3> SUFFICES ASSUME lf # 0 PROVE FALSE
      OBVIOUS
    <3>1. lf \in 1..N /\ lf + 1 <= N /\ data[lf] = "LF" /\ data[lf + 1] = "LF"
      BY <1>3 DEF BlankLF
    <3>2. lf < N
      BY <1>7, <3>1
    <3>3. data[lf] = "CR"
      BY <1>9, <3>1, <3>2
    <3> QED BY <3>1, <3>3
  <2>9. ASSUME NEW i, BlankCRLF(data, i) PROVE i \in Nat /\ g - 2 <= i
    <3>1. i \in 1..N /\ i + 2 \in 1..N /\ data[i + 2] = "CR" /\ data[i + 1] = "LF" /\ (i + 2) - 1 = i + 1
      BY <2>9 DEF BlankCRLF
    <3>2. Gap(data, i + 2)
      BY <3>1 DEF Gap
    <3>3. i + 2 \notin 1..(g - 1)
      BY <1>1, <3>2
    <3> QED BY <1>1, <3>1, <3>3
  <2>10. crlf = g - 2
    <3>1. crlf # 0 /\ crlf <= g - 2
      BY <1>2, <2>7
    <3>2. g - 2 <= crlf
      BY <1>2, <2>9, <3>1
    <3> QED BY <1>2, <2>5, <3>1, <3>2
  <2>11. h = g + 1
    BY <1>4, <2>5, <2>8, <2>10
  <2>12. g + 1 \in Wire!LineEnds(data) /\ g + 1 \in 1..N /\ (g + 1) - 1 = g
    <3>1. g + 1 \in 1..N /\ (g + 1) - 1 = g
      BY <1>7, <2>2
    <3> QED BY <2>2, <3>1, LineEndIs
  <2>13. cut[g + 1] = cut[g]
    <3> DEFINE x == g + 1
    <3>1. x \in 1..N /\ x - 1 = g /\ data[x] = "LF" /\ x > 1 /\ data[x - 1] = "CR"
      BY <1>7, <2>1, <2>2, <2>12
    <3> HIDE DEF x
    <3>2. cut[x] = cut[x - 1]
      BY <3>1, CutStep DEF cut
    <3> QED BY <3>1, <3>2 DEF x
  <2> QED BY <2>11, <2>12, <2>13 DEF h, cut
<1> QED BY <1>5, <1>8, <1>9

LEMMA BeginningOf ==
  ASSUME NEW q \in Seq(Seq(Bytes)), NEW k \in Nat, k <= Len(q)
  PROVE  /\ SubSeq(q, 1, k) \in Seq(Seq(Bytes)) /\ Len(SubSeq(q, 1, k)) = k
         /\ \A x \in 1..k : SubSeq(q, 1, k)[x] = q[x]
OBVIOUS

LEMMA SameLines ==
  ASSUME NEW u \in Seq(Seq(Bytes)), NEW v \in Seq(Seq(Bytes)), NEW d, Len(u) = d, Len(v) = d,
         \A x \in 1..d : u[x] = v[x]
  PROVE  u = v
OBVIOUS

\* What RETR and TOP give a client, for any message and any number of lines.
LEMMA RetrievedAlways ==
  ASSUME NEW data \in Seq(Bytes), NEW n \in Nat PROVE Wire!Retrieved(data, n)
<1> DEFINE lines == Wire!LinesOf(data)
           empty == {i \in 1..Len(lines) : lines[i] = <<>>}
           cutoff == Wire!TopBytes(data, n)
           full == Wire!Receive(Wire!WriteMultiline(data))
           top == Wire!Receive(Wire!WriteMultiline(cutoff))
<1>1. full = Answered(lines)
  BY ReadBack
<1>2. PICK m \in 0..Len(data) :
        cutoff = SubSeq(data, 1, m) /\ (m = Len(data) \/ m \in Wire!LineEnds(data))
  BY TopIsCut
<1>3. cutoff \in Seq(Bytes)
  BY <1>2
<1>4. top = Answered(Wire!LinesOf(cutoff))
  <2> HIDE DEF cutoff
  <2> QED BY <1>3, ReadBack
<1>5. lines \in Seq(Seq(Bytes)) /\ Len(lines) \in Nat
  <2>1. Len(data) \in 0..Len(data)
    OBVIOUS
  <2>2. Wire!CutLines(data)[Len(data)].lines \in Seq(Seq(Bytes)) /\ Wire!CutLines(data)[Len(data)].line \in Seq(Bytes)
    BY <2>1, CutTypes
  <2> QED BY <2>2 DEF Wire!LinesOf
<1>6. Wire!IsPrefix(Wire!LinesOf(cutoff), lines)
  <2> DEFINE p == Wire!LinesOf(cutoff)
  <2>1. CASE m = Len(data)
    <3>1. cutoff = data
      BY <1>2, <2>1
    <3>2. p = lines
      BY <3>1
    <3> QED BY <1>5, <3>2 DEF Wire!IsPrefix
  <2>2. CASE m \in Wire!LineEnds(data)
    <3>1. p = Wire!CutLines(data)[m].lines
      BY <1>2, <2>2, LinesUpTo
    <3>2. p \in Seq(Seq(Bytes)) /\ Extended(p, lines)
      BY <3>1, CutTypes, LinesBegin
    <3> HIDE DEF p, lines
    <3>3. Len(p) <= Len(lines) /\ Len(p) \in Nat /\ \A x \in 1..Len(p) : lines[x] = p[x]
      BY <3>2 DEF Extended
    <3>4. SubSeq(p, 1, Len(p)) = SubSeq(lines, 1, Len(p))
      <4>1. /\ SubSeq(p, 1, Len(p)) \in Seq(Seq(Bytes)) /\ Len(SubSeq(p, 1, Len(p))) = Len(p)
            /\ \A x \in 1..Len(p) : SubSeq(p, 1, Len(p))[x] = p[x]
        BY <3>2, <3>3, BeginningOf
      <4>2. /\ SubSeq(lines, 1, Len(p)) \in Seq(Seq(Bytes)) /\ Len(SubSeq(lines, 1, Len(p))) = Len(p)
            /\ \A x \in 1..Len(p) : SubSeq(lines, 1, Len(p))[x] = lines[x]
        BY <1>5, <3>3, BeginningOf
      <4> QED BY <3>3, <4>1, <4>2, SameLines
    <3>5. Wire!IsPrefix(p, lines)
      BY <3>3, <3>4 DEF Wire!IsPrefix
    <3> QED BY <3>5 DEF p
  <2> QED BY <1>2, <2>1, <2>2
<1>7. ASSUME Wire!Uniform(data), empty # {}
      PROVE  Len(Wire!LinesOf(cutoff)) = Wire!Min({Len(lines), Wire!Min(empty) + n})
  <2>1. PICK x \in empty : TRUE
    BY <1>7
  <2>2. PICK g : FirstGap(data, g)
    <3>1. x \in 1..Len(lines) /\ lines[x] = <<>>
      OBVIOUS
    <3> QED BY <3>1, GapExists
  <2> DEFINE e == Len(Wire!CutLines(data)[g].lines)
             h == Wire!HeaderBoundary(data)
             all == Len(lines)
             size == Len(Wire!LinesOf(cutoff))
  <2>3. e \in 1..all /\ lines[e] = <<>> /\ \A k \in 1..(e - 1) : lines[k] # <<>>
    BY <2>2, FirstEmpty
  <2>4. Min(empty) = e
    <3>1. e \in empty /\ empty \in SUBSET Int
      BY <2>3
    <3>2. ASSUME NEW k \in empty PROVE e <= k
      <4>1. k \in 1..all /\ lines[k] = <<>>
        OBVIOUS
      <4>2. k \notin 1..(e - 1)
        BY <2>3, <4>1
      <4> QED BY <2>3, <4>1, <4>2
    <3> HIDE DEF empty, e
    <3> QED BY <3>1, <3>2, MinIs
  <2>5. h \in Wire!LineEnds(data) /\ Len(Wire!CutLines(data)[h].lines) = e
    BY <1>7, <2>2, UniformHeader
  <2>6. Count(data, h) = e
    <3>1. h \in 0..Len(data)
      BY <2>5, LineEndIs
    <3>2. Len(Wire!CutLines(data)[h].lines) = Count(data, h)
      BY <2>5, <3>1, LinesCounted
    <3> QED BY <2>5, <3>2
  <2>7. size = IF all <= Count(data, h) + n THEN all ELSE Count(data, h) + n
    BY <2>5, TopCount
  <2> HIDE DEF e, h, all, size
  <2>8. all \in Nat /\ e \in Nat
    BY <1>5, <2>3 DEF all
  <2>9. size = Min({all, e + n})
    <3>1. {all, e + n} \in SUBSET Int /\ size \in {all, e + n} /\ \A k \in {all, e + n} : size <= k
      BY <2>6, <2>7, <2>8
    <3> QED BY <3>1, MinIs
  <2> QED BY <2>4, <2>9, SameWireExtremes DEF all, size
<1> HIDE DEF lines, empty, cutoff, full, top
<1>8. /\ full.lines = lines /\ full.done /\ full.rest = <<>>
      /\ top.lines = Wire!LinesOf(cutoff) /\ top.done /\ top.rest = <<>>
  BY <1>1, <1>4 DEF Answered
<1> QED BY <1>6, <1>7, <1>8 DEF Wire!Retrieved, lines, empty, cutoff, full, top

\* A message that is fed to the writer is a sequence of bytes.
WireInv == job = "wire" => fed \in Seq(Bytes)

LEMMA WireInvariant == FeedsSpec => []WireInv
<1>1. FeedsInit => WireInv
  BY DEF FeedsInit, InitFeed, WireInv
<1>2. WireInv /\ [FeedsNext]_vars => WireInv'
  <2> SUFFICES ASSUME WireInv, [FeedsNext]_vars PROVE WireInv'
    OBVIOUS
  <2>1. CASE UNCHANGED vars
    BY <2>1 DEF WireInv, vars, feedVars
  <2>2. CASE DataStep
    BY <2>2 DEF WireInv, DataStep, feedVars
  <2>3. ASSUME NEW piece \in CalendarLines, FeedCalendar(piece) PROVE WireInv'
    BY <2>3 DEF WireInv, FeedCalendar
  <2>4. ASSUME NEW ev \in CalendarEvents, FeedHistory(ev) PROVE WireInv'
    BY <2>4 DEF WireInv, FeedHistory
  <2>5. ASSUME NEW token \in Tokens, FeedHtml(token) PROVE WireInv'
    BY <2>5 DEF WireInv, FeedHtml
  <2>6. ASSUME NEW req \in Requests, NEW fails \in BOOLEAN, FeedHttp(req, fails) PROVE WireInv'
    BY <2>6 DEF WireInv, FeedHttp
  <2>7. ASSUME NEW byte \in Bytes, FeedWire(byte) PROVE WireInv'
    BY <2>7 DEF WireInv, FeedWire
  <2> QED BY <2>1, <2>2, <2>3, <2>4, <2>5, <2>6, <2>7 DEF FeedsNext
<1> QED BY <1>1, <1>2, PTL DEF FeedsSpec

\* A POP3 client reads back every message of any length, whatever dots and line
\* endings it holds, and stays in step with the server; TOP gives it the header and
\* the number of lines it asked for (writeMultiline, topBytes).
THEOREM FeedsMessagesRetrieved == FeedsSpec => []MessagesRetrieved
<1>1. WireInv => MessagesRetrieved
  BY RetrievedAlways DEF WireInv, MessagesRetrieved
<1> QED BY <1>1, WireInvariant, PTL

=============================================================================
