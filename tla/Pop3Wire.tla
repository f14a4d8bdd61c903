------------------------------ MODULE Pop3Wire ------------------------------
(***************************************************************************)
(* pop3server: how a message is written as a multi-line response (RETR,    *)
(* TOP).  A message is a sequence of bytes: "CR", "LF", "." and "x" for    *)
(* every other byte.                                                       *)
(***************************************************************************)
EXTENDS Integers, Sequences, FiniteSets, FiniteSetsExt, SequencesExt

EOL == {"CR", "LF"}
CRLF == <<"CR", "LF">>

\* Mutant: a bare CR does not start a line.
LineStartLF(data, i) == i = 1 \/ data[i - 1] = "LF"

\* lineStart at byte i
LineStart(data, i) == i = 1 \/ data[i - 1] \in EOL

\* One turn of the loop of writeMultiline.  The LF of a CR LF is skipped.
WrittenByte(data, i) ==
    IF data[i] = "LF" /\ i > 1 /\ data[i - 1] = "CR" THEN <<>>
    ELSE IF data[i] \in EOL THEN CRLF
    ELSE IF data[i] = "." /\ LineStart(data, i) THEN <<".", ".">> ELSE <<data[i]>>

\* What the loop has written after each byte.
Written(data) ==
    LET w[i \in 0..Len(data)] == IF i = 0 THEN <<>> ELSE w[i - 1] \o WrittenByte(data, i)
    IN  w

\* writeMultiline
WriteMultiline(data) ==
    Written(data)[Len(data)] \o (IF LineStart(data, Len(data) + 1) THEN <<>> ELSE CRLF) \o <<".">> \o CRLF

\* bytes.Index, 0 when there is none.
Index(data, s) ==
    LET at == {i \in 1..(Len(data) + 1 - Len(s)) : SubSeq(data, i, i + Len(s) - 1) = s} IN IF at = {} THEN 0 ELSE Min(at)

\* headerBoundary: the last byte of the empty line after the header, 0 without one.
HeaderBoundary(data) ==
    LET crlf == Index(data, CRLF \o CRLF)
        lf == Index(data, <<"LF", "LF">>)
    IN  IF crlf > 0 /\ (lf = 0 \/ crlf < lf) THEN crlf + 3 ELSE IF lf > 0 THEN lf + 1 ELSE 0

\* The bytes after which the lines of data end.
LineEnds(data) ==
    {i \in 1..Len(data) :
        data[i] = "LF" \/ (data[i] = "CR" /\ ~(i < Len(data) /\ data[i + 1] = "LF"))}

\* topBytes
TopBytes(data, n) ==
    LET header == HeaderBoundary(data)
        ends == {i \in LineEnds(data) : i > header}
        last == {i \in ends : Cardinality({j \in ends : j <= i}) = n}
    IN  IF header = 0 THEN data
        ELSE IF n = 0 THEN SubSeq(data, 1, header)
        ELSE IF last = {} THEN data ELSE SubSeq(data, 1, Max(last))

-----------------------------------------------------------------------------
(* What a client makes of it. *)

\* A message cut into lines at CR, LF and CR LF: the lines that have ended and the
\* one that has begun, after each byte.
NoLines == [lines |-> <<>>, line |-> <<>>]
CutByte(s, data, i) ==
    IF data[i] = "LF" /\ i > 1 /\ data[i - 1] = "CR" THEN s
    ELSE IF data[i] \in EOL THEN [lines |-> Append(s.lines, s.line), line |-> <<>>]
    ELSE [s EXCEPT !.line = Append(@, data[i])]

CutLines(data) ==
    LET cut[i \in 0..Len(data)] == IF i = 0 THEN NoLines ELSE CutByte(cut[i - 1], data, i)
    IN  cut

LinesOf(data) ==
    LET s == CutLines(data)[Len(data)] IN IF s.line = <<>> THEN s.lines ELSE Append(s.lines, s.line)

\* The client's reader: lines end with CRLF, "." ends the response and a leading
\* dot is taken off every other line; rest is what it would take for the next one.
NoAnswer == [lines |-> <<>>, line |-> <<>>, done |-> FALSE, rest |-> <<>>]
ReceiveByte(s, c) ==
    LET line == Front(s.line)
    IN  IF s.done THEN [s EXCEPT !.rest = Append(@, c)]
        ELSE IF c # "LF" \/ s.line = <<>> \/ Last(s.line) # "CR" THEN [s EXCEPT !.line = Append(@, c)]
        ELSE IF line = <<".">> THEN [s EXCEPT !.done = TRUE]
        ELSE [s EXCEPT !.line = <<>>,
                       !.lines = Append(@, IF line # <<>> /\ line[1] = "." THEN Tail(line) ELSE line)]

Received(wire) ==
    LET r[i \in 0..Len(wire)] == IF i = 0 THEN NoAnswer ELSE ReceiveByte(r[i - 1], wire[i])
    IN  r

Receive(wire) == Received(wire)[Len(wire)]

\* Lines that all end alike, in a message that starts with a header field.
Uniform(data) ==
    /\ LinesOf(data) # <<>> => LinesOf(data)[1] # <<>>
    /\ \/ \A i \in 1..Len(data) : data[i] # "CR"
       \/ \A i \in 1..Len(data) : (data[i] = "CR" <=> (i < Len(data) /\ data[i + 1] = "LF"))

\* A client reads back exactly the lines of the message, whatever dots and line
\* endings it holds, and stays in step with the server; TOP n gives it the header,
\* the empty line and the first n lines after it.
Retrieved(data, n) ==
    LET lines == LinesOf(data)
        empty == {i \in 1..Len(lines) : lines[i] = <<>>}
        full == Receive(WriteMultiline(data))
        top == Receive(WriteMultiline(TopBytes(data, n)))
    IN  /\ full.lines = lines /\ full.done /\ full.rest = <<>>
        /\ top.done /\ top.rest = <<>> /\ IsPrefix(top.lines, lines)
        /\ Uniform(data) /\ empty # {} =>
             Len(top.lines) = Min({Len(lines), Min(empty) + n})
=============================================================================
