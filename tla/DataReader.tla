----------------------------- MODULE DataReader -----------------------------
(***************************************************************************)
(* The body of a DATA command: go-smtp's dataReader, which undoes          *)
(* dot-stuffing, finds the end marker and enforces the size limit, read by *)
(* Session.Data in calls of any buffer size, and the Discard that handleData *)
(* runs afterwards so that the next command is read from the right place.  *)
(*                                                                         *)
(* A byte is CR, LF, DOT or X (any other).  The client stuffs a payload,   *)
(* ends it with the end marker and may have sent its next command already. *)
(* The connection may break anywhere: the input is a prefix of the wire.   *)
(* Left out: the line limit below this reader (lineLimitReader).           *)
(***************************************************************************)
EXTENDS Naturals, Sequences, FiniteSetsExt, SequencesExt

CONSTANTS Payloads,      \* what clients send, sequences of bytes
          MaxBytes,      \* Server.MaxMessageBytes
          BufferSizes    \* len(b) of the Read calls

CR == "CR"
LF == "LF"
DOT == "."
X == "x"
CRLF == <<CR, LF>>

VARIABLES payload,   \* ghost: what the client wants to send
          input,     \* what the connection still has to give
          state,     \* dataReader.state
          left,      \* dataReader.n
          out,       \* Session.Data's buffer
          verdict,   \* "none", "message", "toolarge", "cut"
          phase,     \* "reading", "discarding", "done"
          seen       \* ghost: the bytes consumed

vars == <<payload, input, state, left, out, verdict, phase, seen>>

-----------------------------------------------------------------------------
(* The client (RFC 5321, 4.5.2). *)

AtLineStart(p, i) == i = 1 \/ (i > 2 /\ p[i - 1] = LF /\ p[i - 2] = CR)

\* How byte i is transmitted, and the first i bytes.
StuffedByte(p, i) == IF p[i] = DOT /\ AtLineStart(p, i) THEN <<DOT, DOT>> ELSE <<p[i]>>

StuffedUpTo(p) ==
    LET f[i \in 0..Len(p)] == IF i = 0 THEN <<>> ELSE f[i - 1] \o StuffedByte(p, i)
    IN  f

EndsLine(p) == p = <<>> \/ AtLineStart(Append(p, X), Len(p) + 1)

\* The payload as transmitted: its last line is ended if it is not.
Sent(p) == IF EndsLine(p) THEN p ELSE p \o CRLF

NextCommand == <<X, X>>
Wire(p) == StuffedUpTo(Sent(p))[Len(Sent(p))] \o <<DOT>> \o CRLF \o NextCommand

Init ==
    /\ payload \in Payloads
    /\ \E k \in 0..Len(Wire(payload)) : input = SubSeq(Wire(payload), 1, k)
    /\ state = "beginLine"
    /\ left = MaxBytes + 1
    /\ out = <<>>
    /\ verdict = "none"
    /\ phase = "reading"
    /\ seen = <<>>

-----------------------------------------------------------------------------
\* Mutant: a dot in any state of a line is taken for a leading one.
NextStateDotAnywhere(s, c) ==
    CASE s = "beginLine" -> IF c = DOT THEN "dot" ELSE IF c = CR THEN "cr" ELSE "data"
      [] s = "dot" -> IF c = CR THEN "dotCR" ELSE "data"
      [] s = "dotCR" -> IF c = LF THEN "eof" ELSE "data"
      [] s = "cr" -> IF c = LF THEN "beginLine" ELSE "data"
      [] s = "data" -> IF c = CR THEN "cr" ELSE IF c = DOT THEN "dot" ELSE "data"
      [] s = "eof" -> "eof"

\* The switch of dataReader.Read.
NextState(s, c) ==
    CASE s = "beginLine" -> IF c = DOT THEN "dot" ELSE IF c = CR THEN "cr" ELSE "data"
      [] s = "dot" -> IF c = CR THEN "dotCR" ELSE "data"
      [] s = "dotCR" -> IF c = LF THEN "eof" ELSE "data"
      [] s = "cr" -> IF c = LF THEN "beginLine" ELSE "data"
      [] s = "data" -> IF c = CR THEN "cr" ELSE "data"
      [] s = "eof" -> "eof"

\* continue instead of b[n] = c; n++
Elided(s, c) ==
    \/ s = "beginLine" /\ c = DOT
    \/ s = "dot" /\ c = CR
    \/ s = "dotCR" /\ c = LF

\* One turn of Read's loop.
LoopStep(r, c) ==
    [state |-> NextState(r.state, c),
     copied |-> IF Elided(r.state, c) THEN r.copied ELSE Append(r.copied, c)]

\* The turns of the loop over these bytes.
Turns(s, bytes) ==
    LET turn[i \in 0..Len(bytes)] ==
            IF i = 0 THEN [state |-> s, copied |-> <<>>] ELSE LoopStep(turn[i - 1], bytes[i])
    IN  turn

\* The loop of Read: its state and what it has copied after k bytes.
Loop(k) == Turns(state, input)[k]

\* Where the loop stops for a buffer of b bytes, or the whole input.
Stop(b) ==
    Min({Len(input)} \cup
        {k \in 0..Len(input) : Loop(k).state = "eof" \/ Len(Loop(k).copied) = b})

Consume(k) ==
    /\ state' = Loop(k).state
    /\ input' = SubSeq(input, k + 1, Len(input))
    /\ seen' = seen \o SubSeq(input, 1, k)

\* Mutant: no sentinel byte, so a message of exactly MaxBytes is too large.
AllowanceWithoutSentinel == IF left > 1 THEN left - 1 ELSE 0

\* How many bytes the reader may still return.
Allowance == left

\* MaxBytes + 1 bytes are in the buffer: io.LimitReader ends the message, as
\* Read itself would with ErrDataTooLarge, and Session.Data finds it too large.
ReadTooLarge ==
    /\ phase = "reading"
    /\ Allowance = 0
    /\ verdict' = "toolarge"
    /\ phase' = "discarding"
    /\ UNCHANGED <<payload, input, state, left, out, seen>>

\* r.n -= n
Remaining(n) == left - n

\* What Session.Data makes of the end of a Read of b bytes that stopped after k.
VerdictAfter(k, b, total) ==
    IF Loop(k).state = "eof" THEN IF total > MaxBytes THEN "toolarge" ELSE "message"
    ELSE IF Len(Loop(k).copied) < b THEN "cut" ELSE "none"

\* One Read of Session.Data's buffer.
Read ==
    /\ phase = "reading"
    /\ Allowance > 0
    /\ \E size \in BufferSizes :
         LET b == IF size > Allowance THEN Allowance ELSE size
             k == Stop(b)
             n == Len(Loop(k).copied)
         IN  /\ Consume(k)
             /\ out' = out \o Loop(k).copied
             /\ left' = Remaining(n)
             /\ verdict' = VerdictAfter(k, b, Len(out) + n)
             /\ phase' = IF VerdictAfter(k, b, Len(out) + n) = "none" THEN "reading"
                                                                     ELSE "discarding"
    /\ UNCHANGED payload

\* Mutant: the rest of a message that is too large is left to the next command.
DiscardNothing ==
    /\ phase = "discarding"
    /\ phase' = "done"
    /\ UNCHANGED <<payload, input, state, left, out, verdict, seen>>

\* r.limited = false; io.Copy(Discard, r)
Discard ==
    /\ phase = "discarding"
    /\ IF state = "eof" THEN UNCHANGED <<state, input, seen>> ELSE Consume(Stop(Len(input) + 1))
    /\ phase' = "done"
    /\ UNCHANGED <<payload, left, out, verdict>>

Over == phase = "done" /\ UNCHANGED vars

Next == ReadTooLarge \/ Read \/ Discard \/ Over

Spec == Init /\ [][Next]_vars

-----------------------------------------------------------------------------
\* Every variable keeps its type, and the buffer never grows past the limit
\* and its sentinel byte.
TypeOK ==
    /\ state \in {"beginLine", "dot", "dotCR", "cr", "data", "eof"}
    /\ left \in 0..(MaxBytes + 1)
    /\ Len(out) + left = MaxBytes + 1
    /\ verdict \in {"none", "message", "toolarge", "cut"}
    /\ phase \in {"reading", "discarding", "done"}

Complete == seen \o input = Wire(payload)

\* What is stored is what the client sent: through stuffing, any split into
\* Read calls and any break of the connection, a message that is accepted is
\* the payload, and it is never longer than MaxBytes.
Faithful == verdict = "message" => out = Sent(payload) /\ Len(out) <= MaxBytes

\* The limit is exact: what was read in full is refused only when it is longer
\* than MaxBytes, and nothing is refused as cut when all of it has arrived.
LimitExact ==
    /\ verdict = "toolarge" => Len(out) > MaxBytes /\ Len(Sent(payload)) > MaxBytes
    /\ Complete => verdict # "cut"

\* After DATA the connection is at the next command: nothing of the message is
\* taken for a command and nothing of the next command for the message.
InSync == phase = "done" /\ Complete => input = NextCommand

\* The comment on the state machine: it detects End-of-Data, <CR><LF>.<CR><LF>.
EndDetected ==
    (\E i \in 1..(Len(seen) - 4) : SubSeq(seen, i, i + 4) = CRLF \o <<DOT>> \o CRLF)
        => state = "eof"
=============================================================================
