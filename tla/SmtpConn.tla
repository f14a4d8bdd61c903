------------------------------ MODULE SmtpConn ------------------------------
(***************************************************************************)
(* One SMTP connection: go-smtp's Conn with its command handlers, the      *)
(* goroutine that BDAT starts to run Session.Data on a pipe, Hoomail's     *)
(* session, and the shutdown of the service from another goroutine.        *)
(*                                                                         *)
(* Actors: the handler goroutine (location hpc), one callback goroutine    *)
(* per BDAT transfer (slots), and the goroutine in Service.Shutdown (sd).  *)
(* The client is the environment: any command may come at any time, and    *)
(* the connection may break at any read.  A command whose bytes are        *)
(* already buffered is still handled after the transport was closed.       *)
(*                                                                         *)
(* Left out: the text of replies, MAIL/RCPT parameters (a command that a   *)
(* parameter makes fail is Refuse), AUTH, STARTTLS, LMTP and BINARYMIME    *)
(* (not enabled by Hoomail), and panics of the callback.                   *)
(***************************************************************************)
EXTENDS Naturals, Sequences, FiniteSets

CONSTANTS
    RawAddresses,    \* what RCPT TO may carry
    Normalize,       \* strings.ToLower(strings.TrimSpace(raw)), as a function
    HeaderTo,        \* normalized To and Cc addresses of the message
    MaxRecipients,   \* Server.MaxRecipients (100)
    MaxBytes,        \* Server.MaxMessageBytes (25 MiB)
    ChunkSizes,      \* sizes a BDAT command may declare
    ErrThreshold,    \* errThreshold (3)
    Slots,           \* bound: callback goroutines alive at once
    MaxChunks,       \* bound: chunks of one transaction
    Shutdowns        \* whether the service may be shut down

None == 0

ASSUME SmtpAssumption ==
    /\ Slots \subseteq Nat \ {None}
    /\ MaxRecipients \in Nat \ {0} /\ MaxBytes \in Nat /\ MaxChunks \in Nat
    /\ ErrThreshold \in Nat
    /\ ChunkSizes \subseteq Nat
    /\ Shutdowns \in BOOLEAN

VARIABLES
    hpc,        \* where the handler goroutine is
    helo,       \* Conn.helo # ""
    from,       \* Conn.fromReceived
    rcpts,      \* Conn.recipients
    session,    \* session.recipients
    errCount,   \* Conn.errCount
    bytes,      \* Conn.bytesReceived
    pipe,       \* Conn.bdatPipe: the slot of the open transfer
    done,       \* Conn.dataDone: the slot waitBDAT waits for
    chunk,      \* the BDAT command in progress: [slot, size, last]
    after,      \* where the handler goes when reset or Close is through
    end,        \* each slot's pipe: "open", "eof" or "error"
    cb,         \* each slot's callback: "idle", "reading", "storing", "ok", "failed"
    got,        \* chunks each callback has read
    load,       \* the recipients each callback has taken from the session
    transport,  \* "up" or "closed"
    sd,         \* Service.Shutdown: "no", "cancelled", "aborted", "closed", "returned"
    chunks,     \* ghost: chunks the client sent in this transaction
    envelope,   \* ghost: recipients accepted since the last accepted MAIL
    answer,     \* ghost: the final reply of the transaction
    committed,  \* ghost: StoreMessage has committed in this transaction
    delivered   \* ghost: the last message committed by StoreMessage

connVars == <<helo, from, rcpts, session, errCount>>
bdatVars == <<bytes, pipe, done, chunk, end, cb, got, load, chunks>>
vars == <<hpc, connVars, bdatVars, after, transport, sd, envelope, answer, committed, delivered>>

Nothing == [fallback |-> FALSE, complete |-> TRUE, exact |-> TRUE]
NoChunk == [slot |-> None, size |-> 0, last |-> FALSE]

Init ==
    /\ hpc = "read"
    /\ helo = FALSE /\ from = FALSE /\ rcpts = <<>> /\ session = <<>> /\ errCount = 0
    /\ bytes = 0 /\ pipe = None /\ done = None
    /\ chunk = NoChunk
    /\ after = "read"
    /\ end = [k \in Slots |-> "open"]
    /\ cb = [k \in Slots |-> "idle"]
    /\ got = [k \in Slots |-> 0]
    /\ load = [k \in Slots |-> <<>>]
    /\ transport = "up"
    /\ sd = "no"
    /\ chunks = 0 /\ envelope = {} /\ answer = "none" /\ committed = FALSE
    /\ delivered = Nothing

\* session.ctx: baseCancel cancels its parent, session.Logout cancels it.
Cancelled == sd # "no" \/ hpc = "ended"
Finished(k) == cb[k] \in {"idle", "ok", "failed"}

\* pipe.CloseWithError and pipe.Close: the first close wins.
ClosePipe(k, how) == [end EXCEPT ![k] = IF @ = "open" THEN how ELSE @]

-----------------------------------------------------------------------------
(* Reading commands. *)

\* readLine: SetReadDeadline succeeds only on a transport that is not closed.
ArmRead ==
    /\ hpc = "read"
    /\ transport = "up"
    /\ hpc' = "line"
    /\ UNCHANGED <<connVars, bdatVars, after, transport, sd, envelope, answer, committed, delivered>>

\* Mutant: reset and Close forget the pipe without closing it.
AbortLeavesPipe(next) ==
    /\ pipe' = None
    /\ UNCHANGED end
    /\ after' = next
    /\ hpc' = "wait"

\* reset and Close both abort the open transfer and then wait for its callback.
Abort(next) ==
    /\ pipe' = None
    /\ end' = IF pipe = None THEN end ELSE ClosePipe(pipe, "error")
    /\ after' = next
    /\ hpc' = "wait"

\* EOF, timeout, a line too long, a deadline on a closed transport, QUIT.
Leave ==
    /\ hpc = "line" \/ (hpc = "read" /\ transport = "closed")
    /\ Abort("ended")
    /\ UNCHANGED <<connVars, bytes, done, chunk, cb, got, load, chunks, transport, sd,
                   envelope, answer, committed, delivered>>

\* protocolError: bad syntax closes the connection once there was too much of it.
ProtocolError ==
    /\ hpc = "line"
    /\ errCount' = errCount + 1
    /\ IF errCount + 1 > ErrThreshold
       THEN Abort("ended")
       ELSE hpc' = "read" /\ UNCHANGED <<pipe, end, after>>
    /\ UNCHANGED <<helo, from, rcpts, session, bytes, done, chunk, cb, got, load, chunks,
                   transport, sd, envelope, answer, committed, delivered>>

\* A command that is answered and changes nothing: NOOP, VRFY, one out of
\* sequence, one with parameters the server does not take.
Refuse ==
    /\ hpc = "line"
    /\ hpc' = "read"
    /\ UNCHANGED <<connVars, bdatVars, after, transport, sd, envelope, answer, committed, delivered>>

\* HELO and EHLO: the first creates the session, a later one resets it.
Greet ==
    /\ hpc = "line"
    /\ helo' = TRUE
    /\ IF helo THEN Abort("read") ELSE hpc' = "read" /\ UNCHANGED <<pipe, end, after>>
    /\ UNCHANGED <<from, rcpts, session, errCount, bytes, done, chunk, cb, got, load, chunks,
                   transport, sd, envelope, answer, committed, delivered>>

\* Mutant: session.Mail keeps the recipients it has.
MailKeepsRecipients ==
    /\ hpc = "line"
    /\ helo
    /\ pipe = None
    /\ from' = TRUE
    /\ envelope' = {}
    /\ answer' = "none"
    /\ committed' = FALSE
    /\ hpc' = "read"
    /\ UNCHANGED <<helo, rcpts, session, errCount, bdatVars, after, transport, sd, delivered>>

\* session.Mail drops the recipients of the session, and only of the session.
Mail ==
    /\ hpc = "line"
    /\ helo
    /\ pipe = None
    /\ from' = TRUE
    /\ session' = <<>>
    /\ envelope' = {}
    /\ answer' = "none"
    /\ committed' = FALSE
    /\ hpc' = "read"
    /\ UNCHANGED <<helo, rcpts, errCount, bdatVars, after, transport, sd, delivered>>

Rcpt ==
    /\ hpc = "line"
    /\ from
    /\ pipe = None
    /\ Len(rcpts) < MaxRecipients
    /\ \E raw \in RawAddresses : /\ session' = Append(session, raw)
                                 /\ rcpts' = Append(rcpts, raw)
                                 /\ envelope' = envelope \cup {Normalize[raw]}
    /\ hpc' = "read"
    /\ UNCHANGED <<helo, from, errCount, bdatVars, after, transport, sd, answer, committed, delivered>>

Rset ==
    /\ hpc = "line"
    /\ Abort("read")
    /\ UNCHANGED <<connVars, bytes, done, chunk, cb, got, load, chunks, transport, sd,
                   envelope, answer, committed, delivered>>

\* Mutant: the cleanup does not wait for the callback.
WaitBDATSkipped ==
    /\ hpc = "wait"
    /\ done' = None
    /\ hpc' = after
    /\ from' = FALSE
    /\ rcpts' = <<>>
    /\ session' = <<>>
    /\ bytes' = 0
    /\ chunks' = 0
    /\ chunk' = NoChunk
    /\ after' = "read"
    /\ transport' = IF after = "ended" THEN "closed" ELSE transport
    /\ UNCHANGED <<helo, errCount, pipe, end, cb, got, load, sd, envelope, answer, committed,
                   delivered>>

\* waitBDAT, then the cleanup of reset or of Close.
WaitBDAT ==
    /\ hpc = "wait"
    /\ done # None => Finished(done)
    /\ done' = None
    /\ hpc' = after
    /\ from' = FALSE
    /\ rcpts' = <<>>
    /\ session' = <<>>
    /\ bytes' = 0
    /\ chunks' = 0
    /\ chunk' = NoChunk
    /\ after' = "read"
    /\ transport' = IF after = "ended" THEN "closed" ELSE transport
    /\ UNCHANGED <<helo, errCount, pipe, end, cb, got, load, sd, envelope, answer, committed,
                   delivered>>

-----------------------------------------------------------------------------
(* DATA: the handler itself runs session.Data on the connection. *)

Data ==
    /\ hpc = "line"
    /\ pipe = None
    /\ from
    /\ rcpts # <<>>
    /\ hpc' = "data"
    /\ UNCHANGED <<connVars, bdatVars, after, transport, sd, envelope, answer, committed, delivered>>

\* The end marker is read, the message parses, StoreMessage is called.
DataRead ==
    /\ hpc = "data"
    /\ ~Cancelled
    /\ hpc' = "datastore"
    /\ UNCHANGED <<connVars, bdatVars, after, transport, sd, envelope, answer, committed, delivered>>

\* Too large, cut off, not parsable, or not stored: 552, 554 or 451.
DataFails ==
    /\ hpc \in {"data", "datastore"}
    /\ answer' = "failed"
    /\ Abort("read")
    /\ UNCHANGED <<connVars, bytes, done, chunk, cb, got, load, chunks, transport, sd,
                   envelope, committed, delivered>>

\* normalizedRecipients: the envelope, or To and Cc when it is empty.
Recipients(env) ==
    IF env = <<>> THEN HeaderTo ELSE {Normalize[env[i]] : i \in DOMAIN env}

\* What the properties tell apart in a delivery.
Delivery(env, complete) ==
    [fallback |-> env = <<>>, complete |-> complete, exact |-> Recipients(env) = envelope]

\* StoreMessage has committed: 250 OK: queued.
DataStored ==
    /\ hpc = "datastore"
    /\ delivered' = Delivery(session, TRUE)
    /\ committed' = TRUE
    /\ answer' = "queued"
    /\ Abort("read")
    /\ UNCHANGED <<connVars, bytes, done, chunk, cb, got, load, chunks, transport, sd, envelope>>

-----------------------------------------------------------------------------
(* BDAT: the chunks go through a pipe to a callback goroutine. *)

BdatTooLarge ==
    /\ hpc = "line"
    /\ from
    /\ rcpts # <<>>
    /\ \E size \in ChunkSizes : bytes + size > MaxBytes
    /\ answer' = "failed"
    /\ Abort("read")
    /\ UNCHANGED <<connVars, bytes, done, chunk, cb, got, load, chunks, transport, sd,
                   envelope, committed, delivered>>

\* startBDAT: the open transfer, or a new pipe, callback and dataDone.
StartBDAT(k) ==
    \/ /\ k = pipe
       /\ UNCHANGED <<pipe, done, end, cb, got, load>>
    \/ /\ pipe = None
       /\ Finished(k)
       /\ \A j \in Slots : j < k => ~Finished(j)
       /\ pipe' = k
       /\ done' = k
       /\ end' = [end EXCEPT ![k] = "open"]
       /\ cb' = [cb EXCEPT ![k] = "reading"]
       /\ UNCHANGED <<got, load>>

Bdat ==
    /\ hpc = "line"
    /\ from
    /\ rcpts # <<>>
    /\ chunks < MaxChunks
    /\ \E k \in Slots, size \in ChunkSizes, last \in BOOLEAN :
         /\ bytes + size <= MaxBytes
         /\ StartBDAT(k)
         /\ chunk' = [slot |-> k, size |-> size, last |-> last]
    /\ chunks' = chunks + 1
    /\ hpc' = "chunk"
    /\ UNCHANGED <<connVars, bytes, after, transport, sd, envelope, answer, committed, delivered>>

\* io.Copy has passed the whole chunk on; an empty chunk touches no pipe.
ChunkCopied ==
    /\ hpc = "chunk"
    /\ \/ chunk.size = 0
       \/ end[chunk.slot] = "open" /\ cb[chunk.slot] = "reading"
    /\ got' = [got EXCEPT ![chunk.slot] = IF cb[chunk.slot] = "reading" THEN @ + 1 ELSE @]
    /\ bytes' = bytes + chunk.size
    /\ hpc' = IF chunk.last THEN "close" ELSE "read"
    /\ UNCHANGED <<connVars, pipe, done, chunk, end, cb, load, chunks, after, transport, sd,
                   envelope, answer, committed, delivered>>

\* Mutant: the end of the connection is taken for the end of the chunk.
ChunkCutAccepted ==
    /\ hpc = "chunk"
    /\ bytes' = bytes + chunk.size
    /\ hpc' = IF chunk.last THEN "close" ELSE "read"
    /\ UNCHANGED <<connVars, pipe, done, chunk, end, cb, got, load, chunks, after, transport,
                   sd, envelope, answer, committed, delivered>>

\* The connection ends inside the chunk, or the pipe takes no more: the pipe
\* gets an error and the transaction is reset.
ChunkFails ==
    /\ hpc = "chunk"
    /\ answer' = "failed"
    /\ Abort("read")
    /\ UNCHANGED <<connVars, bytes, done, chunk, cb, got, load, chunks, transport, sd,
                   envelope, committed, delivered>>

\* bdatPipe.Close() after the chunk marked LAST.
CloseLast ==
    /\ hpc = "close"
    /\ end' = ClosePipe(chunk.slot, "eof")
    /\ hpc' = "result"
    /\ UNCHANGED <<connVars, bytes, pipe, done, chunk, cb, got, load, chunks, after, transport,
                   sd, envelope, answer, committed, delivered>>

\* Mutant: the callback's error does not reach the reply.
ResultIgnored ==
    /\ hpc = "result"
    /\ cb[chunk.slot] \in {"ok", "failed"}
    /\ answer' = "queued"
    /\ Abort("read")
    /\ UNCHANGED <<connVars, bytes, done, chunk, cb, got, load, chunks, transport, sd,
                   envelope, committed, delivered>>

\* err := <-dataResult, the reply, and reset.
Result ==
    /\ hpc = "result"
    /\ cb[chunk.slot] \in {"ok", "failed"}
    /\ answer' = IF cb[chunk.slot] = "ok" THEN "queued" ELSE "failed"
    /\ Abort("read")
    /\ UNCHANGED <<connVars, bytes, done, chunk, cb, got, load, chunks, transport, sd,
                   envelope, committed, delivered>>

\* The callback has read to EOF, the message parses, StoreMessage is called
\* with the recipients the session has at this moment.
CallbackRead(k) ==
    /\ cb[k] = "reading"
    /\ end[k] = "eof"
    /\ ~Cancelled
    /\ cb' = [cb EXCEPT ![k] = "storing"]
    /\ load' = [load EXCEPT ![k] = session]
    /\ UNCHANGED <<hpc, connVars, bytes, pipe, done, chunk, end, got, chunks, after, transport,
                   sd, envelope, answer, committed, delivered>>

\* The pipe was closed with an error, the message does not parse, the context
\* is cancelled, or StoreMessage fails.
CallbackFails(k) ==
    /\ cb[k] = "storing" \/ (cb[k] = "reading" /\ end[k] # "open")
    /\ cb' = [cb EXCEPT ![k] = "failed"]
    /\ got' = [got EXCEPT ![k] = 0]
    /\ load' = [load EXCEPT ![k] = <<>>]
    /\ UNCHANGED <<hpc, connVars, bytes, pipe, done, chunk, end, chunks, after,
                   transport, sd, envelope, answer, committed, delivered>>

CallbackStores(k) ==
    /\ cb[k] = "storing"
    /\ cb' = [cb EXCEPT ![k] = "ok"]
    /\ delivered' = Delivery(load[k], got[k] = chunks)
    /\ committed' = TRUE
    /\ got' = [got EXCEPT ![k] = 0]
    /\ load' = [load EXCEPT ![k] = <<>>]
    /\ UNCHANGED <<hpc, connVars, bytes, pipe, done, chunk, end, chunks, after, transport, sd,
                   envelope, answer>>

-----------------------------------------------------------------------------
(* Service.Shutdown, from the main goroutine. *)

\* enterTerminalState: baseCancel comes before the server is shut down.
Cancel ==
    /\ Shutdowns
    /\ sd = "no"
    /\ sd' = "cancelled"
    /\ UNCHANGED <<hpc, connVars, bdatVars, after, transport, envelope, answer, committed, delivered>>

\* closeTransport, first half: abortBDAT, without waiting for the callback.
ShutdownAborts ==
    /\ sd = "cancelled"
    /\ sd' = "aborted"
    /\ pipe' = None
    /\ end' = IF pipe = None THEN end ELSE ClosePipe(pipe, "error")
    /\ UNCHANGED <<hpc, connVars, bytes, done, chunk, cb, got, load, chunks, after, transport,
                   envelope, answer, committed, delivered>>

\* closeTransport, second half: transport.Close.
ShutdownCloses ==
    /\ sd = "aborted"
    /\ sd' = "closed"
    /\ transport' = "closed"
    /\ UNCHANGED <<hpc, connVars, bdatVars, after, envelope, answer, committed, delivered>>

\* wg.Wait: Shutdown returns when the connection's goroutine has.
ShutdownReturns ==
    /\ sd = "closed"
    /\ hpc = "ended"
    /\ sd' = "returned"
    /\ UNCHANGED <<hpc, connVars, bdatVars, after, transport, envelope, answer, committed, delivered>>

Handler ==
    \/ ArmRead \/ Leave \/ ProtocolError \/ Refuse \/ Greet \/ Mail \/ Rcpt \/ Rset
    \/ Data \/ DataRead \/ DataFails \/ DataStored
    \/ BdatTooLarge \/ Bdat \/ ChunkCopied \/ ChunkFails \/ CloseLast \/ Result
    \/ WaitBDAT

Callback(k) == CallbackRead(k) \/ CallbackFails(k) \/ CallbackStores(k)

Shutdown == Cancel \/ ShutdownAborts \/ ShutdownCloses \/ ShutdownReturns

\* The connection is over and nothing of it is left.
Over ==
    /\ hpc = "ended"
    /\ \A k \in Slots : Finished(k)
    /\ sd \in {"no", "returned"}
    /\ UNCHANGED vars

Next == Handler \/ (\E k \in Slots : Callback(k)) \/ Shutdown \/ Over

Spec == Init /\ [][Next]_vars

(* Goroutines that can run do: a read returns data or its deadline (60 s),   *)
(* StoreMessage returns or its context expires (30 s), Shutdown goes on once *)
(* it has begun.                                                             *)
Fairness ==
    /\ WF_vars(Handler)
    /\ \A k \in Slots : WF_vars(Callback(k))
    /\ WF_vars(ShutdownAborts \/ ShutdownCloses \/ ShutdownReturns)

FairSpec == Spec /\ Fairness

-----------------------------------------------------------------------------
\* Every variable keeps its type; a transaction never holds more recipients
\* than Server.MaxRecipients.
TypeOK ==
    /\ hpc \in {"read", "line", "data", "datastore", "chunk", "close", "result", "wait",
                "ended"}
    /\ rcpts \in Seq(RawAddresses) /\ session \in Seq(RawAddresses)
    /\ Len(rcpts) <= MaxRecipients /\ Len(session) <= Len(rcpts)
    /\ errCount \in 0..(ErrThreshold + 1)
    /\ bytes \in 0..MaxBytes
    /\ {pipe, done} \subseteq Slots \cup {None}
    /\ end \in [Slots -> {"open", "eof", "error"}]
    /\ cb \in [Slots -> {"idle", "reading", "storing", "ok", "failed"}]
    /\ transport \in {"up", "closed"}

\* No truncated message is stored: what StoreMessage commits holds every chunk
\* the client sent in the transaction, through lost connections, RSET, and a
\* shutdown that aborts the pipe between two pipelined chunks.
NoTruncation == delivered.complete

\* The recipients of a delivery are those accepted since the last accepted
\* MAIL, normalized: none is lost and none is left over from an earlier
\* transaction, whatever ended it.
EnvelopeIsolated == delivered.fallback \/ delivered.exact

\* The comment on waitBDAT: callbacks cannot outlive the connection's goroutine.
CallbackConfined == hpc = "ended" => \A k \in Slots : Finished(k)

\* As long as the service is not shut down, that is so, and none of them runs
\* on while the handler serves another transaction: whatever ends a transfer,
\* its callback has ended when the next command is read.
CallbackWaitedFor ==
    sd = "no" => /\ CallbackConfined
                 /\ pipe = None /\ hpc \in {"read", "line"} => \A k \in Slots : Finished(k)

\* The client is told that its message is queued when and only when it was
\* committed: the final reply of a transaction and what StoreMessage did agree.
AnswerAgrees ==
    /\ answer = "queued" => committed
    /\ answer = "failed" => ~committed

\* docs/mail-protocols.md: a DATA transaction cannot take the To/Cc fallback,
\* because at least one RCPT TO has been accepted before.
EnvelopeDecides == ~delivered.fallback

\* Shutdown, once begun, ends: neither the handler nor a callback is left
\* waiting for the other.
ShutdownEnds == sd # "no" ~> sd = "returned"
=============================================================================
