--------------------------- MODULE SmtpConnProofs ---------------------------
(***************************************************************************)
(* What holds of an SMTP connection for every set of addresses, every      *)
(* limit and every number of callback goroutines.                          *)
(***************************************************************************)
EXTENDS SmtpConn, TLAPS

-----------------------------------------------------------------------------
(* The inductive invariant. *)

\* The variables whose type TypeOK leaves out.
ConnType ==
    /\ TypeOK
    /\ helo \in BOOLEAN /\ from \in BOOLEAN /\ committed \in BOOLEAN
    /\ after \in {"read", "ended"}
    /\ sd \in {"no", "cancelled", "aborted", "closed", "returned"}
    /\ answer \in {"none", "queued", "failed"}
    /\ chunk \in [slot : Slots \cup {None}, size : Nat, last : BOOLEAN]
    /\ chunks \in Nat
    /\ got \in [Slots -> Nat]
    /\ load \in [Slots -> Seq(RawAddresses)]
    /\ delivered \in [fallback : BOOLEAN, complete : BOOLEAN, exact : BOOLEAN]

InTransfer == hpc \in {"chunk", "close", "result"}

\* What the limits and the guards of the commands have established.
Entitled ==
    /\ errCount > ErrThreshold => hpc = "ended" \/ (hpc = "wait" /\ after = "ended")
    /\ hpc \in {"data", "datastore"} \/ InTransfer => from
    /\ hpc = "chunk" => bytes + chunk.size <= MaxBytes

\* The open pipe is the one of the callback that waitBDAT will wait for, and
\* that callback reads from it; the command in progress works on it, unless
\* the shutdown has taken it away.
PipeHeld ==
    /\ pipe # None => /\ pipe = done
                      /\ hpc # "result" => end[pipe] = "open" /\ cb[pipe] = "reading"
    /\ hpc \in {"data", "datastore", "wait", "ended"} => pipe = None
    /\ InTransfer => chunk.slot \in Slots /\ done = chunk.slot /\ pipe \in {None, chunk.slot}
    /\ hpc \in {"chunk", "close"} => cb[chunk.slot] \in {"reading", "failed"}
    /\ hpc = "result" => cb[chunk.slot] # "idle" /\ end[chunk.slot] # "open"

\* A callback that can reach StoreMessage is the one whose result the handler
\* waits for; once there, it holds every chunk and the session's recipients.
StoreHeld ==
    \A k \in Slots :
        /\ Finished(k) => got[k] = 0
        /\ cb[k] = "reading" /\ end[k] = "eof" => hpc = "result" /\ chunk.slot = k
        /\ cb[k] = "storing" => /\ hpc = "result" /\ chunk.slot = k
                                /\ got[k] = chunks /\ load[k] = session

\* Before a shutdown there is one callback at most, and it has read every
\* chunk but the one in progress.
OneTransfer ==
    sd = "no" =>
        /\ \A k \in Slots : k # done => Finished(k)
        /\ pipe = None /\ hpc # "wait" => done = None /\ chunks = 0
        /\ \A k \in Slots : cb[k] = "reading" /\ hpc # "wait" =>
               chunks = IF hpc = "chunk" THEN got[k] + 1 ELSE got[k]

\* A transaction that is under way has no final reply, and has committed only
\* when its callback has and the handler has not looked yet.
Unanswered ==
    from /\ hpc # "wait" => /\ answer = "none"
                            /\ committed <=> (hpc = "result" /\ cb[chunk.slot] = "ok")

EnvelopeKept == from => envelope = {Normalize[session[i]] : i \in DOMAIN session}

SmtpInv ==
    /\ ConnType /\ Entitled /\ PipeHeld /\ StoreHeld /\ OneTransfer
    /\ Unanswered /\ AnswerAgrees
    /\ EnvelopeKept /\ NoTruncation /\ EnvelopeIsolated

-----------------------------------------------------------------------------
(* Every step keeps it. *)

\* The steps that only move the handler or the shutdown on, or abort a
\* transaction that has committed nothing.
LEMMA StepMoves ==
  ASSUME SmtpInv,
         ArmRead \/ Leave \/ ProtocolError \/ Refuse \/ Rset \/ Data \/ DataRead
           \/ DataFails \/ BdatTooLarge \/ ChunkFails \/ Cancel \/ ShutdownCloses \/ ShutdownReturns
  PROVE  SmtpInv'
<1> USE SmtpAssumption DEF SmtpInv, ConnType, TypeOK, Entitled, PipeHeld, StoreHeld, OneTransfer,
            Unanswered, AnswerAgrees, EnvelopeKept, NoTruncation, EnvelopeIsolated, InTransfer,
            connVars, bdatVars, None, Finished, Abort, ClosePipe
<1>1. CASE ArmRead
  BY <1>1 DEF ArmRead
<1>2. CASE Leave
  <2>1. ConnType'
    BY <1>2 DEF Leave
  <2>2. (Entitled /\ PipeHeld)'
    BY <1>2 DEF Leave
  <2>3. (StoreHeld /\ OneTransfer)'
    BY <1>2 DEF Leave
  <2> QED
    BY <1>2, <2>1, <2>2, <2>3 DEF Leave
<1>3. CASE ProtocolError
  <2>1. errCount' \in 0..(ErrThreshold + 1)
    BY <1>3 DEF ProtocolError
  <2>2. CASE errCount + 1 > ErrThreshold
    BY <1>3, <2>1, <2>2 DEF ProtocolError
  <2>3. CASE ~(errCount + 1 > ErrThreshold)
    BY <1>3, <2>1, <2>3 DEF ProtocolError
  <2> QED
    BY <2>2, <2>3
<1>4. CASE Refuse
  BY <1>4 DEF Refuse
<1>5. CASE Rset
  <2>1. ConnType'
    BY <1>5 DEF Rset
  <2>2. (Entitled /\ PipeHeld)'
    BY <1>5 DEF Rset
  <2>3. (StoreHeld /\ OneTransfer)'
    BY <1>5 DEF Rset
  <2> QED
    BY <1>5, <2>1, <2>2, <2>3 DEF Rset
<1>6. CASE Data
  BY <1>6 DEF Data
<1>7. CASE DataRead
  BY <1>7 DEF DataRead
<1>8. CASE DataFails
  <2>1. ConnType'
    BY <1>8 DEF DataFails
  <2>2. (Entitled /\ PipeHeld)'
    BY <1>8 DEF DataFails
  <2>3. (StoreHeld /\ OneTransfer)'
    BY <1>8 DEF DataFails
  <2> QED
    BY <1>8, <2>1, <2>2, <2>3 DEF DataFails
<1>9. CASE BdatTooLarge
  <2>1. ConnType'
    BY <1>9 DEF BdatTooLarge
  <2>2. (Entitled /\ PipeHeld)'
    BY <1>9 DEF BdatTooLarge
  <2>3. (StoreHeld /\ OneTransfer)'
    BY <1>9 DEF BdatTooLarge
  <2> QED
    BY <1>9, <2>1, <2>2, <2>3 DEF BdatTooLarge
<1>10. CASE ChunkFails
  <2>1. ConnType'
    BY <1>10 DEF ChunkFails
  <2>2. (Entitled /\ PipeHeld)'
    BY <1>10 DEF ChunkFails
  <2>3. (StoreHeld /\ OneTransfer)'
    BY <1>10 DEF ChunkFails
  <2> QED
    BY <1>10, <2>1, <2>2, <2>3 DEF ChunkFails
<1>11. CASE Cancel
  BY <1>11 DEF Cancel
<1>12. CASE ShutdownCloses
  BY <1>12 DEF ShutdownCloses
<1>13. CASE ShutdownReturns
  BY <1>13 DEF ShutdownReturns
<1> QED
  BY <1>1, <1>2, <1>3, <1>4, <1>5, <1>6, <1>7, <1>8, <1>9, <1>10, <1>11, <1>12, <1>13

\* A new transaction: no recipients, no reply, nothing committed.
LEMMA StepMail == SmtpInv /\ Mail => SmtpInv'
<1> SUFFICES ASSUME SmtpInv, Mail PROVE SmtpInv'
  OBVIOUS
<1>1. session' = <<>> /\ session' \in Seq(RawAddresses) /\ Len(session') = 0
  BY DEF Mail
<1>2. session' \in Seq(RawAddresses) /\ Len(session') <= Len(rcpts)
  <2>1. Len(rcpts) \in Nat
    BY DEF SmtpInv, ConnType, TypeOK
  <2> QED
    BY <1>1, <2>1
<1>3. ConnType'
  <2>1. /\ hpc' = "read" /\ helo' = helo /\ from' = TRUE /\ rcpts' = rcpts
        /\ errCount' = errCount /\ bytes' = bytes /\ pipe' = pipe /\ done' = done
        /\ chunk' = chunk /\ after' = after /\ end' = end /\ cb' = cb /\ got' = got
        /\ load' = load /\ transport' = transport /\ sd' = sd /\ chunks' = chunks
        /\ answer' = "none" /\ committed' = FALSE /\ delivered' = delivered
    BY DEF Mail, bdatVars
  <2> QED
    BY <1>2, <2>1 DEF SmtpInv, ConnType, TypeOK
<1>4. EnvelopeKept'
  BY <1>1 DEF Mail, EnvelopeKept
<1> QED
  BY <1>1, <1>3, <1>4, SmtpAssumption DEF Mail, SmtpInv, ConnType, TypeOK, Entitled, PipeHeld, StoreHeld, OneTransfer,
         Unanswered, AnswerAgrees, EnvelopeKept, NoTruncation, EnvelopeIsolated, InTransfer,
         connVars, bdatVars, None, Finished, Abort, ClosePipe

LEMMA StepGreet == SmtpInv /\ Greet => SmtpInv'
<1> SUFFICES ASSUME SmtpInv, Greet PROVE SmtpInv'
  OBVIOUS
<1>1. ConnType'
  BY SmtpAssumption DEF Greet, Abort, ClosePipe, SmtpInv, ConnType, TypeOK, None
<1>2. (Entitled /\ PipeHeld /\ StoreHeld /\ OneTransfer)'
  BY SmtpAssumption DEF Greet, SmtpInv, ConnType, TypeOK, Entitled, PipeHeld, StoreHeld, OneTransfer,
         Unanswered, AnswerAgrees, EnvelopeKept, NoTruncation, EnvelopeIsolated, InTransfer,
         connVars, bdatVars, None, Finished, Abort, ClosePipe
<1> QED
  BY <1>1, <1>2, SmtpAssumption DEF Greet, SmtpInv, ConnType, TypeOK, Entitled, PipeHeld, StoreHeld, OneTransfer,
         Unanswered, AnswerAgrees, EnvelopeKept, NoTruncation, EnvelopeIsolated, InTransfer,
         connVars, bdatVars, None, Finished, Abort, ClosePipe

\* The recipient joins the session's list and the envelope alike.
LEMMA StepRcpt == SmtpInv /\ Rcpt => SmtpInv'
<1> SUFFICES ASSUME SmtpInv, Rcpt PROVE SmtpInv'
  OBVIOUS
<1>1. PICK raw \in RawAddresses : /\ session' = Append(session, raw)
                                  /\ rcpts' = Append(rcpts, raw)
                                  /\ envelope' = envelope \cup {Normalize[raw]}
  BY DEF Rcpt
<1>2. session \in Seq(RawAddresses) /\ rcpts \in Seq(RawAddresses)
  BY DEF SmtpInv, ConnType, TypeOK
<1>3. /\ session' \in Seq(RawAddresses) /\ rcpts' \in Seq(RawAddresses)
      /\ Len(session') = Len(session) + 1 /\ Len(rcpts') = Len(rcpts) + 1
      /\ Len(session) \in Nat /\ Len(rcpts) \in Nat
      /\ DOMAIN session' = 1..(Len(session) + 1) /\ DOMAIN session = 1..Len(session)
  BY <1>1, <1>2
<1>4. /\ \A i \in DOMAIN session : session'[i] = session[i]
      /\ session'[Len(session) + 1] = raw
  BY <1>1, <1>2, <1>3
<1>5. from /\ envelope = {Normalize[session[i]] : i \in DOMAIN session}
  BY DEF Rcpt, SmtpInv, EnvelopeKept
<1>6. {Normalize[session'[i]] : i \in DOMAIN session'}
        = {Normalize[session[i]] : i \in DOMAIN session} \cup {Normalize[raw]}
  BY <1>3, <1>4
<1>7. EnvelopeKept'
  BY <1>1, <1>5, <1>6 DEF EnvelopeKept
<1>8. ConnType'
  BY <1>3, SmtpAssumption DEF Rcpt, SmtpInv, ConnType, TypeOK, bdatVars
<1>9. StoreHeld'
  BY SmtpAssumption DEF Rcpt, SmtpInv, ConnType, TypeOK, Entitled, PipeHeld, StoreHeld, OneTransfer,
         Unanswered, AnswerAgrees, EnvelopeKept, NoTruncation, EnvelopeIsolated, InTransfer,
         connVars, bdatVars, None, Finished, Abort, ClosePipe
<1> QED
  BY <1>7, <1>8, <1>9, SmtpAssumption DEF Rcpt, SmtpInv, ConnType, TypeOK, Entitled, PipeHeld, StoreHeld, OneTransfer,
         Unanswered, AnswerAgrees, EnvelopeKept, NoTruncation, EnvelopeIsolated, InTransfer,
         connVars, bdatVars, None, Finished, Abort, ClosePipe

\* The transaction is over; before a shutdown no callback is left.
LEMMA StepWaitBDAT == SmtpInv /\ WaitBDAT => SmtpInv'
<1> SUFFICES ASSUME SmtpInv, WaitBDAT PROVE SmtpInv'
  OBVIOUS
<1>1. session' = <<>> /\ session' \in Seq(RawAddresses) /\ Len(session') = 0
  BY DEF WaitBDAT
<1>2. rcpts' = <<>> /\ rcpts' \in Seq(RawAddresses) /\ Len(rcpts') = 0
  BY DEF WaitBDAT
<1>3. chunk' \in [slot : Slots \cup {None}, size : Nat, last : BOOLEAN]
  BY DEF WaitBDAT, NoChunk
<1>4. ConnType'
  <2>1. /\ hpc' = after /\ helo' = helo /\ from' = FALSE /\ errCount' = errCount /\ bytes' = 0
        /\ pipe' = pipe /\ done' = None /\ after' = "read" /\ end' = end /\ cb' = cb
        /\ got' = got /\ load' = load /\ transport' \in {"closed", transport} /\ sd' = sd
        /\ chunks' = 0 /\ answer' = answer /\ committed' = committed /\ delivered' = delivered
    BY DEF WaitBDAT
  <2>2. /\ session' \in Seq(RawAddresses) /\ Len(session') <= Len(rcpts')
        /\ rcpts' \in Seq(RawAddresses) /\ Len(rcpts') <= MaxRecipients
    BY <1>1, <1>2, SmtpAssumption
  <2>3. bytes' \in 0..MaxBytes
    BY <2>1, SmtpAssumption
  <2>4. hpc' \in {"read", "ended"} /\ transport' \in {"up", "closed"}
    BY <2>1 DEF SmtpInv, ConnType, TypeOK
  <2>5. TypeOK'
    BY <2>1, <2>2, <2>3, <2>4 DEF SmtpInv, ConnType, TypeOK
  <2>6. chunks' \in Nat
    BY <2>1
  <2> QED
    BY <1>3, <2>1, <2>5, <2>6 DEF SmtpInv, ConnType
<1>5. (Entitled /\ PipeHeld /\ StoreHeld /\ OneTransfer)'
  BY SmtpAssumption DEF WaitBDAT, SmtpInv, ConnType, TypeOK, Entitled, PipeHeld, StoreHeld, OneTransfer,
         Unanswered, AnswerAgrees, EnvelopeKept, NoTruncation, EnvelopeIsolated, InTransfer,
         connVars, bdatVars, None, Finished, Abort, ClosePipe
<1> QED
  BY <1>4, <1>5, SmtpAssumption DEF WaitBDAT, SmtpInv, ConnType, TypeOK, Entitled, PipeHeld, StoreHeld, OneTransfer,
         Unanswered, AnswerAgrees, EnvelopeKept, NoTruncation, EnvelopeIsolated, InTransfer,
         connVars, bdatVars, None, Finished, Abort, ClosePipe

\* What StoreMessage commits from the session's recipients is what the
\* envelope says.
LEMMA DeliveryFields ==
  ASSUME NEW env, NEW complete \in BOOLEAN
  PROVE  /\ Delivery(env, complete) \in [fallback : BOOLEAN, complete : BOOLEAN, exact : BOOLEAN]
         /\ Delivery(env, complete).complete = complete
         /\ envelope = {Normalize[env[i]] : i \in DOMAIN env}
              => Delivery(env, complete).fallback \/ Delivery(env, complete).exact
<1> DEFINE d == Delivery(env, complete)
<1>1. d = [fallback |-> env = <<>>, complete |-> complete, exact |-> Recipients(env) = envelope]
  BY DEF Delivery
<1>2. (env = <<>>) \in BOOLEAN /\ (Recipients(env) = envelope) \in BOOLEAN
  OBVIOUS
<1>3. d.fallback = (env = <<>>) /\ d.complete = complete /\ d.exact = (Recipients(env) = envelope)
  BY <1>1
<1>4. d \in [fallback : BOOLEAN, complete : BOOLEAN, exact : BOOLEAN]
  BY <1>1, <1>2
<1>5. envelope = {Normalize[env[i]] : i \in DOMAIN env} => d.fallback \/ d.exact
  BY <1>3 DEF Recipients
<1> QED
  BY <1>3, <1>4, <1>5

LEMMA StepDataStored == SmtpInv /\ DataStored => SmtpInv'
<1> SUFFICES ASSUME SmtpInv, DataStored PROVE SmtpInv'
  OBVIOUS
<1>1. delivered' = Delivery(session, TRUE) /\ TRUE \in BOOLEAN
  BY DEF DataStored
<1>2. envelope = {Normalize[session[i]] : i \in DOMAIN session}
  BY DEF DataStored, SmtpInv, Entitled, EnvelopeKept
<1>3. delivered' \in [fallback : BOOLEAN, complete : BOOLEAN, exact : BOOLEAN]
  BY <1>1, DeliveryFields
<1>4. NoTruncation' /\ EnvelopeIsolated'
  BY <1>1, <1>2, DeliveryFields DEF NoTruncation, EnvelopeIsolated
<1>5. ConnType'
  BY <1>3, SmtpAssumption
     DEF DataStored, Abort, ClosePipe, SmtpInv, ConnType, TypeOK, connVars, None
<1>6. (Entitled /\ PipeHeld /\ StoreHeld /\ OneTransfer)'
  BY SmtpAssumption DEF DataStored, SmtpInv, ConnType, TypeOK, Entitled, PipeHeld, StoreHeld, OneTransfer,
         Unanswered, AnswerAgrees, EnvelopeKept, NoTruncation, EnvelopeIsolated, InTransfer,
         connVars, bdatVars, None, Finished, Abort, ClosePipe
<1>7. (Unanswered /\ AnswerAgrees /\ EnvelopeKept)'
  BY SmtpAssumption DEF DataStored, SmtpInv, ConnType, TypeOK, Entitled, PipeHeld, StoreHeld, OneTransfer,
         Unanswered, AnswerAgrees, EnvelopeKept, NoTruncation, EnvelopeIsolated, InTransfer,
         connVars, bdatVars, None, Finished, Abort, ClosePipe
<1> QED
  BY <1>4, <1>5, <1>6, <1>7 DEF SmtpInv

\* A chunk begins: on the pipe that is open, or on a new one.
LEMMA StepBdat == SmtpInv /\ Bdat => SmtpInv'
<1> SUFFICES ASSUME SmtpInv, Bdat PROVE SmtpInv'
  OBVIOUS
<1>1. PICK k \in Slots, size \in ChunkSizes, last \in BOOLEAN :
          /\ bytes + size <= MaxBytes
          /\ StartBDAT(k)
          /\ chunk' = [slot |-> k, size |-> size, last |-> last]
  BY DEF Bdat
<1>2. /\ chunk'.slot = k /\ chunk'.size = size
      /\ chunk' \in [slot : Slots \cup {None}, size : Nat, last : BOOLEAN]
  BY <1>1, SmtpAssumption
<1>3. /\ hpc = "line" /\ from /\ chunks' = chunks + 1 /\ hpc' = "chunk"
      /\ helo' = helo /\ from' = from /\ rcpts' = rcpts /\ session' = session
      /\ errCount' = errCount /\ bytes' = bytes /\ after' = after /\ transport' = transport
      /\ sd' = sd /\ envelope' = envelope /\ answer' = answer /\ committed' = committed
      /\ delivered' = delivered
  BY DEF Bdat, connVars
<1>4. k # None
  BY SmtpAssumption
<1>5. CASE /\ k = pipe
           /\ pipe' = pipe /\ done' = done /\ end' = end /\ cb' = cb /\ got' = got /\ load' = load
  <2>1. ConnType'
    BY <1>2, <1>3, <1>5 DEF SmtpInv, ConnType, TypeOK
  <2>2. Entitled'
    BY <1>1, <1>2, <1>3 DEF SmtpInv, Entitled, InTransfer
  <2>3. PipeHeld'
    BY <1>2, <1>3, <1>4, <1>5 DEF SmtpInv, PipeHeld, InTransfer
  <2>4. StoreHeld'
    BY <1>2, <1>3, <1>4, <1>5 DEF SmtpInv, StoreHeld, PipeHeld, Finished
  <2>5. OneTransfer'
    BY <1>2, <1>3, <1>4, <1>5
       DEF SmtpInv, OneTransfer, PipeHeld, Finished, ConnType
  <2>6. Unanswered'
    BY <1>2, <1>3, <1>5 DEF SmtpInv, Unanswered
  <2> QED
    BY <1>3, <2>1, <2>2, <2>3, <2>4, <2>5, <2>6
       DEF SmtpInv, AnswerAgrees, EnvelopeKept, NoTruncation, EnvelopeIsolated
<1>6. CASE /\ pipe = None
           /\ Finished(k)
           /\ pipe' = k /\ done' = k
           /\ end' = [end EXCEPT ![k] = "open"]
           /\ cb' = [cb EXCEPT ![k] = "reading"]
           /\ got' = got /\ load' = load
  <2>0. /\ end'[k] = "open" /\ cb'[k] = "reading"
        /\ \A j \in Slots : j # k => end'[j] = end[j] /\ cb'[j] = cb[j]
    BY <1>6 DEF SmtpInv, ConnType, TypeOK
  <2>1. ConnType'
    BY <1>2, <1>3, <1>6 DEF SmtpInv, ConnType, TypeOK
  <2>2. Entitled'
    BY <1>1, <1>2, <1>3 DEF SmtpInv, Entitled, InTransfer
  <2>3. PipeHeld'
    BY <1>2, <1>3, <1>4, <1>6, <2>0 DEF SmtpInv, PipeHeld, InTransfer
  <2>4. StoreHeld'
    BY <1>2, <1>3, <1>6, <2>0 DEF SmtpInv, StoreHeld, Finished
  <2>5. OneTransfer'
    <3>1. sd = "no" => \A j \in Slots : Finished(j) /\ got[j] = 0
      BY <1>3, <1>6, SmtpAssumption DEF SmtpInv, OneTransfer, StoreHeld
    <3>2. sd = "no" => chunks = 0
      BY <1>3, <1>6 DEF SmtpInv, OneTransfer
    <3> QED
      BY <1>3, <1>4, <1>6, <2>0, <3>1, <3>2 DEF OneTransfer, Finished
  <2>6. Unanswered'
    BY <1>2, <1>3, <1>6 DEF SmtpInv, Unanswered
  <2> QED
    BY <1>3, <2>1, <2>2, <2>3, <2>4, <2>5, <2>6
       DEF SmtpInv, AnswerAgrees, EnvelopeKept, NoTruncation, EnvelopeIsolated
<1> QED
  BY <1>1, <1>5, <1>6 DEF StartBDAT

LEMMA StepChunkCopied == SmtpInv /\ ChunkCopied => SmtpInv'
<1> SUFFICES ASSUME SmtpInv, ChunkCopied PROVE SmtpInv'
  OBVIOUS
<1> DEFINE c == chunk.slot
<1>1. /\ hpc = "chunk" /\ hpc' \in {"close", "read"}
      /\ bytes' = bytes + chunk.size
      /\ helo' = helo /\ from' = from /\ rcpts' = rcpts /\ session' = session
      /\ errCount' = errCount /\ pipe' = pipe /\ done' = done /\ chunk' = chunk /\ end' = end
      /\ cb' = cb /\ load' = load /\ chunks' = chunks /\ after' = after
      /\ transport' = transport /\ sd' = sd /\ envelope' = envelope /\ answer' = answer
      /\ committed' = committed /\ delivered' = delivered
  BY DEF ChunkCopied, connVars
<1>2. c \in Slots /\ got \in [Slots -> Nat]
  BY <1>1 DEF SmtpInv, PipeHeld, InTransfer, ConnType
<1>3. /\ got' \in [Slots -> Nat]
      /\ \A k \in Slots : k # c \/ cb[k] # "reading" => got'[k] = got[k]
      /\ cb[c] = "reading" => got'[c] = got[c] + 1
  BY <1>2 DEF ChunkCopied
<1>4. bytes' \in 0..MaxBytes
  BY <1>1, SmtpAssumption DEF SmtpInv, Entitled, ConnType, TypeOK
<1>5. ConnType'
  <2>1. TypeOK'
    BY <1>1, <1>4 DEF SmtpInv, ConnType, TypeOK
  <2> QED
    BY <1>1, <1>3, <2>1 DEF SmtpInv, ConnType
<1>6. PipeHeld'
  BY <1>1 DEF SmtpInv, PipeHeld, InTransfer
<1>7. StoreHeld'
  BY <1>1, <1>2, <1>3 DEF SmtpInv, StoreHeld, Finished
<1>8. OneTransfer'
  <2>1. done = c
    BY <1>1 DEF SmtpInv, PipeHeld, InTransfer
  <2>2. sd = "no" => \A k \in Slots : cb[k] = "reading" => k = c /\ chunks = got'[k]
    BY <1>1, <1>2, <1>3, <2>1 DEF SmtpInv, OneTransfer, Finished
  <2> QED
    BY <1>1, <2>2 DEF SmtpInv, OneTransfer, Finished
<1> QED
  BY <1>1, <1>5, <1>6, <1>7, <1>8
     DEF SmtpInv, Entitled, InTransfer, Unanswered, AnswerAgrees, EnvelopeKept, NoTruncation,
         EnvelopeIsolated

LEMMA StepCloseLast == SmtpInv /\ CloseLast => SmtpInv'
<1> SUFFICES ASSUME SmtpInv, CloseLast PROVE SmtpInv'
  OBVIOUS
<1>1. chunk.slot \in Slots
  BY DEF CloseLast, SmtpInv, PipeHeld, InTransfer
<1>2. end' \in [Slots -> {"open", "eof", "error"}]
  BY <1>1 DEF CloseLast, ClosePipe, SmtpInv, ConnType, TypeOK
<1>3. ConnType'
  BY <1>2 DEF CloseLast, SmtpInv, ConnType, TypeOK, connVars
<1>4. (Entitled /\ PipeHeld /\ StoreHeld /\ OneTransfer)'
  BY SmtpAssumption DEF CloseLast, SmtpInv, ConnType, TypeOK, Entitled, PipeHeld, StoreHeld, OneTransfer,
         Unanswered, AnswerAgrees, EnvelopeKept, NoTruncation, EnvelopeIsolated, InTransfer,
         connVars, bdatVars, None, Finished, Abort, ClosePipe
<1> QED
  BY <1>3, <1>4, SmtpAssumption DEF CloseLast, SmtpInv, ConnType, TypeOK, Entitled, PipeHeld, StoreHeld, OneTransfer,
         Unanswered, AnswerAgrees, EnvelopeKept, NoTruncation, EnvelopeIsolated, InTransfer,
         connVars, bdatVars, None, Finished, Abort, ClosePipe

LEMMA StepResult == SmtpInv /\ Result => SmtpInv'
<1> SUFFICES ASSUME SmtpInv, Result PROVE SmtpInv'
  OBVIOUS
<1>1. answer' \in {"queued", "failed"}
  BY DEF Result
<1>2. end' \in [Slots -> {"open", "eof", "error"}]
  BY DEF Result, Abort, ClosePipe, SmtpInv, ConnType, TypeOK, None
<1>3. ConnType'
  BY <1>1, <1>2 DEF Result, Abort, SmtpInv, ConnType, TypeOK, connVars
<1>4. (Entitled /\ PipeHeld /\ StoreHeld /\ OneTransfer)'
  BY SmtpAssumption DEF Result, SmtpInv, ConnType, TypeOK, Entitled, PipeHeld, StoreHeld, OneTransfer,
         Unanswered, AnswerAgrees, EnvelopeKept, NoTruncation, EnvelopeIsolated, InTransfer,
         connVars, bdatVars, None, Finished, Abort, ClosePipe
<1> QED
  BY <1>3, <1>4, SmtpAssumption DEF Result, SmtpInv, ConnType, TypeOK, Entitled, PipeHeld, StoreHeld, OneTransfer,
         Unanswered, AnswerAgrees, EnvelopeKept, NoTruncation, EnvelopeIsolated, InTransfer,
         connVars, bdatVars, None, Finished, Abort, ClosePipe

LEMMA StepShutdownAborts == SmtpInv /\ ShutdownAborts => SmtpInv'
<1> SUFFICES ASSUME SmtpInv, ShutdownAborts PROVE SmtpInv'
  OBVIOUS
<1>1. end' \in [Slots -> {"open", "eof", "error"}]
  BY DEF ShutdownAborts, ClosePipe, SmtpInv, ConnType, TypeOK, None
<1>2. ConnType'
  BY <1>1 DEF ShutdownAborts, SmtpInv, ConnType, TypeOK, connVars
<1>3. (Entitled /\ PipeHeld /\ StoreHeld /\ OneTransfer)'
  BY SmtpAssumption DEF ShutdownAborts, SmtpInv, ConnType, TypeOK, Entitled, PipeHeld, StoreHeld, OneTransfer,
         Unanswered, AnswerAgrees, EnvelopeKept, NoTruncation, EnvelopeIsolated, InTransfer,
         connVars, bdatVars, None, Finished, Abort, ClosePipe
<1> QED
  BY <1>2, <1>3, SmtpAssumption DEF ShutdownAborts, SmtpInv, ConnType, TypeOK, Entitled, PipeHeld, StoreHeld, OneTransfer,
         Unanswered, AnswerAgrees, EnvelopeKept, NoTruncation, EnvelopeIsolated, InTransfer,
         connVars, bdatVars, None, Finished, Abort, ClosePipe

LEMMA StepCallbackRead ==
  ASSUME NEW k \in Slots, SmtpInv, CallbackRead(k)
  PROVE  SmtpInv'
<1>1. /\ load'[k] = session /\ cb'[k] = "storing"
      /\ \A j \in Slots : j # k => load'[j] = load[j] /\ cb'[j] = cb[j]
  BY DEF CallbackRead, SmtpInv, ConnType, TypeOK
<1>2. hpc = "result" /\ chunk.slot = k /\ got[k] = chunks
  BY DEF CallbackRead, Cancelled, SmtpInv, StoreHeld, OneTransfer
<1>3. ConnType'
  BY DEF CallbackRead, SmtpInv, ConnType, TypeOK, connVars
<1>4. StoreHeld'
  BY <1>1, <1>2 DEF CallbackRead, SmtpInv, StoreHeld, Finished, connVars
<1>5. (Entitled /\ PipeHeld /\ OneTransfer)'
  BY SmtpAssumption DEF CallbackRead, SmtpInv, ConnType, TypeOK, Entitled, PipeHeld, StoreHeld, OneTransfer,
         Unanswered, AnswerAgrees, EnvelopeKept, NoTruncation, EnvelopeIsolated, InTransfer,
         connVars, bdatVars, None, Finished, Abort, ClosePipe
<1> QED
  BY <1>3, <1>4, <1>5, SmtpAssumption DEF CallbackRead, SmtpInv, ConnType, TypeOK, Entitled, PipeHeld, StoreHeld, OneTransfer,
         Unanswered, AnswerAgrees, EnvelopeKept, NoTruncation, EnvelopeIsolated, InTransfer,
         connVars, bdatVars, None, Finished, Abort, ClosePipe

LEMMA StepCallbackFails ==
  ASSUME NEW k \in Slots, SmtpInv, CallbackFails(k)
  PROVE  SmtpInv'
<1>1. ConnType'
  BY DEF CallbackFails, SmtpInv, ConnType, TypeOK, connVars
<1>2. (Entitled /\ PipeHeld /\ StoreHeld /\ OneTransfer)'
  BY SmtpAssumption DEF CallbackFails, SmtpInv, ConnType, TypeOK, Entitled, PipeHeld, StoreHeld, OneTransfer,
         Unanswered, AnswerAgrees, EnvelopeKept, NoTruncation, EnvelopeIsolated, InTransfer,
         connVars, bdatVars, None, Finished, Abort, ClosePipe
<1> QED
  BY <1>1, <1>2, SmtpAssumption DEF CallbackFails, SmtpInv, ConnType, TypeOK, Entitled, PipeHeld, StoreHeld, OneTransfer,
         Unanswered, AnswerAgrees, EnvelopeKept, NoTruncation, EnvelopeIsolated, InTransfer,
         connVars, bdatVars, None, Finished, Abort, ClosePipe

\* The commit: everything the client sent, to the recipients of the envelope.
LEMMA StepCallbackStores ==
  ASSUME NEW k \in Slots, SmtpInv, CallbackStores(k)
  PROVE  SmtpInv'
<1>1. hpc = "result" /\ chunk.slot = k /\ got[k] = chunks /\ load[k] = session
  BY DEF CallbackStores, SmtpInv, StoreHeld
<1>2. from /\ envelope = {Normalize[session[i]] : i \in DOMAIN session}
  BY <1>1 DEF SmtpInv, Entitled, InTransfer, EnvelopeKept
<1>3. delivered' = Delivery(session, TRUE) /\ TRUE \in BOOLEAN
  BY <1>1 DEF CallbackStores
<1>4. delivered' \in [fallback : BOOLEAN, complete : BOOLEAN, exact : BOOLEAN]
  BY <1>3, DeliveryFields
<1>5. NoTruncation' /\ EnvelopeIsolated'
  BY <1>2, <1>3, DeliveryFields DEF NoTruncation, EnvelopeIsolated
<1>6. ConnType'
  BY <1>4 DEF CallbackStores, SmtpInv, ConnType, TypeOK, connVars
<1>7. (Entitled /\ PipeHeld /\ StoreHeld /\ OneTransfer)'
  BY SmtpAssumption DEF CallbackStores, SmtpInv, ConnType, TypeOK, Entitled, PipeHeld, StoreHeld, OneTransfer,
         Unanswered, AnswerAgrees, EnvelopeKept, NoTruncation, EnvelopeIsolated, InTransfer,
         connVars, bdatVars, None, Finished, Abort, ClosePipe
<1>8. (Unanswered /\ AnswerAgrees /\ EnvelopeKept)'
  BY <1>1, <1>2, SmtpAssumption DEF CallbackStores, SmtpInv, ConnType, TypeOK, Entitled, PipeHeld, StoreHeld, OneTransfer,
         Unanswered, AnswerAgrees, EnvelopeKept, NoTruncation, EnvelopeIsolated, InTransfer,
         connVars, bdatVars, None, Finished, Abort, ClosePipe
<1> QED
  BY <1>5, <1>6, <1>7, <1>8 DEF SmtpInv

LEMMA SmtpInitially == Init => SmtpInv
<1> SUFFICES ASSUME Init PROVE SmtpInv
  OBVIOUS
<1>1. rcpts = <<>> /\ session = <<>> /\ <<>> \in Seq(RawAddresses) /\ Len(<<>>) = 0
  BY DEF Init
<1>2. TypeOK
  BY <1>1, SmtpAssumption DEF Init, TypeOK
<1>3. load \in [Slots -> Seq(RawAddresses)]
  BY <1>1 DEF Init
<1>4. /\ chunk \in [slot : Slots \cup {None}, size : Nat, last : BOOLEAN]
      /\ delivered \in [fallback : BOOLEAN, complete : BOOLEAN, exact : BOOLEAN]
      /\ delivered.complete /\ delivered.exact
  BY DEF Init, NoChunk, Nothing
<1>5. ConnType
  BY <1>2, <1>3, <1>4 DEF Init, ConnType
<1>6. Entitled /\ PipeHeld /\ StoreHeld /\ OneTransfer
  BY SmtpAssumption DEF Init, Entitled, PipeHeld, StoreHeld, OneTransfer, InTransfer, Finished
<1> QED
  BY <1>4, <1>5, <1>6
     DEF Init, SmtpInv, Unanswered, AnswerAgrees, EnvelopeKept, NoTruncation, EnvelopeIsolated

LEMMA SmtpStep == SmtpInv /\ [Next]_vars => SmtpInv'
<1> SUFFICES ASSUME SmtpInv, [Next]_vars PROVE SmtpInv'
  OBVIOUS
<1>1. CASE Handler
  BY <1>1, StepMoves, StepGreet, StepMail, StepRcpt, StepWaitBDAT, StepDataStored, StepBdat,
     StepChunkCopied, StepCloseLast, StepResult DEF Handler
<1>2. CASE \E k \in Slots : Callback(k)
  BY <1>2, StepCallbackRead, StepCallbackFails, StepCallbackStores DEF Callback
<1>3. CASE Shutdown
  BY <1>3, StepMoves, StepShutdownAborts DEF Shutdown
<1>4. CASE UNCHANGED vars
  BY <1>4 DEF vars, connVars, bdatVars, SmtpInv, ConnType, TypeOK, Entitled, PipeHeld, StoreHeld,
     OneTransfer, Unanswered, AnswerAgrees, EnvelopeKept, NoTruncation, EnvelopeIsolated,
     InTransfer, Finished
<1> QED
  BY <1>1, <1>2, <1>3, <1>4 DEF Next, Over

THEOREM SmtpInvariant == Spec => []SmtpInv
<1> QED
  BY SmtpInitially, SmtpStep, PTL DEF Spec

-----------------------------------------------------------------------------
(* What it is for. *)

\* Every variable of the connection keeps its type; no transaction holds more
\* recipients than Server.MaxRecipients or more octets than MaxMessageBytes.
THEOREM SmtpTypeCorrect == Spec => []TypeOK
<1>1. SmtpInv => TypeOK
  BY DEF SmtpInv, ConnType
<1> QED
  BY <1>1, SmtpInvariant, PTL

\* Whatever breaks, resets or aborts a BDAT transfer, StoreMessage commits a
\* message only with every chunk the client sent in the transaction.
THEOREM SmtpNoTruncation == Spec => []NoTruncation
<1>1. SmtpInv => NoTruncation
  BY DEF SmtpInv
<1> QED
  BY <1>1, SmtpInvariant, PTL

\* A delivery goes to the recipients accepted since the last accepted MAIL,
\* and to none of an earlier transaction.
THEOREM SmtpEnvelopeIsolated == Spec => []EnvelopeIsolated
<1>1. SmtpInv => EnvelopeIsolated
  BY DEF SmtpInv
<1> QED
  BY <1>1, SmtpInvariant, PTL

\* The final reply of a transaction and what StoreMessage did agree, also when
\* the service is shut down between the two.
THEOREM SmtpAnswerAgrees == Spec => []AnswerAgrees
<1>1. SmtpInv => AnswerAgrees
  BY DEF SmtpInv
<1> QED
  BY <1>1, SmtpInvariant, PTL

\* As long as the service is not shut down, no callback outlives its
\* transaction or the connection's goroutine.
THEOREM SmtpCallbackWaitedFor == Spec => []CallbackWaitedFor
<1>1. SmtpInv => CallbackWaitedFor
  <2> SUFFICES ASSUME SmtpInv, sd = "no", hpc = "ended" \/ (pipe = None /\ hpc \in {"read", "line"})
               PROVE  \A k \in Slots : Finished(k)
    BY DEF CallbackWaitedFor, CallbackConfined
  <2>1. pipe = None /\ hpc # "wait"
    BY DEF SmtpInv, PipeHeld
  <2>2. done = None /\ \A k \in Slots : k # None
    BY <2>1, SmtpAssumption DEF SmtpInv, OneTransfer
  <2> QED
    BY <2>2 DEF SmtpInv, OneTransfer
<1> QED
  BY <1>1, SmtpInvariant, PTL
=============================================================================
