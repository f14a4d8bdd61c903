--------------------------- MODULE MailStoreProofs ---------------------------
(***************************************************************************)
(* The lock: acquirePop3 is a mutual exclusion lock for any number of      *)
(* callers and any number of cancelled acquisitions.                       *)
(*                                                                         *)
(* The reset fence, for any number of callers, mailboxes, messages and     *)
(* resets: a token whose generation is the store's never names a message   *)
(* other than the one it was read from, so MarkReadDetail and              *)
(* DeletePOP3Messages touch nothing else.                                  *)
(***************************************************************************)
EXTENDS MailStore, TLAPS

-----------------------------------------------------------------------------
(* The lock. *)

\* The inductive invariant: the types, and who owns the mutex.
LockInv == LockTypeOK /\ LockOwned

\* The lock starts free and owned by nobody.
LEMMA LockInitInv == LockInit => LockInv
BY ProcsAssumption, OrphansAssumption
DEF LockInit, LockInv, LockTypeOK, LockOwned, Free, Abandoned

\* No step of acquirePop3, of its helper and cleanup goroutines or of Unlock
\* breaks the ownership of the mutex.
LEMMA LockStepInv == LockInv /\ [LockNext]_lockVars => LockInv'
<1> SUFFICES ASSUME LockInv, [LockNext]_lockVars PROVE LockInv'
    OBVIOUS
<1> USE ProcsAssumption, OrphansAssumption DEF LockInv, LockTypeOK, LockOwned
<1>1. CASE UNCHANGED lockVars
    BY <1>1 DEF lockVars
<1>2. ASSUME NEW p \in Procs, TryLock(p) PROVE LockInv'
    BY <1>2 DEF TryLock, Free, Abandoned
<1>3. ASSUME NEW p \in Procs, TryLockFails(p) PROVE LockInv'
    BY <1>3 DEF TryLockFails
<1>4. ASSUME NEW p \in Procs, HelperLocks(p) PROVE LockInv'
    BY <1>4 DEF HelperLocks, Free, Abandoned
<1>5. ASSUME NEW p \in Procs, Acquired(p) PROVE LockInv'
    BY <1>5 DEF Acquired
<1>6. ASSUME NEW p \in Procs, CancelWait(p) PROVE LockInv'
  <2>1. lk' = [lk EXCEPT ![p] = "out"] /\ lk[p] = "waiting"
    BY <1>6 DEF CancelWait
  <2>2. CASE mu = p /\ mu' = Abandoned /\ UNCHANGED orphans
    BY <2>1, <2>2 DEF Abandoned
  <2>3. CASE mu # p /\ orphans < MaxOrphans /\ orphans' = orphans + 1 /\ UNCHANGED mu
    BY <2>1, <2>3
  <2> QED BY <1>6, <2>2, <2>3 DEF CancelWait
<1>7. ASSUME NEW p \in Procs, Unlock(p) PROVE LockInv'
    BY <1>7 DEF Unlock, Free, Abandoned
<1>8. CASE OrphanLocks
    BY <1>8 DEF OrphanLocks, Free, Abandoned
<1>9. CASE CleanupUnlocks
    BY <1>9 DEF CleanupUnlocks, Free, Abandoned
<1> QED
    BY <1>1, <1>2, <1>3, <1>4, <1>5, <1>6, <1>7, <1>8, <1>9 DEF LockNext, Background

\* Every state of the lock satisfies the inductive invariant.
THEOREM LockInvariant == LockSpec => []LockInv
BY LockInitInv, LockStepInv, PTL DEF LockSpec

\* The state of acquirePop3 keeps its types: no process outside Procs ever owns
\* pop3Mu, and no more helper goroutines than counted wait in Lock.
THEOREM LockTypeCorrect == LockSpec => []LockTypeOK
BY LockInvariant, PTL DEF LockInv

\* A goroutine inside a store operation owns pop3Mu, and pop3Mu is never owned
\* in the name of a caller that gave up: for any number of callers.
THEOREM LockOwnership == LockSpec => []LockOwned
BY LockInvariant, PTL DEF LockInv

-----------------------------------------------------------------------------
\* The callers inside an operation, as Mutex sees them.
Inside == {p \in Procs : lk[p] = "holding"}

\* While the mutex is free, or held in the name of a process that is still
\* waiting, nobody is inside.
LEMMA NobodyInside ==
    ASSUME LockInv, mu = Free \/ \E p \in Procs : mu = p /\ lk[p] = "waiting"
    PROVE  Inside = {}
BY ProcsAssumption DEF LockInv, LockOwned, Inside

\* Every step of the lock is a step of Mutex or leaves its state alone.
LEMMA LockStepRefines ==
    LockInv /\ [LockNext]_lockVars => [MutexSpec!Next]_Inside
<1> SUFFICES ASSUME LockInv, [LockNext]_lockVars PROVE [MutexSpec!Next]_Inside
    OBVIOUS
<1> USE DEF LockInv, LockTypeOK
<1>1. CASE UNCHANGED lockVars
    BY <1>1 DEF lockVars, Inside
<1>2. ASSUME NEW p \in Procs, TryLock(p) \/ Acquired(p) PROVE MutexSpec!Enter(p)
  <2>1. Inside = {}
    BY <1>2, NobodyInside DEF TryLock, Acquired
  <2>2. Inside' = {p}
    BY <1>2, <2>1 DEF Inside, TryLock, Acquired
  <2> QED BY <2>1, <2>2 DEF MutexSpec!Enter, Inside
<1>3. ASSUME NEW p \in Procs, Unlock(p) PROVE MutexSpec!Leave(p)
  <2>1. Inside = {p}
    BY <1>3 DEF Unlock, Inside, LockOwned
  <2>2. Inside' = {}
    BY <1>3, <2>1 DEF Unlock, Inside
  <2> QED BY <2>1, <2>2 DEF MutexSpec!Leave, Inside
<1>4. ASSUME NEW p \in Procs,
             TryLockFails(p) \/ HelperLocks(p) \/ CancelWait(p)
      PROVE  UNCHANGED Inside
    BY <1>4 DEF TryLockFails, HelperLocks, CancelWait, Inside
<1>5. CASE Background
    BY <1>5 DEF Background, OrphanLocks, CleanupUnlocks, Inside
<1> QED
    BY <1>1, <1>2, <1>3, <1>4, <1>5 DEF LockNext, MutexSpec!Next

\* acquirePop3 and the deferred Unlock implement the abstract critical section
\* of Mutex, whatever the callers and their contexts do.
THEOREM LockImplementsMutex == LockSpec => ImplementsMutex
<1>1. LockInit => MutexSpec!Init
    BY DEF LockInit, MutexSpec!Init
<1>2. LockInv /\ [LockNext]_lockVars => [MutexSpec!Next]_Inside
    BY LockStepRefines
<1> QED
    BY <1>1, <1>2, LockInvariant, PTL
    DEF LockSpec, ImplementsMutex, MutexSpec!Spec, Inside

-----------------------------------------------------------------------------
(* The fence. *)

\* A messages row, a database and a transaction have the fields that the
\* fence depends on.
IsRow(m) == {"id", "serial"} \subseteq DOMAIN m
IsDb(d) == {"messages", "messageSeq"} \subseteq DOMAIN d
IsTx(t) == "db" \in DOMAIN t

\* What AUTOINCREMENT gives: ids are at most the counter, and one id names one
\* message.
DbOK(d) ==
    /\ IsDb(d)
    /\ d.messageSeq \in Nat
    /\ \A m \in d.messages : IsRow(m) /\ m.id \in Nat /\ m.id <= d.messageSeq
    /\ \A m, n \in d.messages : m.id = n.id => m.serial = n.serial

\* e was made from d by statements that reuse no id: what e holds under an id
\* that d has given out is what d holds there.
Later(d, e) ==
    /\ d.messageSeq <= e.messageSeq
    /\ \A m \in e.messages : m.id <= d.messageSeq =>
           \E n \in d.messages : n.id = m.id /\ n.serial = m.serial

\* A token is at most as new as the store, and a current one is good.
TokenOK(t) ==
    /\ t.gen \in Nat /\ t.gen <= generation
    /\ \A r \in t.rows : r.id \in Nat
    /\ t.gen = generation =>
         \A r \in t.rows :
            /\ r.id <= db.messageSeq
            /\ \A m \in db.messages : r.id = m.id => r.serial = m.serial

TxOK(t) == IsTx(t) /\ DbOK(t.db) /\ Later(db, t.db)

\* Each process: it owns the lock where its phase says so, its transaction is
\* a later database, and its token is good.
ProcOK(p) ==
    /\ phase[p] \in Locked => lk[p] = "holding"
    /\ phase[p] \in InTx => TxOK(tx[p])
    /\ TokenOK(token[p])

\* The inductive invariant of the fence.
FenceInv ==
    /\ LockInv
    /\ phase \in [Procs -> Phases]
    /\ tx = [p \in Procs |-> tx[p]]
    /\ token = [p \in Procs |-> token[p]]
    /\ generation \in Nat
    /\ DbOK(db)
    /\ \A p \in Procs : ProcOK(p)

-----------------------------------------------------------------------------
(* What the statements do to ids. *)

\* A database is later than itself.
LEMMA LaterReflexive == ASSUME NEW d, DbOK(d) PROVE Later(d, d)
BY DEF Later, DbOK

\* Laterness composes.
LEMMA LaterTransitive ==
    ASSUME NEW d, NEW e, NEW f, DbOK(d), DbOK(e), DbOK(f), Later(d, e), Later(e, f)
    PROVE  Later(d, f)
<1>1. d.messageSeq <= f.messageSeq
    BY DEF Later, DbOK
<1>2. ASSUME NEW m \in f.messages, m.id <= d.messageSeq
      PROVE  \E n \in d.messages : n.id = m.id /\ n.serial = m.serial
  <2>1. m.id <= e.messageSeq
    BY <1>2 DEF Later, DbOK
  <2>2. PICK k \in e.messages : k.id = m.id /\ k.serial = m.serial
    BY <2>1 DEF Later
  <2>3. PICK n \in d.messages : n.id = k.id /\ n.serial = k.serial
    BY <1>2, <2>2 DEF Later
  <2> QED BY <2>2, <2>3
<1> QED BY <1>1, <1>2 DEF Later

\* A database with some messages removed, whatever happened to other tables.
LEMMA FewerMessages ==
    ASSUME NEW d, NEW e, DbOK(d), IsDb(e), e.messages \subseteq d.messages,
           e.messageSeq = d.messageSeq
    PROVE  DbOK(e) /\ Later(d, e)
BY DEF DbOK, Later

\* DELETE FROM messages and its cascade.
LEMMA DeleteRowsLater ==
    ASSUME NEW d, DbOK(d), NEW ids
    PROVE  LET e == DeleteRows(d, ids)
           IN  /\ DbOK(e) /\ Later(d, e)
               /\ d.messages \ e.messages = {m \in d.messages : m.id \in ids}
<1> DEFINE e == DeleteRows(d, ids)
<1>1. /\ IsDb(e) /\ e.messageSeq = d.messageSeq
      /\ e.messages = {m \in d.messages : m.id \notin ids}
    BY DEF DbOK, IsDb, DeleteRows
<1> QED BY <1>1, FewerMessages

\* DELETE FROM mailboxes and its cascade.
LEMMA DeleteMailboxLater ==
    ASSUME NEW d, DbOK(d), NEW mbox
    PROVE  DbOK(DeleteMailboxRow(d, mbox)) /\ Later(d, DeleteMailboxRow(d, mbox))
<1> DEFINE gone == {m.id : m \in MessagesIn(d, mbox)}
           f == DeleteRows(d, gone)
           e == DeleteMailboxRow(d, mbox)
<1>1. DbOK(f) /\ Later(d, f)
    BY DeleteRowsLater
<1>2. IsDb(e) /\ e.messageSeq = f.messageSeq /\ e.messages = f.messages
    BY <1>1 DEF DbOK, IsDb, DeleteMailboxRow
<1>3. DbOK(e) /\ Later(f, e)
    BY <1>1, <1>2, FewerMessages
<1> QED BY <1>1, <1>3, LaterTransitive

\* UPDATE messages SET is_read: only rows with the given ids change.
LEMMA SetReadLater ==
    ASSUME NEW d, DbOK(d), NEW ids, NEW value
    PROVE  LET e == SetRead(d, ids, value)
           IN  /\ DbOK(e) /\ Later(d, e)
               /\ \A m \in d.messages \ e.messages : m.id \in ids
<1> DEFINE e == SetRead(d, ids, value)
           new(m) == IF m.id \in ids THEN [m EXCEPT !.read = value] ELSE m
<1>1. /\ IsDb(e) /\ e.messageSeq = d.messageSeq
      /\ e.messages = {new(m) : m \in d.messages}
    BY DEF DbOK, IsDb, SetRead
<1>2. \A m \in d.messages : IsRow(new(m)) /\ new(m).id = m.id /\ new(m).serial = m.serial
    BY DEF DbOK, IsRow
<1>3. \A m \in d.messages \ e.messages : m.id \in ids
    BY <1>1
<1> HIDE DEF new, e
<1>4. \A m \in e.messages :
         IsRow(m) /\ \E k \in d.messages : k.id = m.id /\ k.serial = m.serial
    BY <1>1, <1>2
<1>5. DbOK(e) /\ Later(d, e)
    BY <1>1, <1>4 DEF DbOK, Later
<1> QED BY <1>3, <1>5 DEF e

\* INSERT and UPSERT of a mailbox leave the messages alone.
LEMMA InsertMailboxLater ==
    ASSUME NEW d, DbOK(d), NEW address
    PROVE  DbOK(InsertMailbox(d, address)) /\ Later(d, InsertMailbox(d, address))
<1> DEFINE e == InsertMailbox(d, address)
<1>1. IsDb(e) /\ e.messageSeq = d.messageSeq /\ e.messages = d.messages
    BY DEF DbOK, IsDb, InsertMailbox
<1> QED BY <1>1, FewerMessages

\* The upsert of a mailbox leaves the messages alone.
LEMMA UpsertMailboxLater ==
    ASSUME NEW d, DbOK(d), NEW address, NEW now
    PROVE  DbOK(UpsertMailbox(d, address, now)) /\ Later(d, UpsertMailbox(d, address, now))
<1> DEFINE e == UpsertMailbox(d, address, now)
<1>1. IsDb(e) /\ e.messageSeq = d.messageSeq /\ e.messages = d.messages
    BY DEF DbOK, IsDb, UpsertMailbox
<1> QED BY <1>1, FewerMessages

\* INSERT INTO messages takes an id that was never given out.
LEMMA InsertMessageLater ==
    ASSUME NEW d, DbOK(d), NEW mbox, NEW now
    PROVE  DbOK(InsertMessage(d, mbox, now)) /\ Later(d, InsertMessage(d, mbox, now))
<1> DEFINE e == InsertMessage(d, mbox, now)
           row == [id |-> d.messageSeq + 1, mbox |-> mbox, recv |-> now,
                   read |-> 0, serial |-> d.born + 1]
<1>1. /\ IsDb(e) /\ e.messageSeq = d.messageSeq + 1
      /\ e.messages = d.messages \cup {row}
    BY DEF DbOK, IsDb, InsertMessage
<1>2. IsRow(row) /\ row.id = d.messageSeq + 1
    BY DEF IsRow
<1> HIDE DEF row
<1>3. \A m \in e.messages : IsRow(m) /\ m.id \in Nat /\ m.id <= e.messageSeq
    BY <1>1, <1>2 DEF DbOK
<1>4. \A m, n \in e.messages : m.id = n.id => m.serial = n.serial
    BY <1>1, <1>2 DEF DbOK
<1>5. DbOK(e)
    BY <1>1, <1>3, <1>4 DEF DbOK
<1>6. Later(d, e)
    BY <1>1, <1>2 DEF DbOK, Later
<1> QED BY <1>5, <1>6

\* INSERT INTO attachments leaves the messages alone.
LEMMA InsertAttachmentsLater ==
    ASSUME NEW d, DbOK(d), NEW message, NEW count
    PROVE  DbOK(InsertAttachments(d, message, count))
           /\ Later(d, InsertAttachments(d, message, count))
<1> DEFINE e == InsertAttachments(d, message, count)
<1>1. IsDb(e) /\ e.messageSeq = d.messageSeq /\ e.messages = d.messages
    BY DEF DbOK, IsDb, InsertAttachments
<1> QED BY <1>1, FewerMessages

\* One calendar component changes the calendar_events table only.
LEMMA CalendarLater ==
    ASSUME NEW d, DbOK(d), NEW rows
    PROVE  LET e == [d EXCEPT !.calendar = rows] IN DbOK(e) /\ Later(d, e)
<1> DEFINE e == [d EXCEPT !.calendar = rows]
<1>1. IsDb(e) /\ e.messageSeq = d.messageSeq /\ e.messages = d.messages
    BY DEF DbOK, IsDb
<1> QED BY <1>1, FewerMessages

-----------------------------------------------------------------------------
(* Frames: what a step of process p has to establish. *)

\* Two processes are never both where the lock is held.
LEMMA OneHolder ==
    ASSUME FenceInv, NEW p \in Procs, NEW q \in Procs,
           phase[p] \in Locked, phase[q] \in Locked
    PROVE  p = q
BY DEF FenceInv, ProcOK, LockInv, LockOwned

\* A good token stays good in a later database of the same generation.
LEMMA TokenLater ==
    ASSUME NEW t, TokenOK(t), DbOK(db), Later(db, db'), generation' = generation,
           DbOK(db)'
    PROVE  TokenOK(t)'
<1>1. ASSUME t.gen = generation, NEW r \in t.rows
      PROVE  /\ r.id <= db'.messageSeq
             /\ \A m \in db'.messages : r.id = m.id => r.serial = m.serial
  <2>1. r.id \in Nat /\ r.id <= db.messageSeq
    BY <1>1 DEF TokenOK
  <2>2. r.id <= db'.messageSeq
    BY <2>1 DEF Later, DbOK
  <2>3. ASSUME NEW m \in db'.messages, r.id = m.id PROVE r.serial = m.serial
    <3>1. PICK n \in db.messages : n.id = m.id /\ n.serial = m.serial
      BY <2>1, <2>3 DEF Later
    <3> QED BY <1>1, <2>3, <3>1 DEF TokenOK
  <2> QED BY <2>2, <2>3
<1> QED BY <1>1 DEF TokenOK

\* A body that commits a later database, its token unchanged, keeps the fence.
LEMMA CommitKeeps ==
    ASSUME FenceInv, NEW p \in Procs, phase[p] \in {"locked"} \cup InTx,
           NEW d, DbOK(d), Later(db, d), NEW evs, Commit(p, d, evs),
           generation' = generation, token' = token
    PROVE  FenceInv'
<1>1. /\ db' = d /\ phase' = [phase EXCEPT ![p] = "returning"]
      /\ tx' = [tx EXCEPT ![p] = NoTx] /\ UNCHANGED lockVars
    BY DEF Commit
<1>2. LockInv'
    BY <1>1 DEF FenceInv, LockInv, LockTypeOK, LockOwned, lockVars
<1>3. phase' \in [Procs -> Phases] /\ tx' = [q \in Procs |-> tx'[q]]
    BY <1>1 DEF FenceInv, Phases
<1>4. ASSUME NEW q \in Procs PROVE ProcOK(q)'
  <2>1. TokenOK(token[q])'
    BY <1>1, TokenLater DEF FenceInv, ProcOK
  <2>2. phase'[q] \in Locked => lk'[q] = "holding"
    BY <1>1 DEF FenceInv, ProcOK, Locked, lockVars
  <2>3. phase'[q] \notin InTx
    BY <1>1, OneHolder DEF FenceInv, Locked, InTx
  <2> QED BY <2>1, <2>2, <2>3 DEF ProcOK
<1> QED BY <1>1, <1>2, <1>3, <1>4 DEF FenceInv

\* A step outside the bodies: the lock moves, at most p changes its phase, and
\* where p comes to hold the lock it is not inside a transaction.
LEMMA LockMoveKeeps ==
    ASSUME FenceInv, NEW p \in Procs, LockInv',
           \A q \in Procs \ {p} : lk'[q] = lk[q] /\ phase'[q] = phase[q],
           phase' \in [Procs -> Phases], phase'[p] \notin InTx,
           phase'[p] \in Locked => lk'[p] = "holding",
           UNCHANGED <<db, generation, tx, token>>
    PROVE  FenceInv'
<1>1. ASSUME NEW q \in Procs PROVE ProcOK(q)'
  <2>1. TokenOK(token[q])'
    BY DEF FenceInv, ProcOK, TokenOK
  <2>2. phase'[q] \in Locked => lk'[q] = "holding"
    BY DEF FenceInv, ProcOK
  <2>3. phase'[q] \in InTx => TxOK(tx[q])'
    BY DEF FenceInv, ProcOK, TxOK
  <2> QED BY <2>1, <2>2, <2>3 DEF ProcOK
<1> QED BY <1>1 DEF FenceInv

\* A step inside StoreMessage's transaction, which p has made later.
LEMMA TxStepKeeps ==
    ASSUME FenceInv, NEW p \in Procs, phase[p] \in Locked, phase'[p] \in InTx,
           phase' \in [Procs -> Phases], tx' = [q \in Procs |-> tx'[q]],
           \A q \in Procs \ {p} : phase'[q] = phase[q] /\ tx'[q] = tx[q],
           IsTx(tx'[p]), DbOK(tx'[p].db), Later(db, tx'[p].db),
           UNCHANGED <<lockVars, db, generation, token>>
    PROVE  FenceInv'
<1>1. LockInv'
    BY DEF FenceInv, LockInv, LockTypeOK, LockOwned, lockVars
<1>2. ASSUME NEW q \in Procs PROVE ProcOK(q)'
  <2>1. TokenOK(token[q])'
    BY DEF FenceInv, ProcOK, TokenOK
  <2>2. phase'[q] \in Locked => lk'[q] = "holding"
    BY DEF FenceInv, ProcOK, lockVars
  <2>3. phase'[q] \in InTx => TxOK(tx[q])'
    BY DEF FenceInv, ProcOK, TxOK
  <2> QED BY <2>1, <2>2, <2>3 DEF ProcOK
<1> QED BY <1>1, <1>2 DEF FenceInv

\* A body that reads messages into p's token and commits a database in which
\* they stand.
LEMMA RememberKeeps ==
    ASSUME FenceInv, NEW p \in Procs, phase[p] = "locked",
           NEW d, DbOK(d), Later(db, d), NEW evs, Commit(p, d, evs),
           generation' = generation,
           NEW kind, NEW rows, rows \subseteq d.messages, Remember(p, kind, rows)
    PROVE  FenceInv'
<1>1. /\ db' = d /\ phase' = [phase EXCEPT ![p] = "returning"]
      /\ tx' = [tx EXCEPT ![p] = NoTx] /\ UNCHANGED lockVars
      /\ token' = [token EXCEPT ![p] = [kind |-> kind, gen |-> generation, rows |-> rows]]
    BY DEF Commit, Remember
<1>2. LockInv'
    BY <1>1 DEF FenceInv, LockInv, LockTypeOK, LockOwned, lockVars
<1>3. /\ phase' \in [Procs -> Phases]
      /\ tx' = [q \in Procs |-> tx'[q]] /\ token' = [q \in Procs |-> token'[q]]
    BY <1>1 DEF FenceInv, Phases
<1>4. ASSUME NEW q \in Procs PROVE ProcOK(q)'
  <2>1. CASE q = p
    <3>1. token'[q].gen = generation /\ token'[q].rows = rows
      BY <1>1, <2>1 DEF FenceInv
    <3>2. generation' \in Nat
      BY DEF FenceInv
    <3> QED BY <1>1, <2>1, <3>1, <3>2
            DEF FenceInv, ProcOK, TokenOK, DbOK, Locked, InTx, lockVars
  <2>2. CASE q # p
    <3>1. token'[q] = token[q] /\ TokenOK(token[q])
      BY <1>1, <2>2 DEF FenceInv, ProcOK
    <3>2. TokenOK(token[q])'
      BY <1>1, <3>1, TokenLater DEF FenceInv
    <3>3. phase'[q] \in Locked => lk'[q] = "holding"
      BY <1>1, <2>2 DEF FenceInv, ProcOK, lockVars
    <3>4. phase'[q] \notin InTx
      BY <1>1, <2>2, OneHolder DEF FenceInv, Locked, InTx
    <3> QED BY <3>2, <3>3, <3>4 DEF ProcOK
  <2> QED BY <2>1, <2>2
<1> QED BY <1>1, <1>2, <1>3, <1>4 DEF FenceInv

-----------------------------------------------------------------------------
(* The invariant is inductive. *)

\* The empty database is in order.
LEMMA EmptyDbOK == ASSUME NEW born PROVE DbOK(EmptyDb(born))
BY DEF DbOK, IsDb, EmptyDb

\* The program starts on an empty database, nobody holding anything.
LEMMA FenceInit == Init => FenceInv
<1> SUFFICES ASSUME Init PROVE FenceInv
    OBVIOUS
<1>1. LockInv
    BY LockInitInv DEF Init
<1>2. DbOK(db)
    BY EmptyDbOK DEF Init
<1>3. /\ phase \in [Procs -> Phases] /\ tx = [q \in Procs |-> tx[q]]
      /\ token = [q \in Procs |-> token[q]] /\ generation \in Nat
    BY DEF Init, Phases
<1>4. ASSUME NEW q \in Procs PROVE ProcOK(q)
    BY DEF Init, ProcOK, TokenOK, NoToken, Locked, InTx
<1> QED BY <1>1, <1>2, <1>3, <1>4 DEF FenceInv

\* Calling, waiting, giving up, returning and emitting.
LEMMA OutsideKeeps ==
    ASSUME FenceInv, NEW p \in Procs,
           Call(p) \/ Enter(p) \/ Wait(p) \/ GiveUp(p) \/ Return(p) \/ Emit(p) \/ Finish(p)
    PROVE  FenceInv'
<1> USE DEF FenceInv
<1>1. [LockNext]_lockVars
    BY DEF Call, Enter, Wait, GiveUp, Return, Emit, Finish, LockNext, lockVars
<1>2. LockInv'
    BY <1>1, LockStepInv
<1>3. UNCHANGED <<db, generation, tx, token>>
    BY DEF Call, Enter, Wait, GiveUp, Return, Emit, Finish, storeVars
<1>4. CASE Call(p)
    BY <1>2, <1>3, <1>4, LockMoveKeeps DEF Call, lockVars, Phases, Locked, InTx
<1>5. CASE Enter(p)
    BY <1>2, <1>3, <1>5, LockMoveKeeps
    DEF Enter, TryLock, Acquired, Phases, Locked, InTx, LockInv, LockTypeOK
<1>6. CASE Wait(p)
    BY <1>2, <1>3, <1>6, LockMoveKeeps
    DEF Wait, TryLockFails, HelperLocks, storeVars, Locked, InTx, LockInv, LockTypeOK
<1>7. CASE GiveUp(p)
    BY <1>2, <1>3, <1>7, LockMoveKeeps
    DEF GiveUp, CancelWait, Phases, Locked, InTx, LockInv, LockTypeOK
<1>8. CASE Return(p)
    BY <1>2, <1>3, <1>8, LockMoveKeeps
    DEF Return, Unlock, Phases, Locked, InTx, LockInv, LockTypeOK
<1>9. CASE Emit(p)
    BY <1>2, <1>3, <1>9, LockMoveKeeps DEF Emit, lockVars, Locked, InTx
<1>10. CASE Finish(p)
    BY <1>2, <1>3, <1>10, LockMoveKeeps DEF Finish, lockVars, Phases, Locked, InTx
<1> QED BY <1>4, <1>5, <1>6, <1>7, <1>8, <1>9, <1>10

\* A failed operation rolls back.
LEMMA FailKeeps == ASSUME FenceInv, NEW p \in Procs, Fail(p) PROVE FenceInv'
<1>1. /\ phase[p] \in {"locked"} \cup InTx /\ phase' = [phase EXCEPT ![p] = "returning"]
      /\ tx' = [tx EXCEPT ![p] = NoTx]
      /\ UNCHANGED <<mu, lk, orphans, db, generation, token>>
    BY DEF Fail, lockVars
<1>2. LockInv' /\ phase' \in [Procs -> Phases] /\ tx' = [q \in Procs |-> tx'[q]]
    BY <1>1 DEF FenceInv, LockInv, LockTypeOK, LockOwned, Phases
<1>3. ASSUME NEW q \in Procs PROVE ProcOK(q)'
  <2>1. TokenOK(token[q])'
    BY <1>1 DEF FenceInv, ProcOK, TokenOK
  <2>2. phase'[q] \in Locked => lk'[q] = "holding"
    BY <1>1 DEF FenceInv, ProcOK, Locked
  <2>3. phase'[q] \notin InTx
    BY <1>1, OneHolder DEF FenceInv, Locked, InTx
  <2> QED BY <2>1, <2>2, <2>3 DEF ProcOK
<1> QED BY <1>1, <1>2, <1>3 DEF FenceInv

\* The operations that change messages by id, or none.
LEMMA RowOperationKeeps ==
    ASSUME FenceInv, NEW p \in Procs,
           ReadMessage(p) \/ MarkReadDetail(p) \/ MarkRead(p) \/ SetReadState(p)
           \/ DeleteMessages(p) \/ DeletePOP3Messages(p) \/ DeleteMailbox(p)
    PROVE  FenceInv'
<1>1. phase[p] = "locked" /\ generation' = generation /\ token' = token
    BY DEF ReadMessage, MarkReadDetail, MarkRead, SetReadState, DeleteMessages,
           DeletePOP3Messages, DeleteMailbox, Body
<1>2. DbOK(db) /\ Later(db, db)
    BY LaterReflexive DEF FenceInv
<1>3. \E d, evs : Commit(p, d, evs) /\ DbOK(d) /\ Later(db, d)
  <2>1. CASE ReadMessage(p)
    BY <1>2, <2>1, SetReadLater DEF ReadMessage
  <2>2. CASE MarkReadDetail(p)
    BY <1>2, <2>2, SetReadLater DEF MarkReadDetail
  <2>3. CASE MarkRead(p)
    BY <1>2, <2>3, SetReadLater DEF MarkRead
  <2>4. CASE SetReadState(p)
    BY <1>2, <2>4, SetReadLater DEF SetReadState, CommitAffected
  <2>5. CASE DeleteMessages(p)
    BY <1>2, <2>5, DeleteRowsLater DEF DeleteMessages, CommitAffected
  <2>6. CASE DeletePOP3Messages(p)
    BY <1>2, <2>6, DeleteRowsLater DEF DeletePOP3Messages, CommitAffected
  <2>7. CASE DeleteMailbox(p)
    BY <1>2, <2>7, DeleteMailboxLater DEF DeleteMailbox
  <2> QED BY <2>1, <2>2, <2>3, <2>4, <2>5, <2>6, <2>7
<1> QED BY <1>1, <1>3, CommitKeeps

\* The operations that hand out a token.
LEMMA TokenOperationKeeps ==
    ASSUME FenceInv, NEW p \in Procs, GetMessage(p) \/ OpenPOP3Mailbox(p)
    PROVE  FenceInv'
<1>1. phase[p] = "locked" /\ generation' = generation
    BY DEF GetMessage, OpenPOP3Mailbox, Body
<1>2. DbOK(db) /\ Later(db, db)
    BY LaterReflexive DEF FenceInv
<1>3. CASE GetMessage(p)
  <2>1. Commit(p, db, <<>>)
    BY <1>3 DEF GetMessage
  <2>2. token' = token \/ \E id \in MessageIds :
                            Remember(p, "detail", WithId(db.messages, {id}))
    BY <1>3 DEF GetMessage
  <2>3. \A id : WithId(db.messages, {id}) \subseteq db.messages
    BY DEF WithId
  <2>4. CASE token' = token
    BY <1>1, <1>2, <2>1, <2>4, CommitKeeps
  <2>5. CASE \E id \in MessageIds : Remember(p, "detail", WithId(db.messages, {id}))
    BY <1>1, <1>2, <2>1, <2>3, <2>5, RememberKeeps
  <2> QED BY <2>2, <2>4, <2>5
<1>4. CASE OpenPOP3Mailbox(p)
  <2>1. ASSUME NEW address, NEW evs,
               Commit(p, InsertMailbox(db, address), evs), Remember(p, "snapshot", {})
        PROVE  FenceInv'
    BY <1>1, <1>2, <2>1, InsertMailboxLater, RememberKeeps
  <2>2. ASSUME NEW mbox, Commit(p, db, <<>>),
               Remember(p, "snapshot", MessagesIn(db, mbox))
        PROVE  FenceInv'
    <3>1. MessagesIn(db, mbox) \subseteq db.messages
      BY DEF MessagesIn
    <3> QED BY <1>1, <1>2, <2>2, <3>1, RememberKeeps
  <2> QED BY <1>4, <2>1, <2>2 DEF OpenPOP3Mailbox
<1> QED BY <1>3, <1>4

\* A reset moves the generation past every token there is.
LEMMA WipeKeeps == ASSUME FenceInv, NEW p \in Procs, WipeAll(p) PROVE FenceInv'
<1>1. /\ phase[p] = "locked" /\ phase' = [phase EXCEPT ![p] = "returning"]
      /\ tx' = [tx EXCEPT ![p] = NoTx] /\ db' = EmptyDb(db.born)
      /\ generation' = generation + 1 /\ token' = token
      /\ UNCHANGED <<mu, lk, orphans>>
    BY DEF WipeAll, Body, Commit, lockVars
<1>2. LockInv' /\ phase' \in [Procs -> Phases] /\ tx' = [q \in Procs |-> tx'[q]]
    BY <1>1 DEF FenceInv, LockInv, LockTypeOK, LockOwned, Phases
<1>3. DbOK(db)'
    BY <1>1, EmptyDbOK
<1>4. ASSUME NEW q \in Procs PROVE ProcOK(q)'
  <2>1. TokenOK(token[q])'
    BY <1>1 DEF FenceInv, ProcOK, TokenOK
  <2>2. phase'[q] \in Locked => lk'[q] = "holding"
    BY <1>1 DEF FenceInv, ProcOK, Locked
  <2>3. phase'[q] \notin InTx
    BY <1>1, OneHolder DEF FenceInv, Locked, InTx
  <2> QED BY <2>1, <2>2, <2>3 DEF ProcOK
<1> QED BY <1>1, <1>2, <1>3, <1>4 DEF FenceInv

\* StoreMessage: the transaction only grows, and its commit is later.
LEMMA StoreKeeps == ASSUME FenceInv, NEW p \in Procs, Store(p) PROVE FenceInv'
<1> USE DEF FenceInv
<1>1. CASE BeginStore(p)
  <2>1. /\ phase[p] = "locked" /\ phase' = [phase EXCEPT ![p] = "recipient"]
        /\ UNCHANGED <<lockVars, db, generation, token>>
    BY <1>1 DEF BeginStore, Body
  <2>2. PICK in \in Inputs :
          tx' = [tx EXCEPT ![p] = [db |-> db, input |-> in, todo |-> in.recipients,
                                   cal |-> <<>>, mbox |-> 0]]
    BY <1>1 DEF BeginStore
  <2>3. IsTx(tx'[p]) /\ tx'[p].db = db
    BY <2>2 DEF IsTx
  <2> QED BY <2>1, <2>2, <2>3, LaterReflexive, TxStepKeeps DEF Phases, Locked, InTx
<1>2. ASSUME phase[p] \in InTx PROVE IsTx(tx[p]) /\ DbOK(tx[p].db) /\ Later(db, tx[p].db)
    BY <1>2 DEF ProcOK, TxOK
<1>3. CASE SkipBlank(p)
  <2>1. /\ phase[p] = "recipient" /\ phase' = phase
        /\ UNCHANGED <<lockVars, db, generation, token>>
        /\ tx' = [tx EXCEPT ![p].todo = Tail(@)]
    BY <1>3 DEF SkipBlank
  <2>2. IsTx(tx'[p]) /\ tx'[p].db = tx[p].db
    BY <1>2, <2>1 DEF IsTx, InTx
  <2> QED BY <1>2, <2>1, <2>2, TxStepKeeps DEF Phases, Locked, InTx
<1>4. CASE DeliverRecipient(p)
  <2> DEFINE d == UpsertMailbox(tx[p].db, Recipient(p), call[p].now)
  <2>1. /\ phase[p] = "recipient" /\ phase' = [phase EXCEPT ![p] = "calendar"]
        /\ UNCHANGED <<lockVars, db, generation, token>>
    BY <1>4 DEF DeliverRecipient
  <2>2. PICK b \in MailboxOf(d, Recipient(p)) :
          tx' = [tx EXCEPT ![p].db = InsertMessage(d, b.id, call[p].now),
                           ![p].cal = tx[p].input.ical,
                           ![p].mbox = b.id]
    BY <1>4 DEF DeliverRecipient
  <2>3. DbOK(tx[p].db) /\ Later(db, tx[p].db)
    BY <1>2, <2>1 DEF InTx
  <2>4. DbOK(d) /\ Later(tx[p].db, d)
    BY <2>3, UpsertMailboxLater
  <2> HIDE DEF d
  <2>5. /\ DbOK(InsertMessage(d, b.id, call[p].now))
        /\ Later(d, InsertMessage(d, b.id, call[p].now))
    BY <2>4, InsertMessageLater
  <2>6. Later(db, InsertMessage(d, b.id, call[p].now))
    BY <2>3, <2>4, <2>5, LaterTransitive
  <2>7. IsTx(tx'[p]) /\ tx'[p].db = InsertMessage(d, b.id, call[p].now)
    BY <1>2, <2>1, <2>2 DEF IsTx, InTx
  <2> QED BY <2>1, <2>2, <2>5, <2>6, <2>7, TxStepKeeps DEF Phases, Locked, InTx
<1>5. CASE ApplyCalendar(p)
  <2> DEFINE rows == ApplyCalendarEvent(tx[p].db.calendar, tx[p].mbox,
                                        Inserted(tx[p].db), Head(tx[p].cal))
             e == [tx[p].db EXCEPT !.calendar = rows]
  <2>1. /\ phase[p] = "calendar" /\ phase' = phase
        /\ UNCHANGED <<lockVars, db, generation, token>>
        /\ tx' = [tx EXCEPT ![p].db.calendar = rows, ![p].cal = Tail(@)]
    BY <1>5 DEF ApplyCalendar
  <2> HIDE DEF rows
  <2>2. DbOK(tx[p].db) /\ Later(db, tx[p].db)
    BY <1>2, <2>1 DEF InTx
  <2>3. DbOK(e) /\ Later(tx[p].db, e)
    BY <2>2, CalendarLater
  <2>4. IsTx(tx'[p]) /\ tx'[p].db = e
    BY <1>2, <2>1 DEF IsTx, InTx
  <2> HIDE DEF e
  <2>5. Later(db, e)
    BY <2>2, <2>3, LaterTransitive
  <2> QED BY <2>1, <2>3, <2>4, <2>5, TxStepKeeps DEF Phases, Locked, InTx
<1>6. CASE FinishRecipient(p)
  <2> DEFINE e == InsertAttachments(tx[p].db, tx[p].db.messageSeq, tx[p].input.attachments)
  <2>1. /\ phase[p] = "calendar" /\ phase' = [phase EXCEPT ![p] = "recipient"]
        /\ UNCHANGED <<lockVars, db, generation, token>>
        /\ tx' = [tx EXCEPT ![p].db = e, ![p].todo = Tail(@)]
    BY <1>6 DEF FinishRecipient
  <2>2. DbOK(tx[p].db) /\ Later(db, tx[p].db)
    BY <1>2, <2>1 DEF InTx
  <2>3. DbOK(e) /\ Later(tx[p].db, e)
    BY <2>2, InsertAttachmentsLater
  <2> HIDE DEF e
  <2>4. Later(db, e)
    BY <2>2, <2>3, LaterTransitive
  <2>5. IsTx(tx'[p]) /\ tx'[p].db = e
    BY <1>2, <2>1 DEF IsTx, InTx
  <2> QED BY <2>1, <2>3, <2>4, <2>5, TxStepKeeps DEF Phases, Locked, InTx
<1>7. CASE CommitStore(p)
  <2>1. phase[p] = "recipient" /\ Commit(p, tx[p].db, pending[p])
        /\ generation' = generation /\ token' = token
    BY <1>7 DEF CommitStore
  <2>2. DbOK(tx[p].db) /\ Later(db, tx[p].db)
    BY <1>2, <2>1 DEF InTx
  <2> QED BY <2>1, <2>2, CommitKeeps DEF InTx
<1> QED BY <1>1, <1>3, <1>4, <1>5, <1>6, <1>7 DEF Store

\* A restart forgets every token with the generation.
LEMMA RestartKeeps == FenceInv /\ Restart => FenceInv'
<1> SUFFICES ASSUME FenceInv, Restart PROVE FenceInv'
    OBVIOUS
<1>1. LockInv'
    BY ProcsAssumption, OrphansAssumption
    DEF Restart, LockInv, LockTypeOK, LockOwned, Free, Abandoned
<1>2. /\ phase' \in [Procs -> Phases] /\ tx' = [q \in Procs |-> tx'[q]]
      /\ token' = [q \in Procs |-> token'[q]] /\ generation' \in Nat /\ db' = db
    BY DEF Restart, Phases
<1>3. ASSUME NEW q \in Procs PROVE ProcOK(q)'
    BY DEF Restart, ProcOK, TokenOK, NoToken, Locked, InTx
<1> QED BY <1>1, <1>2, <1>3 DEF FenceInv

\* Every step keeps the invariant.
LEMMA FenceStep == FenceInv /\ [Next]_vars => FenceInv'
<1> SUFFICES ASSUME FenceInv, [Next]_vars PROVE FenceInv'
    OBVIOUS
<1>1. CASE UNCHANGED vars
    BY <1>1 DEF vars, storeVars, lockVars, FenceInv, LockInv, LockTypeOK, LockOwned,
                ProcOK, TxOK, TokenOK
<1>2. ASSUME NEW p \in Procs, Step(p) PROVE FenceInv'
    BY <1>2, OutsideKeeps, FailKeeps, RowOperationKeeps, TokenOperationKeeps, WipeKeeps,
       StoreKeeps DEF Step, Operate
<1>3. CASE Background /\ UNCHANGED storeVars
  <2>1. LockInv'
    BY <1>3, LockStepInv DEF LockNext, FenceInv
  <2>2. lk' = lk
    BY <1>3 DEF Background, OrphanLocks, CleanupUnlocks
  <2> QED BY <1>3, <2>1, <2>2 DEF storeVars, FenceInv, ProcOK, TxOK, TokenOK
<1>4. CASE Restart
    BY <1>4, RestartKeeps
<1> QED BY <1>1, <1>2, <1>3, <1>4 DEF Next

\* Every state of the store satisfies the inductive invariant.
THEOREM FenceInvariant == Spec => []FenceInv
BY FenceInit, FenceStep, PTL DEF Spec

\* While a token's generation (MessageDetail's or POP3MailboxSnapshot's) is
\* Store.pop3Generation, every id it holds names the message it was read from
\* or nothing.
THEOREM FenceHolds == Spec => []TokenFence
<1>1. FenceInv => TokenFence
    BY DEF FenceInv, ProcOK, TokenOK, TokenFence
<1> QED BY <1>1, FenceInvariant, PTL

-----------------------------------------------------------------------------
(* From the invariant to what the fenced operations do. *)

\* Under a current token, a row with one of its ids has one of its serials.
LEMMA CurrentRows ==
    ASSUME FenceInv, NEW p \in Procs, token[p].gen = generation,
           NEW m \in db.messages, m.id \in {r.id : r \in token[p].rows}
    PROVE  m.serial \in {r.serial : r \in token[p].rows}
<1>1. PICK r \in token[p].rows : r.id = m.id
    OBVIOUS
<1>2. r.serial = m.serial
    BY <1>1 DEF FenceInv, ProcOK, TokenOK
<1> QED BY <1>1, <1>2

\* Each body of the two operations removes or changes only rows with ids of a
\* current token, or nothing.
LEMMA FencedBody ==
    ASSUME FenceInv, NEW p \in Procs, MarkReadDetail(p) \/ DeletePOP3Messages(p)
    PROVE  \/ db' = db
           \/ /\ token[p].gen = generation
              /\ \A m \in db.messages \ db'.messages :
                    m.id \in {r.id : r \in token[p].rows}
<1>1. DbOK(db)
    BY DEF FenceInv
<1>2. CASE MarkReadDetail(p)
  <2>1. \/ db' = db
        \/ /\ token[p].gen = generation
           /\ \E r \in token[p].rows : db' = SetRead(db, {r.id}, 1)
    BY <1>2 DEF MarkReadDetail, Commit
  <2>2. ASSUME NEW r \in token[p].rows, db' = SetRead(db, {r.id}, 1)
        PROVE  \A m \in db.messages \ db'.messages : m.id = r.id
    BY <1>1, <2>2, SetReadLater
  <2> QED BY <2>1, <2>2
<1>3. CASE DeletePOP3Messages(p)
  <2>1. \/ db' = db
        \/ /\ token[p].gen = generation
           /\ \E ids \in SUBSET {r.id : r \in token[p].rows} : db' = DeleteRows(db, ids)
    BY <1>3 DEF DeletePOP3Messages, CommitAffected, Commit
  <2>2. ASSUME NEW ids \in SUBSET {r.id : r \in token[p].rows}, db' = DeleteRows(db, ids)
        PROVE  \A m \in db.messages \ db'.messages : m.id \in ids
    BY <1>1, <2>2, DeleteRowsLater
  <2> QED BY <2>1, <2>2
<1> QED BY <1>2, <1>3

\* Which step takes p from the lock to its return: its own body or a failure.
LEMMA BodyStep ==
    ASSUME FenceInv, [Next]_vars, NEW p \in Procs,
           phase[p] = "locked", phase'[p] = "returning",
           call[p].op \in {"MarkReadDetail", "DeletePOP3Messages"}
    PROVE  MarkReadDetail(p) \/ DeletePOP3Messages(p) \/ db' = db
<1> USE DEF FenceInv
<1>1. CASE UNCHANGED vars
    BY <1>1 DEF vars, storeVars
<1>2. CASE Background /\ UNCHANGED storeVars
    BY <1>2 DEF storeVars
<1>3. CASE Restart
    BY <1>3 DEF Restart
<1>4. ASSUME NEW q \in Procs, Step(q)
      PROVE  MarkReadDetail(p) \/ DeletePOP3Messages(p) \/ db' = db
  <2>1. CASE Call(q) \/ Enter(q) \/ Wait(q) \/ GiveUp(q) \/ Return(q) \/ Emit(q)
             \/ Finish(q) \/ Fail(q)
    BY <2>1 DEF Call, Enter, Wait, GiveUp, Return, Emit, Finish, Fail, storeVars
  <2>2. CASE BeginStore(q) \/ SkipBlank(q) \/ DeliverRecipient(q) \/ ApplyCalendar(q)
             \/ FinishRecipient(q)
    BY <2>2 DEF BeginStore, SkipBlank, DeliverRecipient, ApplyCalendar, FinishRecipient
  <2>3. ASSUME Operate(q) \/ CommitStore(q), q # p PROVE FALSE
    <3>1. phase[q] \in Locked
      BY <2>3 DEF Operate, CommitStore, GetMessage, ReadMessage, MarkReadDetail, MarkRead,
                  SetReadState, DeleteMessages, OpenPOP3Mailbox, DeletePOP3Messages,
                  DeleteMailbox, WipeAll, Body, Locked, InTx
    <3> QED BY <2>3, <3>1, OneHolder DEF Locked
  <2>4. ASSUME q = p, Operate(p) PROVE MarkReadDetail(p) \/ DeletePOP3Messages(p)
    BY <2>4 DEF Operate, GetMessage, ReadMessage, MarkRead, SetReadState, DeleteMessages,
                OpenPOP3Mailbox, DeleteMailbox, WipeAll, Body
  <2>5. ASSUME q = p, CommitStore(p) PROVE FALSE
    BY <2>5 DEF CommitStore
  <2> QED BY <1>4, <2>1, <2>2, <2>3, <2>4, <2>5 DEF Step, Store
<1> QED BY <1>1, <1>2, <1>3, <1>4 DEF Next

\* MarkReadDetail and DeletePOP3Messages change or remove no message other than
\* those their caller has read, whatever ran since it read them.
THEOREM FencedOperations == Spec => FencedEffects
<1>1. FenceInv /\ [Next]_vars => [FencedStep]_vars
  <2> SUFFICES ASSUME FenceInv, [Next]_vars, NEW p \in Procs,
                      phase[p] = "locked", phase'[p] = "returning",
                      call[p].op \in {"MarkReadDetail", "DeletePOP3Messages"},
                      NEW m \in db.messages \ db'.messages
               PROVE  m.serial \in {r.serial : r \in token[p].rows}
    BY DEF FencedStep
  <2>1. MarkReadDetail(p) \/ DeletePOP3Messages(p)
    BY BodyStep
  <2>2. token[p].gen = generation /\ m.id \in {r.id : r \in token[p].rows}
    BY <2>1, FencedBody
  <2> QED BY <2>2, CurrentRows
<1> QED BY <1>1, FenceInvariant, PTL DEF Spec, FencedEffects
=============================================================================
