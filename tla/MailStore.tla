----------------------------- MODULE MailStore -----------------------------
(***************************************************************************)
(* The store: the SQLite tables, the operations that change them, the      *)
(* reset generation that fences tokens read before a reset, and the events *)
(* every operation queues and emits after it has released the lock.        *)
(*                                                                         *)
(* A process is a goroutine of the SMTP, POP3 or HTTP server calling one   *)
(* operation at a time.  A call goes through the phases                    *)
(*     idle -> calling -> locked -> [recipient <-> calendar ->]            *)
(*          returning -> emitting -> idle                                  *)
(* and may fail (a cancelled context, an SQL error) anywhere on the way.   *)
(* Operations other than StoreMessage run one statement or one short       *)
(* transaction under the lock, so their body is one step; StoreMessage     *)
(* loops over recipients and calendar components inside a transaction.     *)
(* Arguments are chosen when the body runs, since nothing before it reads  *)
(* them; StoreMessage's timestamp is taken at the call, as in the code.    *)
(***************************************************************************)
EXTENDS Pop3Lock, CalendarRows, Integers, Sequences, FiniteSets, SequencesExt

CONSTANTS
    Addresses,        \* normalized mailbox addresses
    RawAddresses,     \* what a client may write: case, blanks, nothing at all
    Normalize,        \* strings.TrimSpace(strings.ToLower(raw)), as a function
    Blank,            \* the empty string
    Inputs,           \* StoreMessageInput: [recipients, ical, attachments]
    Operations,       \* the operations the processes call
    Times,            \* wall-clock milliseconds
    MaxBorn,          \* bound: messages ever inserted
    MaxMailboxId,     \* bound: the mailboxes AUTOINCREMENT counter
    MaxGeneration     \* bound: resets since the program started

Null == 0             \* last_message_at IS NULL

ASSUME NormalizeAssumption == Normalize \in [RawAddresses -> Addresses \cup {Blank}]
ASSUME BlankAssumption == Blank \notin Addresses
ASSUME InputsAssumption ==
    \A in \in Inputs : in.recipients \in Seq(RawAddresses) /\ in.attachments \in Nat
ASSUME TimesAssumption == Times \subseteq Nat \ {Null}
ASSUME BoundsAssumption == /\ MaxBorn \in Nat
                           /\ MaxMailboxId \in Nat
                           /\ MaxGeneration \in Nat

VARIABLES
    db,           \* the committed tables
    generation,   \* Store.pop3Generation
    phase,        \* where each process is in its call
    call,         \* the operation it called, and StoreMessage's `now`
    tx,           \* StoreMessage's open transaction
    token,        \* the MessageDetail or POP3MailboxSnapshot a process keeps
    pending,      \* events queued by a process
    dirty         \* ghost: resources changed and not invalidated since

storeVars == <<db, generation, phase, call, tx, token, pending, dirty>>
vars == <<lockVars, storeVars>>

-----------------------------------------------------------------------------
(* The tables.  AUTOINCREMENT never gives an id twice while its counter in   *)
(* sqlite_sequence lives; `born` and `serial` are ghosts that tell a message *)
(* from a later one that was given the same id.                              *)

MessageIds == 1..MaxBorn
MailboxIds == 1..MaxMailboxId

EmptyDb(born) ==
    [mailboxes |-> {}, messages |-> {}, attachments |-> {}, calendar |-> {},
     mailboxSeq |-> 0, messageSeq |-> 0, attachmentSeq |-> 0, born |-> born]

WithId(rows, ids) == {r \in rows : r.id \in ids}

MailboxOf(d, address) == {b \in d.mailboxes : b.address = address}

MessagesIn(d, mbox) == {m \in d.messages : m.mbox = mbox}

\* DELETE FROM messages WHERE id IN (...), with ON DELETE CASCADE.
DeleteRows(d, ids) ==
    [d EXCEPT !.messages = {m \in @ : m.id \notin ids},
              !.attachments = {a \in @ : a.message \notin ids}]

\* Mutant: the cascade stops at the messages table.
DeleteMailboxRowShallow(d, mbox) ==
    [d EXCEPT !.mailboxes = {b \in @ : b.id # mbox},
              !.messages = {m \in @ : m.mbox # mbox},
              !.calendar = {c \in @ : c.mbox # mbox}]

\* DELETE FROM mailboxes WHERE id=?, with ON DELETE CASCADE.
DeleteMailboxRow(d, mbox) ==
    LET gone == {m.id : m \in MessagesIn(d, mbox)}
    IN  [DeleteRows(d, gone) EXCEPT
             !.mailboxes = {b \in @ : b.id # mbox},
             !.calendar = {c \in @ : c.mbox # mbox}]

\* UPDATE messages SET is_read=value WHERE id IN (...)
SetRead(d, ids, value) ==
    [d EXCEPT !.messages =
        {IF m.id \in ids THEN [m EXCEPT !.read = value] ELSE m : m \in @}]

\* INSERT INTO mailboxes(...) VALUES(?,?,NULL)
InsertMailbox(d, address) ==
    LET id == d.mailboxSeq + 1
    IN  [d EXCEPT !.mailboxes = @ \cup {[id |-> id, address |-> address, last |-> Null]},
                  !.mailboxSeq = id]

\* Mutant: the newest commit wins.
LaterOfLastWriter(old, new) == new

\* The CASE of the upsert: the later of the two timestamps, NULL-aware.
LaterOf(old, new) == IF old = Null THEN new ELSE IF old >= new THEN old ELSE new

\* INSERT INTO mailboxes ... ON CONFLICT(address) DO UPDATE SET last_message_at.
\* SQLite draws the new id before it meets the conflict, so the counter
\* advances either way.
UpsertMailbox(d, address, now) ==
    LET old == MailboxOf(d, address)
        new == IF old = {}
               THEN {[id |-> d.mailboxSeq + 1, address |-> address, last |-> now]}
               ELSE {[b EXCEPT !.last = LaterOf(b.last, now)] : b \in old}
    IN  [d EXCEPT !.mailboxes = (@ \ old) \cup new,
                  !.mailboxSeq = @ + 1]

\* Mutant: PRIMARY KEY without AUTOINCREMENT, the highest id in use plus one.
InsertMessageReusesId(d, mbox, now) ==
    LET id == CHOOSE i \in 1..(MaxBorn + 1) :
                /\ \A m \in d.messages : m.id < i
                /\ i = 1 \/ \E m \in d.messages : m.id = i - 1
        row == [id |-> id, mbox |-> mbox, recv |-> now, read |-> 0, serial |-> d.born + 1]
    IN  [d EXCEPT !.messages = @ \cup {row},
                  !.messageSeq = id,
                  !.born = @ + 1]

\* INSERT INTO messages ...
InsertMessage(d, mbox, now) ==
    LET row == [id |-> d.messageSeq + 1, mbox |-> mbox, recv |-> now,
                read |-> 0, serial |-> d.born + 1]
    IN  [d EXCEPT !.messages = @ \cup {row},
                  !.messageSeq = @ + 1,
                  !.born = @ + 1]

\* INSERT INTO attachments ..., once per attachment.
InsertAttachments(d, message, count) ==
    [d EXCEPT !.attachments =
                  @ \cup {[id |-> d.attachmentSeq + i, message |-> message] : i \in 1..count},
              !.attachmentSeq = @ + count]

\* affectedMailboxes: SELECT DISTINCT mailbox_id FROM messages WHERE id IN (...)
AffectedMailboxes(d, ids) == {m.mbox : m \in WithId(d.messages, ids)}

-----------------------------------------------------------------------------
(* Events, and what the page refetches when one arrives (use-hoomail.ts). *)

Event(type, mbox) == [type |-> type, mbox |-> mbox]
MailboxNew(mbox) == Event("mailbox:new", mbox)
MessageNew(mbox) == Event("message:new", mbox)
MessagesChanged(mbox) == Event("messages:changed", mbox)
MailboxDeleted(mbox) == Event("mailbox:deleted", mbox)
CalendarChanged(mbox) == Event("calendar:changed", mbox)
Reset == Event("reset", 0)

Resource(kind, mbox) == [kind |-> kind, mbox |-> mbox]
MailboxList == Resource("mailboxes", 0)
Resources == {MailboxList} \cup
             {Resource(k, b) : k \in {"messages", "events"}, b \in MailboxIds}

Invalidates(e) ==
    CASE e.type \in {"mailbox:new", "mailbox:deleted"} -> {MailboxList}
      [] e.type \in {"message:new", "messages:changed"} ->
             {MailboxList, Resource("messages", e.mbox)}
      [] e.type = "calendar:changed" -> {Resource("events", e.mbox)}
      [] OTHER -> Resources

\* What ListMailboxes, ListMessages and ListCalendarEvents would answer.
View(d, r) ==
    CASE r.kind = "mailboxes" ->
             {<<b, Cardinality(MessagesIn(d, b.id)),
                Cardinality({m \in MessagesIn(d, b.id) : m.read = 0})>> : b \in d.mailboxes}
      [] r.kind = "messages" -> MessagesIn(d, r.mbox)
      [] OTHER -> {c \in d.calendar : c.mbox = r.mbox}

\* The resources a commit changes, those of vanished mailboxes left out.
Changed(old, new) ==
    {r \in Resources :
        /\ r = MailboxList \/ \E b \in new.mailboxes : b.id = r.mbox
        /\ View(old, r) # View(new, r)}

-----------------------------------------------------------------------------
(* Process state. *)

Phases == {"idle", "calling", "locked", "recipient", "calendar", "returning", "emitting"}
InTx == {"recipient", "calendar"}
Locked == {"locked", "returning"} \cup InTx

NoCall == [op |-> "none", now |-> Null]
NoTx == "none"
NoToken == [kind |-> "none", gen |-> 0, rows |-> {}]

Init ==
    /\ LockInit
    /\ db = EmptyDb(0)
    /\ generation = 0
    /\ phase = [p \in Procs |-> "idle"]
    /\ call = [p \in Procs |-> NoCall]
    /\ tx = [p \in Procs |-> NoTx]
    /\ token = [p \in Procs |-> NoToken]
    /\ pending = [p \in Procs |-> <<>>]
    /\ dirty = {}

-----------------------------------------------------------------------------
(* Calling, locking, returning. *)

\* The early returns before the lock: a token that cannot be used is no call.
Callable(p, op) ==
    /\ op = "MarkReadDetail" => /\ token[p].kind = "detail"
                                /\ \A m \in token[p].rows : m.read = 0
    /\ op = "DeletePOP3Messages" => token[p].kind = "snapshot"

Call(p) ==
    /\ phase[p] = "idle"
    /\ \E op \in Operations, t \in Times :
         /\ Callable(p, op)
         /\ call' = [call EXCEPT ![p] =
                [op |-> op, now |-> IF op = "StoreMessage" THEN t ELSE Null]]
    /\ phase' = [phase EXCEPT ![p] = "calling"]
    /\ UNCHANGED <<lockVars, db, generation, tx, token, pending, dirty>>

\* acquirePop3 returns nil: at once, or when the helper has got the lock.
Enter(p) ==
    /\ phase[p] = "calling"
    /\ TryLock(p) \/ Acquired(p)
    /\ phase' = [phase EXCEPT ![p] = "locked"]
    /\ UNCHANGED <<db, generation, call, tx, token, pending, dirty>>

Wait(p) ==
    /\ phase[p] = "calling"
    /\ TryLockFails(p) \/ HelperLocks(p)
    /\ UNCHANGED storeVars

\* acquirePop3 returns ctx.Err().
GiveUp(p) ==
    /\ phase[p] = "calling"
    /\ CancelWait(p)
    /\ phase' = [phase EXCEPT ![p] = "idle"]
    /\ call' = [call EXCEPT ![p] = NoCall]
    /\ UNCHANGED <<db, generation, tx, token, pending, dirty>>

\* What the rest of a successful body does: the commit, and the queued events.
Commit(p, d, evs) ==
    /\ db' = d
    /\ dirty' = dirty \cup Changed(db, d)
    /\ pending' = [pending EXCEPT ![p] = evs]
    /\ phase' = [phase EXCEPT ![p] = "returning"]
    /\ tx' = [tx EXCEPT ![p] = NoTx]
    /\ UNCHANGED <<lockVars, call>>

\* A cancelled context or an SQL error: rollback, nothing is queued.
Fail(p) ==
    /\ phase[p] \in {"locked"} \cup InTx
    /\ tx' = [tx EXCEPT ![p] = NoTx]
    /\ pending' = [pending EXCEPT ![p] = <<>>]
    /\ phase' = [phase EXCEPT ![p] = "returning"]
    /\ UNCHANGED <<lockVars, db, generation, call, token, dirty>>

\* The deferred function: unlock first, then emit.
Return(p) ==
    /\ phase[p] = "returning"
    /\ Unlock(p)
    /\ phase' = [phase EXCEPT ![p] = "emitting"]
    /\ UNCHANGED <<db, generation, call, tx, token, pending, dirty>>

\* store.emit of one event; a subscriber that refetches now sees this db.
Emit(p) ==
    /\ phase[p] = "emitting"
    /\ pending[p] # <<>>
    /\ dirty' = dirty \ Invalidates(Head(pending[p]))
    /\ pending' = [pending EXCEPT ![p] = Tail(@)]
    /\ UNCHANGED <<lockVars, db, generation, phase, call, tx, token>>

Finish(p) ==
    /\ phase[p] = "emitting"
    /\ pending[p] = <<>>
    /\ phase' = [phase EXCEPT ![p] = "idle"]
    /\ call' = [call EXCEPT ![p] = NoCall]
    /\ UNCHANGED <<lockVars, db, generation, tx, token, pending, dirty>>

-----------------------------------------------------------------------------
(* The operations, each under the lock. *)

Body(p, op) == phase[p] = "locked" /\ call[p].op = op

\* A message as a process remembers it: the generation it was read in.
Remember(p, kind, rows) ==
    token' = [token EXCEPT ![p] = [kind |-> kind, gen |-> generation, rows |-> rows]]

GetMessage(p) ==
    /\ Body(p, "GetMessage")
    /\ \E id \in MessageIds :
         LET found == WithId(db.messages, {id})
         IN  IF found = {} THEN UNCHANGED token
                           ELSE Remember(p, "detail", found)
    /\ Commit(p, db, <<>>)
    /\ UNCHANGED generation

ReadMessage(p) ==
    /\ Body(p, "ReadMessage")
    /\ \E id \in MessageIds :
         LET found == WithId(db.messages, {id})
             unread == {m \in found : m.read = 0}
         IN  IF unread = {}
             THEN Commit(p, db, <<>>)
             ELSE \E m \in unread :
                    Commit(p, SetRead(db, {id}, 1), <<MessagesChanged(m.mbox)>>)
    /\ UNCHANGED <<generation, token>>

\* Mutant: the generation is not compared.
MarkReadDetailUnfenced(p) ==
    /\ Body(p, "MarkReadDetail")
    /\ \E m \in token[p].rows :
         LET hit == {n \in WithId(db.messages, {m.id}) :
                        n.mbox = m.mbox /\ n.recv = m.recv /\ n.read = 0}
         IN  IF hit = {}
             THEN Commit(p, db, <<>>)
             ELSE Commit(p, SetRead(db, {m.id}, 1), <<MessagesChanged(m.mbox)>>)
    /\ UNCHANGED <<generation, token>>

MarkReadDetail(p) ==
    /\ Body(p, "MarkReadDetail")
    /\ \E m \in token[p].rows :
         LET hit == {n \in WithId(db.messages, {m.id}) :
                        n.mbox = m.mbox /\ n.recv = m.recv /\ n.read = 0}
         IN  IF token[p].gen # generation \/ hit = {}
             THEN Commit(p, db, <<>>)
             ELSE Commit(p, SetRead(db, {m.id}, 1), <<MessagesChanged(m.mbox)>>)
    /\ UNCHANGED <<generation, token>>

MarkRead(p) ==
    /\ Body(p, "MarkRead")
    /\ \E id \in MessageIds, mbox \in MailboxIds :
         LET hit == {n \in WithId(db.messages, {id}) : n.mbox = mbox /\ n.read = 0}
         IN  IF hit = {}
             THEN Commit(p, db, <<>>)
             ELSE Commit(p, SetRead(db, {id}, 1), <<MessagesChanged(mbox)>>)
    /\ UNCHANGED <<generation, token>>

\* Mutant: the affected mailboxes are looked up after the statement.
CommitAffectedLate(p, d, ids) ==
    \E order \in SetToSeqs(AffectedMailboxes(d, ids)) :
        Commit(p, d, [i \in DOMAIN order |-> MessagesChanged(order[i])])

\* One MessagesChanged for each affected mailbox, in the order of the rows.
CommitAffected(p, d, ids) ==
    \E order \in SetToSeqs(AffectedMailboxes(db, ids)) :
        Commit(p, d, [i \in DOMAIN order |-> MessagesChanged(order[i])])

SetReadState(p) ==
    /\ Body(p, "SetReadState")
    /\ \E ids \in SUBSET MessageIds \ {{}}, value \in {0, 1} :
         CommitAffected(p, SetRead(db, ids, value), ids)
    /\ UNCHANGED <<generation, token>>

DeleteMessages(p) ==
    /\ Body(p, "DeleteMessages")
    /\ \E ids \in SUBSET MessageIds \ {{}} :
         CommitAffected(p, DeleteRows(db, ids), ids)
    /\ UNCHANGED <<generation, token>>

\* Mutant: the mailbox that POP3 creates is not announced.
OpenPOP3MailboxSilent(p) ==
    /\ Body(p, "OpenPOP3Mailbox")
    /\ \E raw \in RawAddresses :
         LET address == Normalize[raw]
             old == MailboxOf(db, address)
         IN  /\ address # Blank
             /\ old = {}
             /\ db.mailboxSeq + 1 \in MailboxIds
             /\ Commit(p, InsertMailbox(db, address), <<>>)
             /\ Remember(p, "snapshot", {})
    /\ UNCHANGED generation

OpenPOP3Mailbox(p) ==
    /\ Body(p, "OpenPOP3Mailbox")
    /\ \E raw \in RawAddresses :
         LET address == Normalize[raw]
             old == MailboxOf(db, address)
             id == db.mailboxSeq + 1
         IN  /\ address # Blank
             /\ \/ /\ old = {}
                   /\ id \in MailboxIds
                   /\ Commit(p, InsertMailbox(db, address), <<MailboxNew(id)>>)
                   /\ Remember(p, "snapshot", {})
                \/ \E b \in old :
                     /\ Commit(p, db, <<>>)
                     /\ Remember(p, "snapshot", MessagesIn(db, b.id))
    /\ UNCHANGED generation

\* ids are message numbers of the snapshot the session has marked.
DeletePOP3Messages(p) ==
    /\ Body(p, "DeletePOP3Messages")
    /\ \E ids \in SUBSET {m.id : m \in token[p].rows} :
         IF token[p].gen # generation \/ ids = {}
         THEN Commit(p, db, <<>>)
         ELSE CommitAffected(p, DeleteRows(db, ids), ids)
    /\ UNCHANGED <<generation, token>>

DeleteMailbox(p) ==
    /\ Body(p, "DeleteMailbox")
    /\ \E mbox \in MailboxIds :
         IF WithId(db.mailboxes, {mbox}) = {}
         THEN Commit(p, db, <<>>)
         ELSE Commit(p, DeleteMailboxRow(db, mbox), <<MailboxDeleted(mbox)>>)
    /\ UNCHANGED <<generation, token>>

\* Mutant: the generation stays.
WipeAllWithoutBump(p) ==
    /\ Body(p, "WipeAll")
    /\ Commit(p, EmptyDb(db.born), <<Reset>>)
    /\ UNCHANGED <<generation, token>>

\* The sqlite_sequence rows go too, so ids start again at 1.
WipeAll(p) ==
    /\ Body(p, "WipeAll")
    /\ generation < MaxGeneration
    /\ Commit(p, EmptyDb(db.born), <<Reset>>)
    /\ generation' = generation + 1
    /\ UNCHANGED token

-----------------------------------------------------------------------------
(* StoreMessage: one transaction for all recipients. *)

BeginStore(p) ==
    /\ Body(p, "StoreMessage")
    /\ \E in \in Inputs :
         /\ db.born + Len(in.recipients) <= MaxBorn
         /\ db.mailboxSeq + Len(in.recipients) <= MaxMailboxId
         /\ tx' = [tx EXCEPT ![p] = [db |-> db, input |-> in, todo |-> in.recipients,
                                     cal |-> <<>>, mbox |-> 0]]
    /\ phase' = [phase EXCEPT ![p] = "recipient"]
    /\ UNCHANGED <<lockVars, db, generation, call, token, pending, dirty>>

Recipient(p) == Normalize[Head(tx[p].todo)]

\* Mutant: break instead of continue.
SkipBlankBreaks(p) ==
    /\ phase[p] = "recipient"
    /\ tx[p].todo # <<>>
    /\ Recipient(p) = Blank
    /\ tx' = [tx EXCEPT ![p].todo = <<>>]
    /\ UNCHANGED <<lockVars, db, generation, phase, call, token, pending, dirty>>

\* if address == "" { continue }
SkipBlank(p) ==
    /\ phase[p] = "recipient"
    /\ tx[p].todo # <<>>
    /\ Recipient(p) = Blank
    /\ tx' = [tx EXCEPT ![p].todo = Tail(@)]
    /\ UNCHANGED <<lockVars, db, generation, phase, call, token, pending, dirty>>

\* The mailbox is looked up and upserted, the message row inserted.
DeliverRecipient(p) ==
    /\ phase[p] = "recipient"
    /\ tx[p].todo # <<>>
    /\ Recipient(p) # Blank
    /\ LET d == UpsertMailbox(tx[p].db, Recipient(p), call[p].now)
       IN  \E b \in MailboxOf(d, Recipient(p)) :
             /\ tx' = [tx EXCEPT ![p].db = InsertMessage(d, b.id, call[p].now),
                                 ![p].cal = tx[p].input.ical,
                                 ![p].mbox = b.id]
             /\ pending' = IF MailboxOf(tx[p].db, Recipient(p)) = {}
                           THEN [pending EXCEPT ![p] = Append(@, MailboxNew(b.id))]
                           ELSE pending
    /\ phase' = [phase EXCEPT ![p] = "calendar"]
    /\ UNCHANGED <<lockVars, db, generation, call, token, dirty>>

\* The message row the transaction inserted last.
Inserted(d) == [id |-> d.messageSeq, serial |-> d.born]

ApplyCalendar(p) ==
    /\ phase[p] = "calendar"
    /\ tx[p].cal # <<>>
    /\ tx' = [tx EXCEPT
            ![p].db.calendar = ApplyCalendarEvent(@, tx[p].mbox, Inserted(tx[p].db),
                                                  Head(tx[p].cal)),
            ![p].cal = Tail(@)]
    /\ UNCHANGED <<lockVars, db, generation, phase, call, token, pending, dirty>>

\* CalendarChanged, the attachments, MessageNew; on to the next recipient.
FinishRecipient(p) ==
    /\ phase[p] = "calendar"
    /\ tx[p].cal = <<>>
    /\ tx' = [tx EXCEPT
            ![p].db = InsertAttachments(@, @.messageSeq, tx[p].input.attachments),
            ![p].todo = Tail(@)]
    /\ pending' = [pending EXCEPT ![p] =
            @ \o (IF tx[p].input.ical # <<>> THEN <<CalendarChanged(tx[p].mbox)>> ELSE <<>>)
              \o <<MessageNew(tx[p].mbox)>>]
    /\ phase' = [phase EXCEPT ![p] = "recipient"]
    /\ UNCHANGED <<lockVars, db, generation, call, token, dirty>>

CommitStore(p) ==
    /\ phase[p] = "recipient"
    /\ tx[p].todo = <<>>
    /\ Commit(p, tx[p].db, pending[p])
    /\ UNCHANGED <<generation, token>>

\* The program stops at any point and is started again on the same database
\* file: what was committed stays, everything in memory is gone, and every page
\* has to reconnect, which makes it refetch everything.
Restart ==
    /\ mu' = Free
    /\ lk' = [p \in Procs |-> "out"]
    /\ orphans' = 0
    /\ generation' = 0
    /\ phase' = [p \in Procs |-> "idle"]
    /\ call' = [p \in Procs |-> NoCall]
    /\ tx' = [p \in Procs |-> NoTx]
    /\ token' = [p \in Procs |-> NoToken]
    /\ pending' = [p \in Procs |-> <<>>]
    /\ dirty' = {}
    /\ UNCHANGED db

Operate(p) ==
    \/ GetMessage(p) \/ ReadMessage(p) \/ MarkReadDetail(p) \/ MarkRead(p)
    \/ SetReadState(p) \/ DeleteMessages(p)
    \/ OpenPOP3Mailbox(p) \/ DeletePOP3Messages(p)
    \/ DeleteMailbox(p) \/ WipeAll(p)

Store(p) ==
    \/ BeginStore(p) \/ SkipBlank(p) \/ DeliverRecipient(p)
    \/ ApplyCalendar(p) \/ FinishRecipient(p) \/ CommitStore(p)

Step(p) ==
    \/ Call(p) \/ Enter(p) \/ Wait(p) \/ GiveUp(p)
    \/ Operate(p) \/ Store(p) \/ Fail(p)
    \/ Return(p) \/ Emit(p) \/ Finish(p)

Next ==
    \/ \E p \in Procs : Step(p)
    \/ Background /\ UNCHANGED storeVars
    \/ Restart

Spec == Init /\ [][Next]_vars

-----------------------------------------------------------------------------
(* Properties. *)

MessageRow == [id : MessageIds, mbox : MailboxIds, recv : Times, read : {0, 1},
               serial : MessageIds]
MailboxRow == [id : MailboxIds, address : Addresses, last : Times \cup {Null}]
EventTypes == {"mailbox:new", "message:new", "messages:changed", "mailbox:deleted",
               "calendar:changed", "reset"}

DbTypeOK(d) ==
    /\ d.mailboxes \subseteq MailboxRow
    /\ d.messages \subseteq MessageRow
    /\ \A a \in d.attachments : a.id \in 1..d.attachmentSeq /\ a.message \in MessageIds
    /\ \A c \in d.calendar : c.mbox \in MailboxIds /\ c.last \in MessageIds
    /\ d.mailboxSeq \in 0..MaxMailboxId
    /\ d.messageSeq \in 0..d.born
    /\ d.attachmentSeq \in Nat
    /\ d.born \in 0..MaxBorn

\* Every variable of the store keeps its type.
TypeOK ==
    /\ LockTypeOK
    /\ DbTypeOK(db)
    /\ generation \in 0..MaxGeneration
    /\ phase \in [Procs -> Phases]
    /\ \A p \in Procs : /\ token[p].gen \in 0..MaxGeneration
                        /\ token[p].rows \subseteq MessageRow
                        /\ phase[p] \in InTx => DbTypeOK(tx[p].db)
                        /\ pending[p] \in Seq([type : EventTypes, mbox : MailboxIds \cup {0}])
    /\ dirty \subseteq Resources

\* The rows of the database fit together after every commit and every restart:
\* ids are unique and below their AUTOINCREMENT counter, an address has one
\* mailbox, a (mailbox, uid) pair one calendar row, and the cascades leave no
\* message, attachment or calendar row without its parent.
TablesConsistent ==
    /\ \A b, c \in db.mailboxes : b.id = c.id \/ b.address = c.address => b = c
    /\ \A b \in db.mailboxes : b.id <= db.mailboxSeq
    /\ \A m, n \in db.messages : m.id = n.id => m = n
    /\ \A m \in db.messages : /\ m.id <= db.messageSeq
                              /\ \E b \in db.mailboxes : b.id = m.mbox
    /\ \A a \in db.attachments : \E m \in db.messages : m.id = a.message
    /\ \A c, e \in db.calendar : c.mbox = e.mbox /\ c.uid = e.uid => c = e
    /\ \A c \in db.calendar : \E b \in db.mailboxes : b.id = c.mbox

\* A mailbox's last_message_at is never behind a message it holds, although
\* StoreMessage reads the clock before it waits for the lock and deliveries
\* commit in another order than their timestamps.
LastMessageBound ==
    \A b \in db.mailboxes, m \in db.messages : m.mbox = b.id => b.last >= m.recv

\* The generation fence (Store.pop3Generation): while a token's generation is
\* the store's, every id it remembers names the message it was read from or
\* nothing, whatever resets, deletions and deliveries ran since.
TokenFence ==
    \A p \in Procs : token[p].gen = generation =>
        \A r \in token[p].rows, m \in db.messages :
            r.id = m.id => r.serial = m.serial

\* What the two fenced operations may touch: the messages of the caller's token.
FencedStep ==
    \A p \in Procs :
        /\ phase[p] = "locked"
        /\ phase'[p] = "returning"
        /\ call[p].op \in {"MarkReadDetail", "DeletePOP3Messages"}
        => {m.serial : m \in db.messages \ db'.messages}
               \subseteq {r.serial : r \in token[p].rows}

\* MarkReadDetail and DeletePOP3Messages never change or remove a message other
\* than the ones their caller has read, even when a reset and new deliveries
\* have given its ids to other messages in between.
FencedEffects == [][FencedStep]_vars

\* A calendar row's last_message_id, which is no foreign key, never comes to
\* name a later message: it names its own source message or nothing.
CalendarProvenance ==
    \A c \in db.calendar, m \in db.messages :
        c.last = m.id => c.serial = m.serial /\ c.mbox = m.mbox

\* The messages of a's mailbox that a step adds.
AddedTo(a) ==
    {m \in db'.messages : /\ m.serial > db.born
                          /\ \E b \in MailboxOf(db', a) : b.id = m.mbox}

\* A step that adds messages adds one for each non-blank recipient of a
\* StoreMessage, with all of the input's attachments.
StoredWhole ==
    db'.born # db.born =>
      \E p \in Procs :
        /\ phase[p] = "recipient"
        /\ \A a \in Addresses :
             /\ Cardinality(AddedTo(a)) =
                  Cardinality({i \in DOMAIN tx[p].input.recipients :
                                 Normalize[tx[p].input.recipients[i]] = a})
             /\ \A m \in AddedTo(a) :
                  Cardinality({t \in db'.attachments : t.message = m.id}) =
                      tx[p].input.attachments

\* StoreMessage delivers to all of its recipients or to none: the only step
\* that adds messages adds one for each non-blank recipient, with all of the
\* input's attachments, whatever else runs, fails or crashes in the meantime.
AllOrNothing == [][StoredWhole]_vars

\* A page that refetches what each event names misses no commit: a resource
\* that changed and was not invalidated since is named by an event that some
\* operation has queued and not emitted yet.
NoLostInvalidation ==
    \A r \in dirty : \E p \in Procs :
        /\ phase[p] \in {"returning", "emitting"}
        /\ \E i \in DOMAIN pending[p] : r \in Invalidates(pending[p][i])
=============================================================================
