-------------------------- MODULE StoreTablesProofs --------------------------
(***************************************************************************)
(* The tables of the store, for any number of callers, mailboxes,          *)
(* messages, recipients and calendar components.  Three invariants, each   *)
(* resting on the one before:                                              *)
(*   - TableInv: the tables fit together after every commit, every         *)
(*     rollback and every restart, inside StoreMessage's transaction too;  *)
(*   - NoticeInv: the queued events name what the commits change;          *)
(*   - WholeInv: StoreMessage's loop has stored one message for each       *)
(*     recipient it has passed, so it delivers to all or to none.          *)
(***************************************************************************)
EXTENDS MailStoreProofs, FiniteSetTheorems, SequenceTheorems

\* The columns that the constraints mention.
IsTables(d) ==
    {"mailboxes", "messages", "attachments", "calendar", "mailboxSeq", "messageSeq",
     "attachmentSeq", "born"} \subseteq DOMAIN d
IsMailbox(b) == {"id", "address", "last"} \subseteq DOMAIN b
IsMessage(m) == {"id", "mbox", "recv", "read", "serial"} \subseteq DOMAIN m
IsCalendar(c) == {"mbox", "uid", "last", "serial"} \subseteq DOMAIN c

\* The values that are counted and compared are numbers.
Columns(d) ==
    /\ IsTables(d)
    /\ d.mailboxSeq \in Nat /\ d.messageSeq \in Nat /\ d.attachmentSeq \in Nat /\ d.born \in Nat
    /\ \A b \in d.mailboxes : IsMailbox(b) /\ b.id \in Nat /\ b.last \in Nat
    /\ \A m \in d.messages : IsMessage(m) /\ m.id \in Nat /\ m.recv \in Nat /\ m.serial \in Nat
    /\ \A c \in d.calendar : IsCalendar(c) /\ c.last \in Nat

\* The mailboxes: one per id and one per address, below the counter.
Mailboxes(d) ==
    /\ \A b, c \in d.mailboxes : b.id = c.id \/ b.address = c.address => b = c
    /\ \A b \in d.mailboxes : b.id <= d.mailboxSeq

\* The messages: one per id, below the counter, in a mailbox that has heard of them.
Messages(d) ==
    /\ \A m, n \in d.messages : m.id = n.id => m = n
    /\ \A m \in d.messages : m.id <= d.messageSeq /\ m.serial <= d.born
    /\ \A m \in d.messages : \E b \in d.mailboxes : b.id = m.mbox
    /\ \A b \in d.mailboxes, m \in d.messages : m.mbox = b.id => b.last >= m.recv
    /\ \A a \in d.attachments : \E m \in d.messages : m.id = a.message

\* The calendar rows: one per mailbox and uid, naming no message that is still
\* to come and no other than the one they are from.
Calendars(d) ==
    /\ \A c, e \in d.calendar : c.mbox = e.mbox /\ c.uid = e.uid => c = e
    /\ \A c \in d.calendar : c.last <= d.messageSeq /\ \E b \in d.mailboxes : b.id = c.mbox
    /\ \A c \in d.calendar, m \in d.messages :
         c.last = m.id => c.serial = m.serial /\ c.mbox = m.mbox

Sound(d) == Columns(d) /\ Mailboxes(d) /\ Messages(d) /\ Calendars(d)

\* An open transaction of StoreMessage: its tables are sound too, it is about one
\* of the inputs, and between the message and the attachments the row inserted
\* last is the current recipient's.
IsStoreTx(t) == {"db", "input", "todo", "cal", "mbox"} \subseteq DOMAIN t
JustInserted(t) ==
    \E m \in t.db.messages : m.id = t.db.messageSeq /\ m.serial = t.db.born /\ m.mbox = t.mbox
TxSound(p) ==
    /\ phase[p] \in InTx => IsStoreTx(tx[p]) /\ tx[p].input \in Inputs /\ Sound(tx[p].db)
    /\ phase[p] = "calendar" => JustInserted(tx[p])

\* The inductive invariant of the tables.
TableInv ==
    /\ phase \in [Procs -> Phases]
    /\ tx = [p \in Procs |-> tx[p]]
    /\ call = [p \in Procs |-> call[p]]
    /\ \A p \in Procs : call[p].now \in Nat
    /\ Sound(db)
    /\ \A p \in Procs : TxSound(p)

-----------------------------------------------------------------------------
(* The statements. *)

\* DELETE FROM messages takes the attachments with it.
LEMMA DeleteRowsSound ==
    ASSUME NEW d, Sound(d), NEW ids PROVE Sound(DeleteRows(d, ids))
<1> DEFINE e == DeleteRows(d, ids)
<1>1. /\ IsTables(e) /\ e.messages = {m \in d.messages : m.id \notin ids}
      /\ e.attachments = {a \in d.attachments : a.message \notin ids}
      /\ e.mailboxes = d.mailboxes /\ e.calendar = d.calendar
      /\ e.mailboxSeq = d.mailboxSeq /\ e.messageSeq = d.messageSeq /\ e.attachmentSeq = d.attachmentSeq
      /\ e.born = d.born
    BY DEF Sound, Columns, IsTables, DeleteRows
<1> HIDE DEF e
<1>2. Columns(e)
    BY <1>1 DEF Sound, Columns
<1>3. Mailboxes(e)
    BY <1>1 DEF Sound, Mailboxes
<1>4. Messages(e)
    BY <1>1 DEF Sound, Messages
<1>5. Calendars(e)
    BY <1>1 DEF Sound, Calendars
<1> QED BY <1>2, <1>3, <1>4, <1>5 DEF Sound, e

\* DELETE FROM mailboxes takes the messages, their attachments and the calendar
\* rows of the mailbox with it.
LEMMA DeleteMailboxSound ==
    ASSUME NEW d, Sound(d), NEW mbox PROVE Sound(DeleteMailboxRow(d, mbox))
<1> DEFINE gone == {m.id : m \in MessagesIn(d, mbox)}
           f == DeleteRows(d, gone)
           e == DeleteMailboxRow(d, mbox)
<1>1. Sound(f)
    BY DeleteRowsSound
<1>2. /\ f.messages = {m \in d.messages : m.id \notin gone}
      /\ f.mailboxes = d.mailboxes /\ f.calendar = d.calendar
    BY DEF Sound, Columns, IsTables, DeleteRows
<1>3. \A m \in f.messages : m.mbox # mbox
    BY <1>2 DEF MessagesIn
<1>4. e = [f EXCEPT !.mailboxes = {b \in @ : b.id # mbox},
                    !.calendar = {c \in @ : c.mbox # mbox}]
    BY DEF DeleteMailboxRow
<1> HIDE DEF f, e
<1>5. /\ IsTables(e) /\ e.messages = f.messages /\ e.attachments = f.attachments
      /\ e.mailboxes = {b \in f.mailboxes : b.id # mbox}
      /\ e.calendar = {c \in f.calendar : c.mbox # mbox}
      /\ e.mailboxSeq = f.mailboxSeq /\ e.messageSeq = f.messageSeq /\ e.attachmentSeq = f.attachmentSeq
      /\ e.born = f.born
    BY <1>1, <1>4 DEF Sound, Columns, IsTables
<1>6. Columns(e)
    BY <1>1, <1>5 DEF Sound, Columns
<1>7. Mailboxes(e)
    BY <1>1, <1>5 DEF Sound, Mailboxes
<1>8. Messages(e)
    BY <1>1, <1>3, <1>5 DEF Sound, Messages
<1>9. Calendars(e)
    BY <1>1, <1>5 DEF Sound, Calendars
<1> QED BY <1>6, <1>7, <1>8, <1>9 DEF Sound, e

\* UPDATE messages SET is_read keeps every other column.
LEMMA SetReadSound ==
    ASSUME NEW d, Sound(d), NEW ids, NEW value PROVE Sound(SetRead(d, ids, value))
<1> DEFINE e == SetRead(d, ids, value)
           new(m) == IF m.id \in ids THEN [m EXCEPT !.read = value] ELSE m
<1>1. /\ IsTables(e) /\ e.messages = {new(m) : m \in d.messages}
      /\ e.attachments = d.attachments /\ e.mailboxes = d.mailboxes /\ e.calendar = d.calendar
      /\ e.mailboxSeq = d.mailboxSeq /\ e.messageSeq = d.messageSeq /\ e.attachmentSeq = d.attachmentSeq
      /\ e.born = d.born
    BY DEF Sound, Columns, IsTables, SetRead
<1>2. \A m \in d.messages :
         /\ IsMessage(new(m)) /\ new(m).id = m.id /\ new(m).serial = m.serial
         /\ new(m).mbox = m.mbox /\ new(m).recv = m.recv
    BY DEF Sound, Columns, IsMessage
<1> HIDE DEF new, e
<1>3. \A n \in e.messages : \E m \in d.messages :
         /\ n = new(m) /\ IsMessage(n) /\ n.id = m.id /\ n.serial = m.serial
         /\ n.mbox = m.mbox /\ n.recv = m.recv
    BY <1>1, <1>2
<1>4. \A m \in d.messages : \E n \in e.messages : n.id = m.id
    BY <1>1, <1>2
<1>5. Columns(e)
    BY <1>1, <1>3 DEF Sound, Columns
<1>6. Mailboxes(e)
    BY <1>1 DEF Sound, Mailboxes
<1>7. Messages(e)
  <2>1. \A m, n \in e.messages : m.id = n.id => m = n
    BY <1>3 DEF Sound, Messages
  <2>2. \A m \in e.messages : /\ m.id <= e.messageSeq /\ m.serial <= e.born
                              /\ \E b \in e.mailboxes : b.id = m.mbox
    BY <1>1, <1>3 DEF Sound, Messages
  <2>3. \A b \in e.mailboxes, m \in e.messages : m.mbox = b.id => b.last >= m.recv
    BY <1>1, <1>3 DEF Sound, Messages
  <2>4. \A a \in e.attachments : \E m \in e.messages : m.id = a.message
    BY <1>1, <1>4 DEF Sound, Messages
  <2> QED BY <2>1, <2>2, <2>3, <2>4 DEF Messages
<1>8. Calendars(e)
    BY <1>1, <1>3 DEF Sound, Calendars
<1> QED BY <1>5, <1>6, <1>7, <1>8 DEF Sound, e

\* A table of mailboxes to which a new one was added under a new id and a new
\* address: no message and no calendar row is in it yet.
LEMMA AddedMailboxSound ==
    ASSUME NEW d, Sound(d), NEW e, NEW b, IsMailbox(b), b.id = d.mailboxSeq + 1,
           b.last \in Nat, MailboxOf(d, b.address) = {}, IsTables(e),
           e.mailboxes = d.mailboxes \cup {b}, e.mailboxSeq = d.mailboxSeq + 1,
           e.messages = d.messages, e.attachments = d.attachments, e.calendar = d.calendar,
           e.messageSeq = d.messageSeq, e.attachmentSeq = d.attachmentSeq, e.born = d.born
    PROVE  Sound(e)
<1>1. Columns(e)
    BY DEF Sound, Columns
<1>2. \A c \in d.mailboxes : c.id # b.id /\ c.address # b.address /\ c.id \in Nat /\ c.id <= d.mailboxSeq
    BY DEF Sound, Columns, Mailboxes, MailboxOf
<1>3. Mailboxes(e)
  <2>1. \A c \in e.mailboxes : c.id <= e.mailboxSeq
    BY <1>2 DEF Sound, Columns
  <2>2. \A x, y \in e.mailboxes : x.id = y.id \/ x.address = y.address => x = y
    BY <1>2 DEF Sound, Mailboxes
  <2> QED BY <2>1, <2>2 DEF Mailboxes
<1>4. \A m \in d.messages : m.mbox # b.id
    BY <1>2 DEF Sound, Messages
<1>5. Messages(e)
    BY <1>4 DEF Sound, Messages
<1>6. Calendars(e)
    BY DEF Sound, Calendars
<1> QED BY <1>1, <1>3, <1>5, <1>6 DEF Sound

\* INSERT INTO mailboxes, for an address that has none.
LEMMA InsertMailboxSound ==
    ASSUME NEW d, Sound(d), NEW address, MailboxOf(d, address) = {}
    PROVE  Sound(InsertMailbox(d, address))
<1> DEFINE e == InsertMailbox(d, address)
           b == [id |-> d.mailboxSeq + 1, address |-> address, last |-> Null]
<1>1. /\ IsTables(e) /\ e.mailboxes = d.mailboxes \cup {b} /\ e.mailboxSeq = d.mailboxSeq + 1
      /\ e.messages = d.messages /\ e.attachments = d.attachments /\ e.calendar = d.calendar
      /\ e.messageSeq = d.messageSeq /\ e.attachmentSeq = d.attachmentSeq
      /\ e.born = d.born
    BY DEF Sound, Columns, IsTables, InsertMailbox
<1>2. IsMailbox(b) /\ b.id = d.mailboxSeq + 1 /\ b.last \in Nat /\ b.address = address
    BY DEF IsMailbox, Null
<1> HIDE DEF e, b
<1>3. Sound(e)
    BY <1>1, <1>2, AddedMailboxSound
<1> QED BY <1>3 DEF e

\* The later of two timestamps is not before either of them.
LEMMA LaterOfBounds ==
    ASSUME NEW old \in Nat, NEW new \in Nat
    PROVE  LaterOf(old, new) \in Nat /\ LaterOf(old, new) >= old /\ LaterOf(old, new) >= new
BY DEF LaterOf, Null

\* The upsert makes the mailbox of the address as late as the message to come.
LEMMA UpsertMailboxSound ==
    ASSUME NEW d, Sound(d), NEW address, NEW now \in Nat
    PROVE  LET e == UpsertMailbox(d, address, now)
           IN  /\ Sound(e) /\ e.messages = d.messages
               /\ \A b \in MailboxOf(e, address) : b \in e.mailboxes /\ b.last >= now
<1> DEFINE e == UpsertMailbox(d, address, now)
           old == MailboxOf(d, address)
           new == IF old = {}
                  THEN {[id |-> d.mailboxSeq + 1, address |-> address, last |-> now]}
                  ELSE {[b EXCEPT !.last = LaterOf(b.last, now)] : b \in old}
<1>1. /\ IsTables(e) /\ e.mailboxes = (d.mailboxes \ old) \cup new
      /\ e.mailboxSeq = d.mailboxSeq + 1
      /\ e.messages = d.messages /\ e.attachments = d.attachments /\ e.calendar = d.calendar
      /\ e.messageSeq = d.messageSeq /\ e.attachmentSeq = d.attachmentSeq
      /\ e.born = d.born
    BY DEF Sound, Columns, IsTables, UpsertMailbox
<1> HIDE DEF e
<1>2. CASE old = {}
  <2> DEFINE b == [id |-> d.mailboxSeq + 1, address |-> address, last |-> now]
  <2>1. e.mailboxes = d.mailboxes \cup {b}
    BY <1>1, <1>2
  <2>2. IsMailbox(b) /\ b.id = d.mailboxSeq + 1 /\ b.last = now /\ b.address = address
    BY DEF IsMailbox
  <2> HIDE DEF b, old, new
  <2>3. Sound(e)
    BY <1>1, <1>2, <2>1, <2>2, AddedMailboxSound DEF old
  <2>4. \A c \in MailboxOf(e, address) : c = b
    BY <1>2, <2>1 DEF MailboxOf, old
  <2> QED BY <1>1, <2>1, <2>2, <2>3, <2>4 DEF e
<1>3. CASE old # {}
  <2> DEFINE up(b) == [b EXCEPT !.last = LaterOf(b.last, now)]
  <2>1. e.mailboxes = (d.mailboxes \ old) \cup {up(b) : b \in old}
    BY <1>1, <1>3
  <2>2. \A b \in d.mailboxes :
          /\ b.last \in Nat /\ b.id \in Nat /\ IsMailbox(up(b)) /\ up(b).id = b.id
          /\ up(b).address = b.address /\ up(b).last = LaterOf(b.last, now)
    BY DEF Sound, Columns, IsMailbox
  <2>3. old = {b \in d.mailboxes : b.address = address}
    BY DEF MailboxOf
  <2> HIDE DEF up, old, new
  <2>4. \A c \in e.mailboxes : \E b \in d.mailboxes :
          /\ c.id = b.id /\ c.address = b.address /\ IsMailbox(c) /\ c.last \in Nat
          /\ c.last >= b.last
          /\ b.address # address => c = b
          /\ b.address = address => c = up(b) /\ c.last >= now
    <3> SUFFICES ASSUME NEW c \in e.mailboxes
                 PROVE  \E b \in d.mailboxes :
                          /\ c.id = b.id /\ c.address = b.address /\ IsMailbox(c) /\ c.last \in Nat
                          /\ c.last >= b.last
                          /\ b.address # address => c = b
                          /\ b.address = address => c = up(b) /\ c.last >= now
      OBVIOUS
    <3>1. CASE c \in d.mailboxes \ old
      BY <2>3, <3>1 DEF Sound, Columns
    <3>2. ASSUME NEW b \in old, c = up(b)
          PROVE  /\ b \in d.mailboxes /\ c.id = b.id /\ c.address = b.address /\ IsMailbox(c)
                 /\ c.last \in Nat /\ c.last >= b.last /\ b.address = address /\ c.last >= now
      BY <2>2, <2>3, <3>2, LaterOfBounds
    <3> QED BY <2>1, <3>1, <3>2
  <2>5. \A b \in d.mailboxes : \E c \in e.mailboxes : c.id = b.id
    BY <2>1, <2>2, <2>3
  <2>6. Columns(e)
    BY <1>1, <2>2, <2>4 DEF Sound, Columns
  <2>7. Mailboxes(e)
    <3>1. \A c \in e.mailboxes : c.id <= e.mailboxSeq
      BY <1>1, <2>4 DEF Sound, Columns, Mailboxes
    <3>2. ASSUME NEW x \in e.mailboxes, NEW y \in e.mailboxes, x.id = y.id \/ x.address = y.address
          PROVE  x = y
      <4>1. PICK b \in d.mailboxes :
              /\ x.id = b.id /\ x.address = b.address
              /\ b.address # address => x = b
              /\ b.address = address => x = up(b)
        BY <2>4
      <4>2. PICK c \in d.mailboxes :
              /\ y.id = c.id /\ y.address = c.address
              /\ c.address # address => y = c
              /\ c.address = address => y = up(c)
        BY <2>4
      <4>3. b = c
        BY <3>2, <4>1, <4>2 DEF Sound, Mailboxes
      <4> QED BY <4>1, <4>2, <4>3
    <3> QED BY <3>1, <3>2 DEF Mailboxes
  <2>8. Messages(e)
    <3>1. \A m \in e.messages : /\ m.id <= e.messageSeq /\ m.serial <= e.born
                                /\ \E b \in e.mailboxes : b.id = m.mbox
      BY <1>1, <2>5 DEF Sound, Messages
    <3>2. ASSUME NEW c \in e.mailboxes, NEW m \in e.messages, m.mbox = c.id
          PROVE  c.last >= m.recv
      <4>1. PICK b \in d.mailboxes : c.id = b.id /\ c.last \in Nat /\ c.last >= b.last
        BY <2>4
      <4>2. b.last >= m.recv /\ m.recv \in Nat /\ b.last \in Nat
        BY <1>1, <3>2, <4>1 DEF Sound, Columns, Messages
      <4> QED BY <4>1, <4>2
    <3> QED BY <1>1, <3>1, <3>2 DEF Sound, Messages
  <2>9. Calendars(e)
    BY <1>1, <2>5 DEF Sound, Calendars
  <2>10. \A c \in MailboxOf(e, address) : c \in e.mailboxes /\ c.last >= now
    BY <2>4 DEF MailboxOf
  <2> QED BY <1>1, <2>6, <2>7, <2>8, <2>9, <2>10 DEF Sound, e
<1> QED BY <1>2, <1>3

\* INSERT INTO messages: a new id, in a mailbox that is as late as the message.
LEMMA InsertMessageSound ==
    ASSUME NEW d, Sound(d), NEW b \in d.mailboxes, NEW now \in Nat, b.last >= now
    PROVE  LET e == InsertMessage(d, b.id, now)
           IN  /\ Sound(e)
               /\ \E m \in e.messages : m.id = e.messageSeq /\ m.serial = e.born /\ m.mbox = b.id
<1> DEFINE e == InsertMessage(d, b.id, now)
           row == [id |-> d.messageSeq + 1, mbox |-> b.id, recv |-> now,
                   read |-> 0, serial |-> d.born + 1]
<1>1. /\ IsTables(e) /\ e.messages = d.messages \cup {row}
      /\ e.messageSeq = d.messageSeq + 1 /\ e.born = d.born + 1
      /\ e.mailboxes = d.mailboxes /\ e.attachments = d.attachments /\ e.calendar = d.calendar
      /\ e.mailboxSeq = d.mailboxSeq /\ e.attachmentSeq = d.attachmentSeq
    BY DEF Sound, Columns, IsTables, InsertMessage
<1>2. /\ IsMessage(row) /\ row.id = d.messageSeq + 1 /\ row.recv = now /\ row.mbox = b.id
      /\ row.serial = d.born + 1
    BY DEF IsMessage
<1> HIDE DEF e, row
<1>3. Columns(e)
    BY <1>1, <1>2 DEF Sound, Columns
<1>4. Mailboxes(e)
    BY <1>1 DEF Sound, Mailboxes
<1>5. \A m \in d.messages : m.id \in Nat /\ m.id <= d.messageSeq /\ m.id # row.id
    BY <1>2 DEF Sound, Columns, Messages
<1>6. Messages(e)
  <2>1. \A m, n \in e.messages : m.id = n.id => m = n
    BY <1>1, <1>5 DEF Sound, Messages
  <2>2. \A m \in e.messages : m.id <= e.messageSeq /\ m.serial <= e.born
    BY <1>1, <1>2, <1>5 DEF Sound, Columns, Messages
  <2>3. \A m \in e.messages : \E c \in e.mailboxes : c.id = m.mbox
    BY <1>1, <1>2 DEF Sound, Messages
  <2>4. ASSUME NEW c \in e.mailboxes, NEW m \in e.messages, m.mbox = c.id
        PROVE  c.last >= m.recv
    <3>1. CASE m = row
      <4>1. c = b
        BY <1>1, <1>2, <2>4, <3>1 DEF Sound, Mailboxes
      <4> QED BY <1>2, <3>1, <4>1
    <3>2. CASE m # row
      BY <1>1, <2>4, <3>2 DEF Sound, Messages
    <3> QED BY <3>1, <3>2
  <2>5. \A a \in e.attachments : \E m \in e.messages : m.id = a.message
    BY <1>1 DEF Sound, Messages
  <2> QED BY <2>1, <2>2, <2>3, <2>4, <2>5 DEF Messages
<1>7. Calendars(e)
  <2>1. \A c \in d.calendar : c.last \in Nat /\ c.last <= d.messageSeq /\ c.last # row.id
    BY <1>2 DEF Sound, Columns, Calendars
  <2>2. \A c \in e.calendar : c.last <= e.messageSeq
    BY <1>1, <2>1 DEF Sound, Columns
  <2> QED BY <1>1, <2>1, <2>2 DEF Sound, Calendars
<1>8. \E m \in e.messages : m.id = e.messageSeq /\ m.serial = e.born /\ m.mbox = b.id
    BY <1>1, <1>2
<1> QED BY <1>3, <1>4, <1>6, <1>7, <1>8 DEF Sound, e

\* INSERT INTO attachments, for a message that is there.
LEMMA InsertAttachmentsSound ==
    ASSUME NEW d, Sound(d), NEW message, NEW count \in Nat, \E m \in d.messages : m.id = message
    PROVE  Sound(InsertAttachments(d, message, count))
<1> DEFINE e == InsertAttachments(d, message, count)
           new == {[id |-> d.attachmentSeq + i, message |-> message] : i \in 1..count}
<1>1. /\ IsTables(e) /\ e.attachments = d.attachments \cup new
      /\ e.messages = d.messages /\ e.mailboxes = d.mailboxes /\ e.calendar = d.calendar
      /\ e.mailboxSeq = d.mailboxSeq /\ e.messageSeq = d.messageSeq
      /\ e.attachmentSeq = d.attachmentSeq + count /\ e.born = d.born
    BY DEF Sound, Columns, IsTables, InsertAttachments
<1>2. \A a \in new : a.message = message
    OBVIOUS
<1> HIDE DEF e, new
<1>3. Columns(e) /\ Mailboxes(e) /\ Calendars(e)
    BY <1>1 DEF Sound, Columns, Mailboxes, Calendars
<1>4. Messages(e)
    BY <1>1, <1>2 DEF Sound, Messages
<1>5. Sound(e)
    BY <1>3, <1>4 DEF Sound
<1> QED BY <1>5 DEF e

\* A row of the calendar as a component leaves it: from the message just
\* inserted, or as it was.
FreshRow(d, mbox, uid, c) ==
    /\ IsCalendar(c) /\ c.mbox = mbox /\ c.uid = uid
    /\ c.last = d.messageSeq /\ c.serial = d.born

\* The rows that a component replaces, at most one by assumption, become at most
\* one row, of the same mailbox and uid.
LEMMA CalendarRowsFresh ==
    ASSUME NEW d, Sound(d), NEW mbox, NEW ev
    PROVE  LET old == RowsFor(d.calendar, mbox, ev.uid)
               new == CASE ev.method = "CANCEL" -> CancelRows(old, mbox, Inserted(d), ev)
                        [] ev.method = "REPLY"  -> ReplyRows(old, Inserted(d), ev)
                        [] OTHER                -> UpdateRows(old, mbox, Inserted(d), ev)
           IN  /\ \A c \in new : c \in old \/ FreshRow(d, mbox, ev.uid, c)
               /\ \A c, e \in new : c = e
<1> DEFINE old == RowsFor(d.calendar, mbox, ev.uid)
           msg == Inserted(d)
           Good(new) == /\ \A c \in new : c \in old \/ FreshRow(d, mbox, ev.uid, c)
                        /\ \A c, e \in new : c = e
<1>1. /\ \A c \in old : c \in d.calendar /\ IsCalendar(c) /\ c.mbox = mbox /\ c.uid = ev.uid
      /\ \A c, e \in old : c = e
    BY DEF Sound, Columns, Calendars, RowsFor
<1>2. msg.id = d.messageSeq /\ msg.serial = d.born
    BY DEF Inserted
<1>3. ASSUME NEW status PROVE FreshRow(d, mbox, ev.uid, NewRow(mbox, msg, ev, status))
    BY <1>2 DEF FreshRow, NewRow, IsCalendar
<1>4. Good(CancelRows(old, mbox, msg, ev))
  <2> DEFINE up(r) == [r EXCEPT !.status = Cancelled,
                                !.seq = IF ev.seq > r.seq THEN ev.seq ELSE r.seq,
                                !.last = msg.id,
                                !.serial = msg.serial]
  <2>1. \A r \in old : FreshRow(d, mbox, ev.uid, up(r))
    BY <1>1, <1>2 DEF FreshRow, IsCalendar
  <2>2. CancelRows(old, mbox, msg, ev) =
          IF old = {} THEN {NewRow(mbox, msg, ev, Cancelled)} ELSE {up(r) : r \in old}
    BY DEF CancelRows
  <2> HIDE DEF up, old, msg
  <2> QED BY <1>1, <1>3, <2>1, <2>2
<1>5. Good(ReplyRows(old, msg, ev))
  <2> DEFINE up(r) == [r EXCEPT !.attendees =
                           [a \in DOMAIN r.attendees |->
                               IF ev.attendees[a] = Absent THEN r.attendees[a]
                                                           ELSE ev.attendees[a]],
                                !.last = msg.id,
                                !.serial = msg.serial]
  <2>1. \A r \in old : FreshRow(d, mbox, ev.uid, up(r))
    BY <1>1, <1>2 DEF FreshRow, IsCalendar
  <2>2. ReplyRows(old, msg, ev) =
          IF \A a \in DOMAIN ev.attendees : ev.attendees[a] = Absent
          THEN old ELSE {up(r) : r \in old}
    BY DEF ReplyRows
  <2> HIDE DEF up, old, msg
  <2> QED BY <1>1, <2>1, <2>2
<1>6. Good(UpdateRows(old, mbox, msg, ev))
  <2> DEFINE up(r) == IF ev.seq >= r.seq THEN NewRow(mbox, msg, ev, EventStatus(ev)) ELSE r
  <2>1. \A r \in old : up(r) \in old \/ FreshRow(d, mbox, ev.uid, up(r))
    BY <1>3
  <2>2. UpdateRows(old, mbox, msg, ev) =
          IF old = {} THEN {NewRow(mbox, msg, ev, EventStatus(ev))} ELSE {up(r) : r \in old}
    BY DEF UpdateRows
  <2> HIDE DEF up, old, msg
  <2> QED BY <1>1, <1>3, <2>1, <2>2
<1> HIDE DEF Good
<1>7. Good(CASE ev.method = "CANCEL" -> CancelRows(old, mbox, msg, ev)
             [] ev.method = "REPLY"  -> ReplyRows(old, msg, ev)
             [] OTHER                -> UpdateRows(old, mbox, msg, ev))
  <2> HIDE DEF old, msg
  <2> QED BY <1>4, <1>5, <1>6
<1> QED BY <1>7 DEF Good

\* One component of the message just inserted, applied to its mailbox's calendar.
LEMMA CalendarSound ==
    ASSUME NEW d, Sound(d), NEW mbox, NEW ev,
           \E m \in d.messages : m.id = d.messageSeq /\ m.serial = d.born /\ m.mbox = mbox
    PROVE  Sound([d EXCEPT !.calendar = ApplyCalendarEvent(@, mbox, Inserted(d), ev)])
<1> DEFINE old == RowsFor(d.calendar, mbox, ev.uid)
           new == CASE ev.method = "CANCEL" -> CancelRows(old, mbox, Inserted(d), ev)
                    [] ev.method = "REPLY"  -> ReplyRows(old, Inserted(d), ev)
                    [] OTHER                -> UpdateRows(old, mbox, Inserted(d), ev)
           rows == ApplyCalendarEvent(d.calendar, mbox, Inserted(d), ev)
           e == [d EXCEPT !.calendar = rows]
<1>1. /\ \A c \in new : c \in old \/ FreshRow(d, mbox, ev.uid, c)
      /\ \A c, f \in new : c = f
    BY CalendarRowsFresh
<1>2. rows = (d.calendar \ old) \cup new
    BY DEF ApplyCalendarEvent
<1>3. old = {c \in d.calendar : c.mbox = mbox /\ c.uid = ev.uid}
    BY DEF RowsFor
<1> HIDE DEF rows, new, old
<1>4. /\ IsTables(e) /\ e.calendar = rows
      /\ e.messages = d.messages /\ e.attachments = d.attachments /\ e.mailboxes = d.mailboxes
      /\ e.mailboxSeq = d.mailboxSeq /\ e.messageSeq = d.messageSeq /\ e.attachmentSeq = d.attachmentSeq
      /\ e.born = d.born
    BY DEF Sound, Columns, IsTables
<1> HIDE DEF e
<1>5. \A c \in rows : c \in d.calendar \/ FreshRow(d, mbox, ev.uid, c)
    BY <1>1, <1>2, <1>3
<1>6. Columns(e)
    BY <1>4, <1>5 DEF Sound, Columns, FreshRow
<1>7. Mailboxes(e) /\ Messages(e)
    BY <1>4 DEF Sound, Mailboxes, Messages
<1>8. Calendars(e)
  <2>1. ASSUME NEW c \in rows, NEW f \in rows, c.mbox = f.mbox, c.uid = f.uid PROVE c = f
    <3>1. \A x \in new : x.mbox = mbox /\ x.uid = ev.uid
      BY <1>1, <1>3 DEF FreshRow
    <3> QED BY <1>1, <1>2, <1>3, <2>1, <3>1 DEF Sound, Calendars
  <2>2. ASSUME NEW c \in rows
        PROVE  c.last <= d.messageSeq /\ \E b \in d.mailboxes : b.id = c.mbox
    <3>1. CASE c \in d.calendar
      BY <3>1 DEF Sound, Calendars
    <3>2. CASE FreshRow(d, mbox, ev.uid, c)
      BY <3>2 DEF Sound, Columns, Messages, FreshRow
    <3> QED BY <1>3, <1>5, <3>1, <3>2
  <2>3. ASSUME NEW c \in rows, NEW m \in d.messages, c.last = m.id
        PROVE  c.serial = m.serial /\ c.mbox = m.mbox
    <3>1. CASE c \in d.calendar
      BY <2>3, <3>1 DEF Sound, Calendars
    <3>2. CASE FreshRow(d, mbox, ev.uid, c)
      BY <2>3, <3>2 DEF Sound, Messages, FreshRow
    <3> QED BY <1>3, <1>5, <3>1, <3>2
  <2> QED BY <1>4, <2>1, <2>2, <2>3 DEF Calendars
<1>9. Sound(e)
    BY <1>6, <1>7, <1>8 DEF Sound
<1> QED BY <1>9 DEF e, rows

\* An empty store, whatever was delivered before the reset.
LEMMA EmptyDbSound == ASSUME NEW born \in Nat PROVE Sound(EmptyDb(born))
BY DEF Sound, Columns, IsTables, Mailboxes, Messages, Calendars, EmptyDb

-----------------------------------------------------------------------------
(* The steps. *)

\* The program starts on an empty database.
LEMMA TableInit == Init => TableInv
<1> SUFFICES ASSUME Init PROVE TableInv
    OBVIOUS
<1>1. Sound(db)
    BY EmptyDbSound DEF Init
<1>2. \A p \in Procs : call[p].now \in Nat
    BY DEF Init, NoCall, Null
<1>3. /\ phase \in [Procs -> Phases] /\ tx = [p \in Procs |-> tx[p]]
      /\ call = [p \in Procs |-> call[p]]
    BY DEF Init, Phases
<1>4. \A p \in Procs : TxSound(p)
    BY DEF Init, TxSound, InTx
<1> QED BY <1>1, <1>2, <1>3, <1>4 DEF TableInv

\* A body that commits sound tables keeps them sound.
LEMMA CommitSound ==
    ASSUME TableInv, NEW p \in Procs, NEW d, Sound(d), NEW evs, Commit(p, d, evs)
    PROVE  TableInv'
<1>1. /\ db' = d /\ phase' = [phase EXCEPT ![p] = "returning"] /\ call' = call
      /\ tx' = [tx EXCEPT ![p] = NoTx]
    BY DEF Commit
<1>2. /\ phase' \in [Procs -> Phases] /\ tx' = [q \in Procs |-> tx'[q]]
      /\ \A q \in Procs \ {p} : phase'[q] = phase[q] /\ tx'[q] = tx[q]
      /\ phase'[p] = "returning"
    BY <1>1 DEF TableInv, Phases
<1>3. ASSUME NEW q \in Procs PROVE TxSound(q)'
    BY <1>2 DEF TableInv, TxSound, JustInserted, InTx
<1> QED BY <1>1, <1>2, <1>3 DEF TableInv

\* A step that leaves the tables alone and takes p, if anybody, out of its
\* transaction or leaves it outside.
LEMMA OutsideSound ==
    ASSUME TableInv, NEW p \in Procs, db' = db, phase' \in [Procs -> Phases],
           tx' = [q \in Procs |-> tx'[q]], call' = [q \in Procs |-> call'[q]],
           call'[p].now \in Nat, phase'[p] \notin InTx,
           \A q \in Procs \ {p} :
              phase'[q] = phase[q] /\ tx'[q] = tx[q] /\ call'[q] = call[q]
    PROVE  TableInv'
<1>1. ASSUME NEW q \in Procs PROVE TxSound(q)'
    BY DEF TableInv, TxSound, JustInserted, InTx
<1> QED BY <1>1 DEF TableInv

\* A step inside p's transaction.
LEMMA InsideSound ==
    ASSUME TableInv, NEW p \in Procs, db' = db, call' = call,
           phase' \in [Procs -> Phases], tx' = [q \in Procs |-> tx'[q]],
           \A q \in Procs \ {p} : phase'[q] = phase[q] /\ tx'[q] = tx[q],
           IsStoreTx(tx'[p]), tx'[p].input \in Inputs, Sound(tx'[p].db),
           phase'[p] = "calendar" => JustInserted(tx'[p])
    PROVE  TableInv'
<1>1. ASSUME NEW q \in Procs PROVE TxSound(q)'
    BY DEF TableInv, TxSound, JustInserted, InTx
<1> QED BY <1>1 DEF TableInv

\* Calling, locking, returning, emitting and failing touch no table.
LEMMA CallSound ==
    ASSUME TableInv, NEW p \in Procs,
           \/ Call(p) \/ Enter(p) \/ Wait(p) \/ GiveUp(p) \/ Fail(p)
           \/ Return(p) \/ Emit(p) \/ Finish(p)
    PROVE  TableInv'
<1> USE DEF TableInv, Phases, InTx
<1>1. CASE Call(p)
  <2>1. PICK op \in Operations, t \in Times :
          call' = [call EXCEPT ![p] = [op |-> op, now |-> IF op = "StoreMessage" THEN t ELSE Null]]
    BY <1>1 DEF Call
  <2>2. call'[p].now \in Nat
    BY <2>1, TimesAssumption DEF Null
  <2> QED BY <1>1, <2>1, <2>2, OutsideSound DEF Call
<1>2. CASE GiveUp(p) \/ Finish(p)
  <2>1. call'[p].now \in Nat
    BY <1>2 DEF GiveUp, Finish, NoCall, Null
  <2> QED BY <1>2, <2>1, OutsideSound DEF GiveUp, Finish
<1>3. CASE Enter(p)
    BY <1>3, OutsideSound DEF Enter
<1>4. CASE Wait(p) \/ Emit(p)
    BY <1>4, OutsideSound DEF Wait, Emit, storeVars
<1>5. CASE Return(p) \/ Fail(p)
    BY <1>5, OutsideSound DEF Return, Fail
<1> QED BY <1>1, <1>2, <1>3, <1>4, <1>5

\* The operations of one statement commit the tables as they are, or as that
\* statement leaves them.
LEMMA OperateCommits ==
    ASSUME NEW p \in Procs, Operate(p)
    PROVE  \E d, evs :
             /\ Commit(p, d, evs)
             /\ \/ d = db
                \/ \E ids, value : d = SetRead(db, ids, value)
                \/ \E ids : d = DeleteRows(db, ids)
                \/ \E address : MailboxOf(db, address) = {} /\ d = InsertMailbox(db, address)
                \/ \E mbox : d = DeleteMailboxRow(db, mbox)
                \/ d = EmptyDb(db.born)
<1>1. CASE GetMessage(p)
    BY <1>1 DEF GetMessage
<1>2. CASE ReadMessage(p)
    BY <1>2 DEF ReadMessage
<1>3. CASE MarkReadDetail(p)
    BY <1>3 DEF MarkReadDetail
<1>4. CASE MarkRead(p)
    BY <1>4 DEF MarkRead
<1>5. CASE SetReadState(p)
    BY <1>5 DEF SetReadState, CommitAffected
<1>6. CASE DeleteMessages(p)
    BY <1>6 DEF DeleteMessages, CommitAffected
<1>7. CASE OpenPOP3Mailbox(p)
    BY <1>7 DEF OpenPOP3Mailbox
<1>8. CASE DeletePOP3Messages(p)
    BY <1>8 DEF DeletePOP3Messages, CommitAffected
<1>9. CASE DeleteMailbox(p)
    BY <1>9 DEF DeleteMailbox
<1>10. CASE WipeAll(p)
    BY <1>10 DEF WipeAll
<1> QED BY <1>1, <1>2, <1>3, <1>4, <1>5, <1>6, <1>7, <1>8, <1>9, <1>10 DEF Operate

\* The operations of one statement or one short transaction.
LEMMA OperateSound == ASSUME TableInv, NEW p \in Procs, Operate(p) PROVE TableInv'
<1>1. PICK d, evs :
        /\ Commit(p, d, evs)
        /\ \/ d = db
           \/ \E ids, value : d = SetRead(db, ids, value)
           \/ \E ids : d = DeleteRows(db, ids)
           \/ \E address : MailboxOf(db, address) = {} /\ d = InsertMailbox(db, address)
           \/ \E mbox : d = DeleteMailboxRow(db, mbox)
           \/ d = EmptyDb(db.born)
    BY OperateCommits
<1>2. Sound(db) /\ db.born \in Nat
    BY DEF TableInv, Sound, Columns
<1>3. Sound(d)
    BY <1>1, <1>2, SetReadSound, DeleteRowsSound, InsertMailboxSound, DeleteMailboxSound,
       EmptyDbSound
<1> QED BY <1>1, <1>3, CommitSound

\* The statements of StoreMessage's transaction.
LEMMA StoreSound == ASSUME TableInv, NEW p \in Procs, Store(p) PROVE TableInv'
<1> DEFINE t == tx[p]
<1>1. /\ phase \in [Procs -> Phases] /\ Sound(db) /\ call[p].now \in Nat
      /\ tx = [q \in Procs |-> tx[q]] /\ call = [q \in Procs |-> call[q]]
      /\ phase[p] \in InTx => IsStoreTx(t) /\ t.input \in Inputs /\ Sound(t.db)
      /\ phase[p] = "calendar" => JustInserted(t)
    BY DEF TableInv, TxSound
<1>2. CASE BeginStore(p)
  <2>1. PICK in \in Inputs :
          tx' = [tx EXCEPT ![p] = [db |-> db, input |-> in, todo |-> in.recipients,
                                   cal |-> <<>>, mbox |-> 0]]
    BY <1>2 DEF BeginStore
  <2>2. IsStoreTx(tx'[p]) /\ tx'[p].db = db /\ tx'[p].input = in
    BY <1>1, <2>1 DEF IsStoreTx
  <2> QED BY <1>1, <1>2, <2>1, <2>2, InsideSound DEF BeginStore, Phases
<1>3. CASE SkipBlank(p)
  <2>1. /\ phase[p] = "recipient" /\ phase' = phase /\ db' = db /\ call' = call
        /\ tx' = [tx EXCEPT ![p].todo = Tail(@)]
    BY <1>3 DEF SkipBlank
  <2>2. IsStoreTx(tx'[p]) /\ tx'[p].db = t.db /\ tx'[p].input = t.input
    BY <1>1, <2>1 DEF IsStoreTx, InTx
  <2> QED BY <1>1, <2>1, <2>2, InsideSound DEF InTx
<1>4. CASE DeliverRecipient(p)
  <2> DEFINE d == UpsertMailbox(t.db, Recipient(p), call[p].now)
  <2>1. /\ phase[p] = "recipient" /\ phase' = [phase EXCEPT ![p] = "calendar"]
        /\ db' = db /\ call' = call
    BY <1>4 DEF DeliverRecipient
  <2>2. PICK b \in MailboxOf(d, Recipient(p)) :
          tx' = [tx EXCEPT ![p].db = InsertMessage(d, b.id, call[p].now),
                           ![p].cal = tx[p].input.ical,
                           ![p].mbox = b.id]
    BY <1>4 DEF DeliverRecipient
  <2>3. Sound(d) /\ b \in d.mailboxes /\ b.last >= call[p].now
    BY <1>1, <2>1, UpsertMailboxSound DEF InTx
  <2> DEFINE e == InsertMessage(d, b.id, call[p].now)
  <2>4. /\ Sound(e)
        /\ \E m \in e.messages : m.id = e.messageSeq /\ m.serial = e.born /\ m.mbox = b.id
    BY <1>1, <2>3, InsertMessageSound
  <2> HIDE DEF e, d
  <2>5. IsStoreTx(tx'[p]) /\ tx'[p].db = e /\ tx'[p].mbox = b.id /\ tx'[p].input = t.input
    BY <1>1, <2>1, <2>2 DEF IsStoreTx, InTx, e
  <2>6. JustInserted(tx'[p])
    BY <2>4, <2>5 DEF JustInserted
  <2> QED BY <1>1, <2>1, <2>2, <2>4, <2>5, <2>6, InsideSound DEF Phases, InTx
<1>5. CASE ApplyCalendar(p)
  <2> DEFINE ev == Head(t.cal)
             rows == ApplyCalendarEvent(t.db.calendar, t.mbox, Inserted(t.db), ev)
             e == [t.db EXCEPT !.calendar = rows]
  <2>1. /\ phase[p] = "calendar" /\ phase' = phase /\ db' = db /\ call' = call
        /\ tx' = [tx EXCEPT ![p].db.calendar = rows, ![p].cal = Tail(@)]
    BY <1>5 DEF ApplyCalendar
  <2>2. Sound(t.db) /\ JustInserted(t)
    BY <1>1, <2>1 DEF InTx
  <2>3. Sound(e)
    BY <2>2, CalendarSound DEF JustInserted
  <2> HIDE DEF rows
  <2>4. /\ e.messages = t.db.messages /\ e.messageSeq = t.db.messageSeq /\ e.born = t.db.born
    BY <2>2 DEF Sound, Columns, IsTables
  <2>5. IsStoreTx(tx'[p]) /\ tx'[p].db = e /\ tx'[p].mbox = t.mbox /\ tx'[p].input = t.input
    BY <1>1, <2>1 DEF IsStoreTx, InTx
  <2> HIDE DEF e
  <2>6. JustInserted(tx'[p])
    BY <2>2, <2>4, <2>5 DEF JustInserted
  <2> QED BY <1>1, <2>1, <2>3, <2>5, <2>6, InsideSound DEF InTx
<1>6. CASE FinishRecipient(p)
  <2> DEFINE e == InsertAttachments(t.db, t.db.messageSeq, t.input.attachments)
  <2>1. /\ phase[p] = "calendar" /\ phase' = [phase EXCEPT ![p] = "recipient"]
        /\ db' = db /\ call' = call
        /\ tx' = [tx EXCEPT ![p].db = e, ![p].todo = Tail(@)]
    BY <1>6 DEF FinishRecipient
  <2>2. Sound(t.db) /\ JustInserted(t) /\ t.input.attachments \in Nat
    BY <1>1, <2>1, InputsAssumption DEF InTx
  <2>3. Sound(e)
    BY <2>2, InsertAttachmentsSound DEF JustInserted
  <2> HIDE DEF e
  <2>4. IsStoreTx(tx'[p]) /\ tx'[p].db = e /\ tx'[p].input = t.input
    BY <1>1, <2>1 DEF IsStoreTx, InTx
  <2> QED BY <1>1, <2>1, <2>3, <2>4, InsideSound DEF Phases, InTx
<1>7. CASE CommitStore(p)
  <2>1. phase[p] = "recipient" /\ Commit(p, t.db, pending[p])
    BY <1>7 DEF CommitStore
  <2> QED BY <1>1, <2>1, CommitSound DEF InTx
<1> QED BY <1>2, <1>3, <1>4, <1>5, <1>6, <1>7 DEF Store

\* Every step keeps the tables sound.
LEMMA TableStep == TableInv /\ [Next]_vars => TableInv'
<1> SUFFICES ASSUME TableInv, [Next]_vars PROVE TableInv'
    OBVIOUS
<1>1. ASSUME db' = db, phase' = phase, tx' = tx, call' = call PROVE TableInv'
    BY <1>1 DEF TableInv, TxSound, JustInserted
<1>2. CASE UNCHANGED vars
    BY <1>1, <1>2 DEF vars, storeVars
<1>3. ASSUME NEW p \in Procs, Step(p) PROVE TableInv'
    BY <1>3, CallSound, OperateSound, StoreSound DEF Step
<1>4. CASE Background /\ UNCHANGED storeVars
    BY <1>1, <1>4 DEF storeVars
<1>5. CASE Restart
    BY <1>5 DEF Restart, TableInv, TxSound, Phases, InTx, NoCall, Null
<1> QED BY <1>2, <1>3, <1>4, <1>5 DEF Next

\* Every state of the store has sound tables.
THEOREM TableInvariant == Spec => []TableInv
BY TableInit, TableStep, PTL DEF Spec

\* The rows of the committed database fit together after every operation of the
\* store, every rollback and every restart: unique ids and addresses, one
\* calendar row per (mailbox, uid), no orphan left by a cascade.
THEOREM StoreTablesConsistent == Spec => []TablesConsistent
<1>1. TableInv => TablesConsistent
    BY DEF TableInv, Sound, Mailboxes, Messages, Calendars, TablesConsistent
<1> QED BY <1>1, TableInvariant, PTL

\* last_message_at is never behind a message of the mailbox, in whatever order
\* the deliveries that read the clock early come to commit.
THEOREM StoreLastMessageBound == Spec => []LastMessageBound
<1>1. TableInv => LastMessageBound
    BY DEF TableInv, Sound, Messages, LastMessageBound
<1> QED BY <1>1, TableInvariant, PTL

\* A calendar row's last_message_id names the message it was written from or
\* nothing, although no foreign key holds it.
THEOREM StoreCalendarProvenance == Spec => []CalendarProvenance
<1>1. TableInv => CalendarProvenance
    BY DEF TableInv, Sound, Calendars, CalendarProvenance
<1> QED BY <1>1, TableInvariant, PTL

-----------------------------------------------------------------------------
(* The events name what the commits change. *)

Notices == [type : EventTypes, mbox : Nat]

\* What differs between two databases, and what a queue of events names.
Differs(d, e) == {r \in Resources : View(d, r) # View(e, r)}
Named(evs, r) == \E i \in DOMAIN evs : r \in Invalidates(evs[i])

\* What FinishRecipient is going to name for the recipient StoreMessage is at.
Ahead(t) ==
    {MailboxList, Resource("messages", t.mbox)}
        \cup (IF t.input.ical # <<>> THEN {Resource("events", t.mbox)} ELSE {})

\* What an open transaction has changed is named in the queue, or is going to be.
TxNamed(p) ==
    /\ phase[p] = "recipient" => \A r \in Differs(db, tx[p].db) : Named(pending[p], r)
    /\ phase[p] = "calendar" =>
         /\ \A r \in Differs(db, tx[p].db) : Named(pending[p], r) \/ r \in Ahead(tx[p])
         /\ tx[p].cal # <<>> => tx[p].input.ical # <<>>

\* The inductive invariant of the events.
NoticeInv ==
    /\ pending = [p \in Procs |-> pending[p]]
    /\ \A p \in Procs : pending[p] \in Seq(Notices) /\ TxNamed(p)
    /\ NoLostInvalidation

\* A resource is the list of mailboxes, or the messages or events of a mailbox.
LEMMA ResourceKinds ==
    ASSUME NEW r \in Resources
    PROVE  \/ r = MailboxList
           \/ \E b \in MailboxIds : r = Resource("messages", b) \/ r = Resource("events", b)
BY DEF Resources

\* What the pages read of a mailbox.
LEMMA Views ==
    ASSUME NEW d, NEW b
    PROVE  /\ View(d, Resource("messages", b)) = MessagesIn(d, b)
           /\ View(d, Resource("events", b)) = {c \in d.calendar : c.mbox = b}
BY DEF View, Resource

\* A mailbox with the same messages, or events, in two databases reads the same.
LEMMA SameViews ==
    ASSUME NEW d, NEW e, NEW b
    PROVE  /\ MessagesIn(d, b) = MessagesIn(e, b) =>
                 View(d, Resource("messages", b)) = View(e, Resource("messages", b))
           /\ {c \in d.calendar : c.mbox = b} = {c \in e.calendar : c.mbox = b} =>
                 View(d, Resource("events", b)) = View(e, Resource("events", b))
<1>1. /\ View(d, Resource("messages", b)) = MessagesIn(d, b)
      /\ View(d, Resource("events", b)) = {c \in d.calendar : c.mbox = b}
    BY Views
<1>2. /\ View(e, Resource("messages", b)) = MessagesIn(e, b)
      /\ View(e, Resource("events", b)) = {c \in e.calendar : c.mbox = b}
    BY Views
<1> QED BY <1>1, <1>2

\* Databases with the same mailboxes and messages give the same list.
LEMMA SameList ==
    ASSUME NEW d, NEW e, d.mailboxes = e.mailboxes, d.messages = e.messages
    PROVE  View(d, MailboxList) = View(e, MailboxList)
BY DEF View, MailboxList, Resource, MessagesIn

\* What each event makes the pages refetch.
LEMMA EventNames ==
    ASSUME NEW b \in Nat
    PROVE  /\ MailboxNew(b) \in Notices /\ Invalidates(MailboxNew(b)) = {MailboxList}
           /\ MailboxDeleted(b) \in Notices /\ Invalidates(MailboxDeleted(b)) = {MailboxList}
           /\ MessageNew(b) \in Notices
           /\ Invalidates(MessageNew(b)) = {MailboxList, Resource("messages", b)}
           /\ MessagesChanged(b) \in Notices
           /\ Invalidates(MessagesChanged(b)) = {MailboxList, Resource("messages", b)}
           /\ CalendarChanged(b) \in Notices
           /\ Invalidates(CalendarChanged(b)) = {Resource("events", b)}
<1>1. ASSUME NEW k \in EventTypes
      PROVE  Event(k, b) \in Notices /\ Event(k, b).type = k /\ Event(k, b).mbox = b
    BY DEF Event, Notices
<1>2. {"mailbox:new", "message:new", "messages:changed", "mailbox:deleted",
       "calendar:changed"} \subseteq EventTypes
    BY DEF EventTypes
<1> QED BY <1>1, <1>2
        DEF MailboxNew, MailboxDeleted, MessageNew, MessagesChanged, CalendarChanged, Invalidates

\* A reset makes them refetch everything.
LEMMA ResetNames == Reset \in Notices /\ Invalidates(Reset) = Resources
<1>1. Reset \in Notices /\ Reset.type = "reset"
    BY DEF Reset, Event, Notices, EventTypes
<1> QED BY <1>1 DEF Invalidates

\* Statements on messages with given ids differ in what MessagesChanged of their
\* mailboxes names.
LEMMA MessagesDiffer ==
    ASSUME NEW d, NEW e, NEW ids, e.mailboxes = d.mailboxes, e.calendar = d.calendar,
           \A m \in d.messages : m.id \notin ids => m \in e.messages,
           \A m \in e.messages : m \in d.messages \/ \E n \in WithId(d.messages, ids) : n.mbox = m.mbox,
           WithId(d.messages, ids) = {} => e.messages = d.messages,
           NEW r \in Differs(d, e)
    PROVE  \E b \in AffectedMailboxes(d, ids) : r \in {MailboxList, Resource("messages", b)}
<1>1. r \in Resources /\ View(d, r) # View(e, r)
    BY DEF Differs
<1>2. CASE r = MailboxList
  <2>1. d.messages # e.messages
    BY <1>1, <1>2, SameList
  <2> QED BY <1>2, <2>1 DEF AffectedMailboxes
<1>3. ASSUME NEW b, r = Resource("messages", b)
      PROVE  b \in AffectedMailboxes(d, ids)
  <2>1. MessagesIn(d, b) # MessagesIn(e, b)
    BY <1>1, <1>3, SameViews
  <2> QED BY <2>1 DEF MessagesIn, AffectedMailboxes, WithId
<1>4. ASSUME NEW b, r = Resource("events", b) PROVE FALSE
    BY <1>1, <1>4, SameViews
<1> QED BY <1>1, <1>2, <1>3, <1>4, ResourceKinds

\* UPDATE messages SET is_read.
LEMMA SetReadDiffers ==
    ASSUME NEW d, Sound(d), NEW ids, NEW value, NEW r \in Differs(d, SetRead(d, ids, value))
    PROVE  \E b \in AffectedMailboxes(d, ids) : r \in {MailboxList, Resource("messages", b)}
<1> DEFINE e == SetRead(d, ids, value)
           new(m) == IF m.id \in ids THEN [m EXCEPT !.read = value] ELSE m
<1>1. /\ e.messages = {new(m) : m \in d.messages}
      /\ e.mailboxes = d.mailboxes /\ e.calendar = d.calendar
    BY DEF Sound, Columns, IsTables, SetRead
<1>2. \A m \in d.messages : /\ new(m).mbox = m.mbox
                            /\ m.id \notin ids => new(m) = m
    BY DEF Sound, Columns, IsMessage
<1> HIDE DEF new, e
<1>3. \A m \in e.messages : \E n \in d.messages : m = new(n)
    BY <1>1
<1>4. \A m \in e.messages : m \in d.messages \/ \E n \in WithId(d.messages, ids) : n.mbox = m.mbox
    BY <1>2, <1>3 DEF WithId
<1>5. \A m \in d.messages : m.id \notin ids => m \in e.messages
    BY <1>1, <1>2
<1>6. WithId(d.messages, ids) = {} => e.messages = d.messages
    BY <1>1, <1>2 DEF WithId
<1>7. r \in Differs(d, e)
    BY DEF e
<1> QED BY <1>1, <1>4, <1>5, <1>6, <1>7, MessagesDiffer

\* DELETE FROM messages.
LEMMA DeleteRowsDiffers ==
    ASSUME NEW d, Sound(d), NEW ids, NEW r \in Differs(d, DeleteRows(d, ids))
    PROVE  \E b \in AffectedMailboxes(d, ids) : r \in {MailboxList, Resource("messages", b)}
<1> DEFINE e == DeleteRows(d, ids)
<1>1. /\ e.messages = {m \in d.messages : m.id \notin ids}
      /\ e.mailboxes = d.mailboxes /\ e.calendar = d.calendar
    BY DEF Sound, Columns, IsTables, DeleteRows
<1> HIDE DEF e
<1>2. WithId(d.messages, ids) = {} => e.messages = d.messages
    BY <1>1 DEF WithId
<1>3. r \in Differs(d, e)
    BY DEF e
<1> QED BY <1>1, <1>2, <1>3, MessagesDiffer

\* Databases with the same messages and calendar differ in the list at most.
LEMMA MailboxesDiffer ==
    ASSUME NEW d, NEW e, e.messages = d.messages, e.calendar = d.calendar
    PROVE  Differs(d, e) \subseteq {MailboxList}
<1> SUFFICES ASSUME NEW r \in Differs(d, e), r # MailboxList PROVE FALSE
    OBVIOUS
<1>1. r \in Resources /\ View(d, r) # View(e, r)
    BY DEF Differs
<1>2. ASSUME NEW b, r = Resource("messages", b) PROVE FALSE
    BY <1>1, <1>2, SameViews DEF MessagesIn
<1>3. ASSUME NEW b, r = Resource("events", b) PROVE FALSE
    BY <1>1, <1>3, SameViews
<1> QED BY <1>1, <1>2, <1>3, ResourceKinds

\* INSERT INTO mailboxes, and the upsert.
LEMMA MailboxRowDiffers ==
    ASSUME NEW d, Sound(d), NEW address, NEW now
    PROVE  /\ Differs(d, InsertMailbox(d, address)) \subseteq {MailboxList}
           /\ Differs(d, UpsertMailbox(d, address, now)) \subseteq {MailboxList}
<1>1. LET e == InsertMailbox(d, address) IN e.messages = d.messages /\ e.calendar = d.calendar
    BY DEF Sound, Columns, IsTables, InsertMailbox
<1>2. LET e == UpsertMailbox(d, address, now) IN e.messages = d.messages /\ e.calendar = d.calendar
    BY DEF Sound, Columns, IsTables, UpsertMailbox
<1> QED BY <1>1, <1>2, MailboxesDiffer

\* DELETE FROM mailboxes: of the mailboxes that stay, nothing but the list.
LEMMA DeleteMailboxChanges ==
    ASSUME NEW d, Sound(d), NEW mbox
    PROVE  Changed(d, DeleteMailboxRow(d, mbox)) \subseteq {MailboxList}
<1> DEFINE gone == {m.id : m \in MessagesIn(d, mbox)}
           f == DeleteRows(d, gone)
           e == DeleteMailboxRow(d, mbox)
<1>1. /\ f.messages = {m \in d.messages : m.id \notin gone} /\ IsTables(f)
      /\ f.mailboxes = d.mailboxes /\ f.calendar = d.calendar
    BY DEF Sound, Columns, IsTables, DeleteRows
<1>2. e = [f EXCEPT !.mailboxes = {b \in @ : b.id # mbox},
                    !.calendar = {c \in @ : c.mbox # mbox}]
    BY DEF DeleteMailboxRow
<1> HIDE DEF f, e
<1>3. /\ e.messages = {m \in d.messages : m.id \notin gone}
      /\ e.mailboxes = {b \in d.mailboxes : b.id # mbox}
      /\ e.calendar = {c \in d.calendar : c.mbox # mbox}
    BY <1>1, <1>2 DEF IsTables
<1> SUFFICES ASSUME NEW r \in Changed(d, e), r # MailboxList PROVE FALSE
    BY DEF e
<1>4. /\ r \in Resources /\ View(d, r) # View(e, r)
      /\ \E b \in e.mailboxes : b.id = r.mbox
    BY DEF Changed
<1>5. r.mbox # mbox
    BY <1>3, <1>4
<1>6. ASSUME NEW b, r = Resource("messages", b) PROVE FALSE
  <2>1. b # mbox
    BY <1>5, <1>6 DEF Resource
  <2>2. MessagesIn(d, b) = MessagesIn(e, b)
    BY <1>3, <2>1 DEF MessagesIn, Sound, Messages
  <2> QED BY <1>4, <1>6, <2>2, SameViews
<1>7. ASSUME NEW b, r = Resource("events", b) PROVE FALSE
  <2>1. b # mbox
    BY <1>5, <1>7 DEF Resource
  <2> QED BY <1>3, <1>4, <1>7, <2>1, SameViews
<1> QED BY <1>4, <1>6, <1>7, ResourceKinds

\* INSERT INTO messages: the list, and the messages of the mailbox.
LEMMA InsertMessageDiffers ==
    ASSUME NEW d, Sound(d), NEW mbox, NEW now
    PROVE  Differs(d, InsertMessage(d, mbox, now))
             \subseteq {MailboxList, Resource("messages", mbox)}
<1> DEFINE e == InsertMessage(d, mbox, now)
           row == [id |-> d.messageSeq + 1, mbox |-> mbox, recv |-> now,
                   read |-> 0, serial |-> d.born + 1]
<1>1. e.messages = d.messages \cup {row} /\ e.calendar = d.calendar
    BY DEF Sound, Columns, IsTables, InsertMessage
<1>2. row.mbox = mbox
    OBVIOUS
<1> HIDE DEF e, row
<1> SUFFICES ASSUME NEW r \in Differs(d, e), r # MailboxList, r # Resource("messages", mbox)
             PROVE  FALSE
    BY DEF e
<1>3. r \in Resources /\ View(d, r) # View(e, r)
    BY DEF Differs
<1>4. ASSUME NEW b, r = Resource("messages", b) PROVE FALSE
  <2>1. b # mbox
    BY <1>4
  <2>2. MessagesIn(d, b) = MessagesIn(e, b)
    BY <1>1, <1>2, <2>1 DEF MessagesIn
  <2> QED BY <1>3, <1>4, <2>2, SameViews
<1>5. ASSUME NEW b, r = Resource("events", b) PROVE FALSE
    BY <1>1, <1>3, <1>5, SameViews
<1> QED BY <1>3, <1>4, <1>5, ResourceKinds

\* INSERT INTO attachments: nothing.
LEMMA AttachmentsDiffer ==
    ASSUME NEW d, Sound(d), NEW message, NEW count
    PROVE  Differs(d, InsertAttachments(d, message, count)) = {}
<1> DEFINE e == InsertAttachments(d, message, count)
<1>1. e.messages = d.messages /\ e.calendar = d.calendar /\ e.mailboxes = d.mailboxes
    BY DEF Sound, Columns, IsTables, InsertAttachments
<1> HIDE DEF e
<1>2. Differs(d, e) \subseteq {MailboxList} /\ View(d, MailboxList) = View(e, MailboxList)
    BY <1>1, MailboxesDiffer, SameList
<1>3. Differs(d, e) = {}
    BY <1>2 DEF Differs
<1> QED BY <1>3 DEF e

\* One calendar component: the events of the mailbox.
LEMMA CalendarDiffers ==
    ASSUME NEW d, Sound(d), NEW mbox, NEW ev
    PROVE  Differs(d, [d EXCEPT !.calendar = ApplyCalendarEvent(@, mbox, Inserted(d), ev)])
             \subseteq {Resource("events", mbox)}
<1> DEFINE old == RowsFor(d.calendar, mbox, ev.uid)
           new == CASE ev.method = "CANCEL" -> CancelRows(old, mbox, Inserted(d), ev)
                    [] ev.method = "REPLY"  -> ReplyRows(old, Inserted(d), ev)
                    [] OTHER                -> UpdateRows(old, mbox, Inserted(d), ev)
           rows == ApplyCalendarEvent(d.calendar, mbox, Inserted(d), ev)
           e == [d EXCEPT !.calendar = rows]
<1>1. \A c \in new : c \in old \/ FreshRow(d, mbox, ev.uid, c)
    BY CalendarRowsFresh
<1>2. rows = (d.calendar \ old) \cup new
    BY DEF ApplyCalendarEvent
<1>3. old = {c \in d.calendar : c.mbox = mbox /\ c.uid = ev.uid}
    BY DEF RowsFor
<1> HIDE DEF rows, new, old
<1>4. e.calendar = rows /\ e.messages = d.messages /\ e.mailboxes = d.mailboxes
    BY DEF Sound, Columns, IsTables
<1> HIDE DEF e
<1>5. \A c \in new \cup old : c.mbox = mbox
    BY <1>1, <1>3 DEF FreshRow
<1> SUFFICES ASSUME NEW r \in Differs(d, e), r # Resource("events", mbox) PROVE FALSE
    BY DEF e, rows
<1>6. r \in Resources /\ View(d, r) # View(e, r)
    BY DEF Differs
<1>7. r # MailboxList
    BY <1>4, <1>6, SameList
<1>8. ASSUME NEW b, r = Resource("messages", b) PROVE FALSE
    BY <1>4, <1>6, <1>8, SameViews DEF MessagesIn
<1>9. ASSUME NEW b, r = Resource("events", b) PROVE FALSE
  <2>1. b # mbox
    BY <1>9
  <2>2. {c \in d.calendar : c.mbox = b} = {c \in e.calendar : c.mbox = b}
    BY <1>2, <1>4, <1>5, <2>1
  <2> QED BY <1>6, <1>9, <2>2, SameViews
<1> QED BY <1>6, <1>7, <1>8, <1>9, ResourceKinds

-----------------------------------------------------------------------------
(* Frames: a resource that is dirty stays named. *)

\* What is named stays named when events are queued behind or before it.
LEMMA NamedConcat ==
    ASSUME NEW a \in Seq(Notices), NEW b \in Seq(Notices), NEW r, Named(a, r) \/ Named(b, r)
    PROVE  Named(a \o b, r)
<1>1. /\ a \o b \in Seq(Notices) /\ Len(a \o b) = Len(a) + Len(b)
      /\ \A i \in 1..Len(a) : (a \o b)[i] = a[i]
      /\ \A i \in 1..Len(b) : Len(a) + i \in 1..(Len(a) + Len(b)) /\ (a \o b)[Len(a) + i] = b[i]
    OBVIOUS
<1>2. CASE Named(a, r)
  <2>1. PICK i \in 1..Len(a) : r \in Invalidates(a[i])
    BY <1>2 DEF Named
  <2>2. i \in DOMAIN (a \o b) /\ (a \o b)[i] = a[i]
    BY <1>1, <2>1
  <2> QED BY <2>1, <2>2 DEF Named
<1>3. CASE Named(b, r)
  <2>1. PICK i \in 1..Len(b) : r \in Invalidates(b[i])
    BY <1>3 DEF Named
  <2>2. Len(a) + i \in DOMAIN (a \o b) /\ (a \o b)[Len(a) + i] = b[i]
    BY <1>1, <2>1
  <2> QED BY <2>1, <2>2 DEF Named
<1> QED BY <1>2, <1>3

\* One event names what it invalidates.
LEMMA NamedSingle ==
    ASSUME NEW n \in Notices, NEW r \in Invalidates(n)
    PROVE  <<n>> \in Seq(Notices) /\ Named(<<n>>, r)
BY DEF Named

\* The process that names a dirty resource is not the one at work on the tables.
LEMMA OthersNotify ==
    ASSUME NoticeInv, NEW p \in Procs, phase[p] \notin {"returning", "emitting"},
           \A q \in Procs \ {p} : phase'[q] = phase[q] /\ pending'[q] = pending[q],
           NEW r \in dirty
    PROVE  \E q \in Procs : /\ phase'[q] \in {"returning", "emitting"}
                            /\ Named(pending'[q], r)
<1>1. PICK q \in Procs : /\ phase[q] \in {"returning", "emitting"}
                         /\ \E i \in DOMAIN pending[q] : r \in Invalidates(pending[q][i])
    BY DEF NoticeInv, NoLostInvalidation
<1> QED BY <1>1 DEF Named

\* A body that commits and queues events that name what the commit changes.
LEMMA CommitNotices ==
    ASSUME FenceInv, NoticeInv, NEW p \in Procs, phase[p] \in {"locked"} \cup InTx,
           NEW d, NEW evs \in Seq(Notices), Commit(p, d, evs),
           \A r \in Changed(db, d) : Named(evs, r)
    PROVE  NoticeInv'
<1>1. /\ db' = d /\ phase' = [phase EXCEPT ![p] = "returning"]
      /\ pending' = [pending EXCEPT ![p] = evs] /\ dirty' = dirty \cup Changed(db, d)
      /\ phase \in [Procs -> Phases] /\ pending = [q \in Procs |-> pending[q]]
    BY DEF Commit, FenceInv, NoticeInv
<1>2. /\ pending' = [q \in Procs |-> pending'[q]]
      /\ phase'[p] = "returning" /\ pending'[p] = evs
      /\ \A q \in Procs \ {p} : phase'[q] = phase[q] /\ pending'[q] = pending[q]
    BY <1>1
<1>3. \A q \in Procs : pending'[q] \in Seq(Notices)
    BY <1>2 DEF NoticeInv
<1>4. ASSUME NEW q \in Procs PROVE TxNamed(q)'
  <2>1. phase'[q] \notin InTx
    BY <1>2, OneHolder DEF Locked, InTx
  <2> QED BY <2>1 DEF TxNamed, InTx
<1>5. NoLostInvalidation'
  <2> SUFFICES ASSUME NEW r \in dirty'
               PROVE  \E q \in Procs : /\ phase'[q] \in {"returning", "emitting"}
                                       /\ \E i \in DOMAIN pending'[q] : r \in Invalidates(pending'[q][i])
    BY DEF NoLostInvalidation
  <2>1. \E q \in Procs : phase'[q] \in {"returning", "emitting"} /\ Named(pending'[q], r)
    <3>1. CASE r \in dirty
      BY <1>2, <3>1, OthersNotify DEF InTx
    <3>2. CASE r \in Changed(db, d)
      BY <1>2, <3>2
    <3> QED BY <1>1, <3>1, <3>2
  <2> QED BY <2>1 DEF Named
<1> QED BY <1>2, <1>3, <1>4, <1>5 DEF NoticeInv

\* A step of a process that is not returning and not emitting, that leaves the
\* committed tables and the other processes alone.
LEMMA QuietNotices ==
    ASSUME NoticeInv, NEW p \in Procs, phase[p] \notin {"returning", "emitting"},
           db' = db, dirty' = dirty, pending' = [q \in Procs |-> pending'[q]],
           \A q \in Procs \ {p} :
              phase'[q] = phase[q] /\ pending'[q] = pending[q] /\ tx'[q] = tx[q],
           pending'[p] \in Seq(Notices), TxNamed(p)'
    PROVE  NoticeInv'
<1>1. \A q \in Procs : pending'[q] \in Seq(Notices) /\ TxNamed(q)'
  <2> SUFFICES ASSUME NEW q \in Procs \ {p} PROVE pending'[q] \in Seq(Notices) /\ TxNamed(q)'
    OBVIOUS
  <2> QED BY DEF NoticeInv, TxNamed
<1>2. NoLostInvalidation'
  <2> SUFFICES ASSUME NEW r \in dirty'
               PROVE  \E q \in Procs : /\ phase'[q] \in {"returning", "emitting"}
                                       /\ \E i \in DOMAIN pending'[q] : r \in Invalidates(pending'[q][i])
    BY DEF NoLostInvalidation
  <2> QED BY OthersNotify DEF Named
<1> QED BY <1>1, <1>2 DEF NoticeInv

-----------------------------------------------------------------------------
(* The steps. *)

\* Nothing is dirty and nothing is queued when the program starts.
LEMMA NoticeInit == Init => NoticeInv
<1> SUFFICES ASSUME Init PROVE NoticeInv
    OBVIOUS
<1>1. <<>> \in Seq(Notices)
    OBVIOUS
<1> QED BY <1>1 DEF Init, NoticeInv, NoLostInvalidation, TxNamed

\* Calling, locking and failing.
LEMMA CallNotices ==
    ASSUME FenceInv, NoticeInv, NEW p \in Procs,
           Call(p) \/ Enter(p) \/ Wait(p) \/ GiveUp(p) \/ Fail(p)
    PROVE  NoticeInv'
<1>1. phase \in [Procs -> Phases] /\ tx = [q \in Procs |-> tx[q]]
      /\ pending = [q \in Procs |-> pending[q]] /\ pending[p] \in Seq(Notices)
    BY DEF FenceInv, NoticeInv
<1>2. CASE Call(p) \/ Enter(p) \/ Wait(p) \/ GiveUp(p)
  <2>1. /\ phase[p] \in {"idle", "calling"} /\ phase'[p] \in {"idle", "calling", "locked"}
        /\ \A q \in Procs \ {p} : phase'[q] = phase[q]
        /\ db' = db /\ dirty' = dirty /\ pending' = pending /\ tx' = tx
    BY <1>1, <1>2 DEF Call, Enter, Wait, GiveUp, storeVars
  <2>2. TxNamed(p)'
    BY <2>1 DEF TxNamed
  <2> QED BY <1>1, <2>1, <2>2, QuietNotices
<1>3. CASE Fail(p)
  <2>1. /\ phase[p] \in {"locked", "recipient", "calendar"} /\ phase'[p] = "returning"
        /\ \A q \in Procs \ {p} : phase'[q] = phase[q] /\ tx'[q] = tx[q] /\ pending'[q] = pending[q]
        /\ db' = db /\ dirty' = dirty /\ pending'[p] = <<>>
        /\ pending' = [q \in Procs |-> pending'[q]]
    BY <1>1, <1>3 DEF Fail, InTx
  <2>2. TxNamed(p)' /\ pending'[p] \in Seq(Notices)
    BY <2>1 DEF TxNamed
  <2> QED BY <2>1, <2>2, QuietNotices
<1> QED BY <1>2, <1>3

\* Unlocking and finishing, and the emission of one event.
LEMMA EmitNotices ==
    ASSUME FenceInv, NoticeInv, NEW p \in Procs, Return(p) \/ Emit(p) \/ Finish(p)
    PROVE  NoticeInv'
<1>1. phase \in [Procs -> Phases] /\ tx = [q \in Procs |-> tx[q]]
      /\ pending = [q \in Procs |-> pending[q]] /\ pending[p] \in Seq(Notices)
    BY DEF FenceInv, NoticeInv
<1>2. /\ phase'[p] \in {"emitting", "idle"} /\ db' = db /\ tx' = tx
      /\ \A q \in Procs \ {p} : phase'[q] = phase[q] /\ pending'[q] = pending[q]
      /\ pending' = [q \in Procs |-> pending'[q]]
      /\ pending'[p] = pending[p] \/ (pending[p] # <<>> /\ pending'[p] = Tail(pending[p]))
  <2>1. CASE Return(p) \/ Finish(p)
    <3>1. /\ db' = db /\ tx' = tx /\ pending' = pending
          /\ phase' = [phase EXCEPT ![p] = "emitting"] \/ phase' = [phase EXCEPT ![p] = "idle"]
      BY <2>1 DEF Return, Finish
    <3> QED BY <1>1, <3>1
  <2>2. CASE Emit(p)
    <3>1. /\ db' = db /\ tx' = tx /\ phase' = phase /\ phase[p] = "emitting"
          /\ pending[p] # <<>> /\ pending' = [pending EXCEPT ![p] = Tail(@)]
      BY <2>2 DEF Emit
    <3> QED BY <1>1, <3>1
  <2> QED BY <2>1, <2>2
<1>3. ASSUME NEW q \in Procs PROVE pending'[q] \in Seq(Notices) /\ TxNamed(q)'
  <2>1. CASE q = p
    <3>1. pending'[p] \in Seq(Notices)
      BY <1>1, <1>2
    <3>2. TxNamed(p)'
      BY <1>2 DEF TxNamed
    <3> QED BY <2>1, <3>1, <3>2
  <2>2. CASE q # p
    BY <1>2, <2>2 DEF NoticeInv, TxNamed
  <2> QED BY <2>1, <2>2
<1>4. ASSUME NEW r \in dirty'
      PROVE  \E q \in Procs : phase'[q] \in {"returning", "emitting"} /\ Named(pending'[q], r)
  <2>1. r \in dirty
    BY <1>4 DEF Return, Emit, Finish
  <2>2. PICK q \in Procs : /\ phase[q] \in {"returning", "emitting"}
                           /\ \E i \in DOMAIN pending[q] : r \in Invalidates(pending[q][i])
    BY <2>1 DEF NoticeInv, NoLostInvalidation
  <2>3. CASE q # p
    BY <1>2, <2>2, <2>3 DEF Named
  <2>4. CASE q = p /\ Return(p)
    <3>1. phase'[p] = "emitting" /\ pending'[p] = pending[p]
      BY <1>1, <2>4 DEF Return
    <3> QED BY <2>2, <2>4, <3>1 DEF Named
  <2>5. CASE q = p /\ Emit(p)
    <3>1. /\ phase'[p] = "emitting" /\ pending[p] # <<>> /\ pending'[p] = Tail(pending[p])
          /\ r \notin Invalidates(Head(pending[p]))
      BY <1>1, <1>4, <2>5 DEF Emit
    <3>2. PICK i \in DOMAIN pending[p] : r \in Invalidates(pending[p][i])
      BY <2>2, <2>5
    <3>3. i # 1
      BY <1>1, <3>1, <3>2
    <3>4. i - 1 \in DOMAIN Tail(pending[p]) /\ Tail(pending[p])[i - 1] = pending[p][i]
      BY <1>1, <3>1, <3>2, <3>3
    <3> QED BY <2>5, <3>1, <3>2, <3>4 DEF Named
  <2>6. CASE q = p /\ Finish(p)
    BY <2>2, <2>6 DEF Finish
  <2> QED BY <2>3, <2>4, <2>5, <2>6
<1>5. NoLostInvalidation'
    BY <1>4 DEF NoLostInvalidation, Named
<1> QED BY <1>2, <1>3, <1>5 DEF NoticeInv

\* CommitAffected queues an event for every mailbox that holds one of the rows.
LEMMA AffectedNamed ==
    ASSUME NEW d, Sound(d), NEW ids, NEW order \in SetToSeqs(AffectedMailboxes(d, ids))
    PROVE  LET evs == [i \in DOMAIN order |-> MessagesChanged(order[i])]
           IN  /\ evs \in Seq(Notices)
               /\ \A b \in AffectedMailboxes(d, ids) :
                     \A r \in {MailboxList, Resource("messages", b)} : Named(evs, r)
<1> DEFINE S == AffectedMailboxes(d, ids)
           n == Cardinality(S)
           evs == [i \in DOMAIN order |-> MessagesChanged(order[i])]
<1>1. \A b \in S : b \in Nat /\ b <= d.mailboxSeq
    BY DEF AffectedMailboxes, WithId, Sound, Columns, Mailboxes, Messages
<1>2. d.mailboxSeq \in Nat
    BY DEF Sound, Columns
<1>3. IsFiniteSet(S) /\ n \in Nat
    BY <1>1, <1>2, FS_BoundedSetOfNaturals, FS_CardinalityType
<1>4. order \in [1..n -> S] /\ \A i, j \in 1..n : i # j => order[i] # order[j]
    BY DEF SetToSeqs
<1> HIDE DEF S, n
<1>5. order \in Injection(1..n, S)
    BY <1>4 DEF Injection, IsInjective
<1>6. Cardinality(1..n) = n
    BY <1>3, FS_Interval
<1>7. order \in Surjection(1..n, S)
    BY <1>3, <1>5, <1>6, FS_Injection DEF n
<1>8. \A b \in S : \E i \in 1..n : order[i] = b
    BY <1>7 DEF Surjection
<1>9. DOMAIN evs = 1..n /\ \A i \in 1..n : evs[i] = MessagesChanged(order[i]) /\ order[i] \in Nat
    BY <1>1, <1>4
<1> HIDE DEF evs
<1>10. \A i \in 1..n : evs[i] \in Notices
    BY <1>9, EventNames
<1>11. evs \in Seq(Notices)
  <2>1. evs \in [1..n -> Notices]
    BY <1>9, <1>10 DEF evs
  <2> QED BY <1>3, <2>1, SeqDef
<1>12. ASSUME NEW b \in S, NEW r \in {MailboxList, Resource("messages", b)} PROVE Named(evs, r)
  <2>1. PICK i \in 1..n : order[i] = b
    BY <1>8
  <2>2. r \in Invalidates(evs[i])
    BY <1>9, <2>1, EventNames
  <2> QED BY <1>9, <2>2 DEF Named
<1> QED BY <1>11, <1>12 DEF evs, S

\* The commit of rows with given ids and of the events for their mailboxes.
LEMMA CommitAffectedNamed ==
    ASSUME Sound(db), NEW p \in Procs, NEW d, NEW ids, CommitAffected(p, d, ids),
           \A r \in Differs(db, d) : \E b \in AffectedMailboxes(db, ids) :
                r \in {MailboxList, Resource("messages", b)}
    PROVE  \E evs \in Seq(Notices) : Commit(p, d, evs) /\ \A r \in Changed(db, d) : Named(evs, r)
<1>1. PICK order \in SetToSeqs(AffectedMailboxes(db, ids)) :
        Commit(p, d, [i \in DOMAIN order |-> MessagesChanged(order[i])])
    BY DEF CommitAffected
<1> DEFINE evs == [i \in DOMAIN order |-> MessagesChanged(order[i])]
<1>2. /\ evs \in Seq(Notices)
      /\ \A b \in AffectedMailboxes(db, ids) :
            \A r \in {MailboxList, Resource("messages", b)} : Named(evs, r)
    BY AffectedNamed
<1>3. Changed(db, d) \subseteq Differs(db, d)
    BY DEF Changed, Differs
<1> HIDE DEF evs
<1>4. \A r \in Changed(db, d) : Named(evs, r)
    BY <1>2, <1>3
<1> QED BY <1>1, <1>2, <1>4 DEF evs

\* UPDATE messages SET is_read=1 WHERE id=?, for a row of the mailbox that is named.
LEMMA MarkedNamed ==
    ASSUME Sound(db), NEW p \in Procs, NEW m \in db.messages,
           Commit(p, SetRead(db, {m.id}, 1), <<MessagesChanged(m.mbox)>>)
    PROVE  \E d : \E evs \in Seq(Notices) :
              Commit(p, d, evs) /\ \A r \in Changed(db, d) : Named(evs, r)
<1> DEFINE d == SetRead(db, {m.id}, 1)
           evs == <<MessagesChanged(m.mbox)>>
<1>1. m.mbox \in Nat
    BY DEF Sound, Columns, Messages
<1>2. \A b \in AffectedMailboxes(db, {m.id}) : b = m.mbox
    BY DEF AffectedMailboxes, WithId, Sound, Messages
<1>3. MessagesChanged(m.mbox) \in Notices
      /\ Invalidates(MessagesChanged(m.mbox)) = {MailboxList, Resource("messages", m.mbox)}
    BY <1>1, EventNames
<1>4. ASSUME NEW r \in Changed(db, d) PROVE Named(evs, r)
  <2>1. r \in Differs(db, d)
    BY DEF Changed, Differs
  <2>2. r \in {MailboxList, Resource("messages", m.mbox)}
    BY <1>2, <2>1, SetReadDiffers
  <2> QED BY <1>3, <2>2, NamedSingle
<1>5. evs \in Seq(Notices)
    BY <1>3
<1> QED BY <1>4, <1>5

\* A body that commits the tables as they are.
LEMMA UnchangedNamed ==
    ASSUME NEW p \in Procs, Commit(p, db, <<>>)
    PROVE  \E d : \E evs \in Seq(Notices) :
              Commit(p, d, evs) /\ \A r \in Changed(db, d) : Named(evs, r)
<1>1. Changed(db, db) = {}
    BY DEF Changed
<1>2. <<>> \in Seq(Notices)
    OBVIOUS
<1> QED BY <1>1, <1>2

\* Every operation of one statement names what it changes.
LEMMA OperateNamed ==
    ASSUME TableInv, NEW p \in Procs, Operate(p)
    PROVE  \E d : \E evs \in Seq(Notices) :
              Commit(p, d, evs) /\ \A r \in Changed(db, d) : Named(evs, r)
<1>1. Sound(db) /\ db.mailboxSeq \in Nat
    BY DEF TableInv, Sound, Columns
<1>2. CASE GetMessage(p)
    BY <1>2, UnchangedNamed DEF GetMessage
<1>3. CASE ReadMessage(p)
  <2>1. \/ Commit(p, db, <<>>)
        \/ \E m \in db.messages : Commit(p, SetRead(db, {m.id}, 1), <<MessagesChanged(m.mbox)>>)
    BY <1>3 DEF ReadMessage, WithId
  <2> QED BY <1>1, <2>1, UnchangedNamed, MarkedNamed
<1>4. CASE MarkReadDetail(p)
  <2>1. \/ Commit(p, db, <<>>)
        \/ \E m \in db.messages : Commit(p, SetRead(db, {m.id}, 1), <<MessagesChanged(m.mbox)>>)
    BY <1>4 DEF MarkReadDetail, WithId
  <2> QED BY <1>1, <2>1, UnchangedNamed, MarkedNamed
<1>5. CASE MarkRead(p)
  <2>1. \/ Commit(p, db, <<>>)
        \/ \E m \in db.messages : Commit(p, SetRead(db, {m.id}, 1), <<MessagesChanged(m.mbox)>>)
    BY <1>5 DEF MarkRead, WithId
  <2> QED BY <1>1, <2>1, UnchangedNamed, MarkedNamed
<1>6. CASE SetReadState(p)
  <2>1. PICK ids, value : CommitAffected(p, SetRead(db, ids, value), ids)
    BY <1>6 DEF SetReadState
  <2> QED BY <1>1, <2>1, SetReadDiffers, CommitAffectedNamed
<1>7. CASE DeleteMessages(p)
  <2>1. PICK ids : CommitAffected(p, DeleteRows(db, ids), ids)
    BY <1>7 DEF DeleteMessages
  <2> QED BY <1>1, <2>1, DeleteRowsDiffers, CommitAffectedNamed
<1>8. CASE OpenPOP3Mailbox(p)
  <2>1. \/ Commit(p, db, <<>>)
        \/ \E address : Commit(p, InsertMailbox(db, address), <<MailboxNew(db.mailboxSeq + 1)>>)
    BY <1>8 DEF OpenPOP3Mailbox
  <2>2. ASSUME NEW address, Commit(p, InsertMailbox(db, address), <<MailboxNew(db.mailboxSeq + 1)>>)
        PROVE  \E d : \E evs \in Seq(Notices) :
                  Commit(p, d, evs) /\ \A r \in Changed(db, d) : Named(evs, r)
    <3>1. Changed(db, InsertMailbox(db, address)) \subseteq {MailboxList}
      BY <1>1, MailboxRowDiffers DEF Changed, Differs
    <3>2. /\ MailboxNew(db.mailboxSeq + 1) \in Notices
          /\ Invalidates(MailboxNew(db.mailboxSeq + 1)) = {MailboxList}
      BY <1>1, EventNames
    <3>3. /\ <<MailboxNew(db.mailboxSeq + 1)>> \in Seq(Notices)
          /\ Named(<<MailboxNew(db.mailboxSeq + 1)>>, MailboxList)
      BY <3>2, NamedSingle
    <3> QED BY <2>2, <3>1, <3>3
  <2> QED BY <2>1, <2>2, UnchangedNamed
<1>9. CASE DeletePOP3Messages(p)
  <2>1. Commit(p, db, <<>>) \/ \E ids : CommitAffected(p, DeleteRows(db, ids), ids)
    BY <1>9 DEF DeletePOP3Messages
  <2>2. ASSUME NEW ids, CommitAffected(p, DeleteRows(db, ids), ids)
        PROVE  \E d : \E evs \in Seq(Notices) :
                  Commit(p, d, evs) /\ \A r \in Changed(db, d) : Named(evs, r)
    BY <1>1, <2>2, DeleteRowsDiffers, CommitAffectedNamed
  <2> QED BY <2>1, <2>2, UnchangedNamed
<1>10. CASE DeleteMailbox(p)
  <2>1. \/ Commit(p, db, <<>>)
        \/ \E mbox \in MailboxIds : Commit(p, DeleteMailboxRow(db, mbox), <<MailboxDeleted(mbox)>>)
    BY <1>10 DEF DeleteMailbox
  <2>2. ASSUME NEW mbox \in MailboxIds,
               Commit(p, DeleteMailboxRow(db, mbox), <<MailboxDeleted(mbox)>>)
        PROVE  \E d : \E evs \in Seq(Notices) :
                  Commit(p, d, evs) /\ \A r \in Changed(db, d) : Named(evs, r)
    <3>1. Changed(db, DeleteMailboxRow(db, mbox)) \subseteq {MailboxList}
      BY <1>1, DeleteMailboxChanges
    <3>2. mbox \in Nat
      BY BoundsAssumption DEF MailboxIds
    <3>3. MailboxDeleted(mbox) \in Notices /\ Invalidates(MailboxDeleted(mbox)) = {MailboxList}
      BY <3>2, EventNames
    <3>4. <<MailboxDeleted(mbox)>> \in Seq(Notices) /\ Named(<<MailboxDeleted(mbox)>>, MailboxList)
      BY <3>3, NamedSingle
    <3> QED BY <2>2, <3>1, <3>4
  <2> QED BY <2>1, <2>2, UnchangedNamed
<1>11. CASE WipeAll(p)
  <2>1. Commit(p, EmptyDb(db.born), <<Reset>>)
    BY <1>11 DEF WipeAll
  <2>2. Changed(db, EmptyDb(db.born)) \subseteq Resources
    BY DEF Changed
  <2>3. <<Reset>> \in Seq(Notices) /\ \A r \in Resources : Named(<<Reset>>, r)
    BY ResetNames, NamedSingle
  <2> QED BY <2>1, <2>2, <2>3
<1> QED BY <1>2, <1>3, <1>4, <1>5, <1>6, <1>7, <1>8, <1>9, <1>10, <1>11 DEF Operate

\* The operations of one statement keep the invariant.
LEMMA OperateNotices ==
    ASSUME FenceInv, TableInv, NoticeInv, NEW p \in Procs, Operate(p) PROVE NoticeInv'
<1>1. phase[p] = "locked"
    BY DEF Operate, GetMessage, ReadMessage, MarkReadDetail, MarkRead, SetReadState,
           DeleteMessages, OpenPOP3Mailbox, DeletePOP3Messages, DeleteMailbox, WipeAll, Body
<1>2. PICK d : \E evs \in Seq(Notices) :
         Commit(p, d, evs) /\ \A r \in Changed(db, d) : Named(evs, r)
    BY OperateNamed
<1> QED BY <1>1, <1>2, CommitNotices

\* StoreMessage names what its transaction changes before it commits.
LEMMA StoreNotices ==
    ASSUME FenceInv, TableInv, NoticeInv, NEW p \in Procs, Store(p) PROVE NoticeInv'
<1> DEFINE t == tx[p]
           evs == pending[p]
<1>1. /\ phase \in [Procs -> Phases] /\ tx = [q \in Procs |-> tx[q]]
      /\ pending = [q \in Procs |-> pending[q]] /\ evs \in Seq(Notices)
      /\ phase[p] \in InTx => IsStoreTx(t) /\ Sound(t.db)
      /\ phase[p] = "recipient" => \A r \in Differs(db, t.db) : Named(evs, r)
      /\ phase[p] = "calendar" =>
            /\ \A r \in Differs(db, t.db) : Named(evs, r) \/ r \in Ahead(t)
            /\ t.cal # <<>> => t.input.ical # <<>>
    BY DEF FenceInv, TableInv, TxSound, NoticeInv, TxNamed
<1>2. CASE BeginStore(p)
  <2>1. PICK in \in Inputs :
          tx' = [tx EXCEPT ![p] = [db |-> db, input |-> in, todo |-> in.recipients,
                                   cal |-> <<>>, mbox |-> 0]]
    BY <1>2 DEF BeginStore
  <2>2. /\ phase[p] = "locked" /\ phase' = [phase EXCEPT ![p] = "recipient"]
        /\ db' = db /\ dirty' = dirty /\ pending' = pending
    BY <1>2 DEF BeginStore, Body
  <2>3. tx'[p].db = db /\ phase'[p] = "recipient"
    BY <1>1, <2>1, <2>2
  <2>4. TxNamed(p)'
    BY <2>2, <2>3 DEF TxNamed, Differs
  <2> QED BY <1>1, <2>1, <2>2, <2>4, QuietNotices
<1>3. CASE SkipBlank(p)
  <2>1. /\ phase[p] = "recipient" /\ phase' = phase /\ db' = db /\ dirty' = dirty
        /\ tx' = [tx EXCEPT ![p].todo = Tail(@)] /\ pending' = pending
    BY <1>3 DEF SkipBlank
  <2>2. tx'[p].db = t.db
    BY <1>1, <2>1 DEF IsStoreTx, InTx
  <2>3. TxNamed(p)'
    BY <1>1, <2>1, <2>2 DEF TxNamed
  <2> QED BY <1>1, <2>1, <2>3, QuietNotices
<1>4. CASE DeliverRecipient(p)
  <2> DEFINE d == UpsertMailbox(t.db, Recipient(p), call[p].now)
  <2>1. /\ phase[p] = "recipient" /\ phase' = [phase EXCEPT ![p] = "calendar"]
        /\ db' = db /\ dirty' = dirty
    BY <1>4 DEF DeliverRecipient
  <2>2. PICK b \in MailboxOf(d, Recipient(p)) :
          /\ tx' = [tx EXCEPT ![p].db = InsertMessage(d, b.id, call[p].now),
                              ![p].cal = tx[p].input.ical,
                              ![p].mbox = b.id]
          /\ \/ pending' = [pending EXCEPT ![p] = Append(@, MailboxNew(b.id))]
             \/ pending' = pending
    BY <1>4 DEF DeliverRecipient
  <2>3. call[p].now \in Nat
    BY DEF TableInv
  <2>4. Sound(d) /\ b \in d.mailboxes
    BY <1>1, <2>1, <2>3, UpsertMailboxSound DEF InTx
  <2>5. b.id \in Nat
    BY <2>4 DEF Sound, Columns
  <2> DEFINE e == InsertMessage(d, b.id, call[p].now)
  <2>6. Differs(t.db, d) \subseteq {MailboxList}
    BY <1>1, <2>1, MailboxRowDiffers DEF InTx
  <2>7. Differs(d, e) \subseteq {MailboxList, Resource("messages", b.id)}
    BY <2>4, InsertMessageDiffers
  <2> HIDE DEF d, e
  <2>8. /\ tx'[p].db = e /\ tx'[p].mbox = b.id /\ tx'[p].cal = t.input.ical
        /\ tx'[p].input = t.input
    BY <1>1, <2>1, <2>2 DEF IsStoreTx, InTx, e
  <2>9. pending'[p] = evs \/ pending'[p] = evs \o <<MailboxNew(b.id)>>
    BY <1>1, <2>2
  <2>10. <<MailboxNew(b.id)>> \in Seq(Notices)
    BY <2>5, EventNames
  <2>11. pending'[p] \in Seq(Notices) /\ \A r : Named(evs, r) => Named(pending'[p], r)
    <3>1. CASE pending'[p] = evs
      BY <1>1, <3>1
    <3>2. CASE pending'[p] = evs \o <<MailboxNew(b.id)>>
      <4>1. evs \o <<MailboxNew(b.id)>> \in Seq(Notices)
        BY <1>1, <2>10
      <4>2. \A r : Named(evs, r) => Named(evs \o <<MailboxNew(b.id)>>, r)
        BY <1>1, <2>10, NamedConcat
      <4> QED BY <3>2, <4>1, <4>2
    <3> QED BY <2>9, <3>1, <3>2
  <2>12. ASSUME NEW r \in Differs(db, e) PROVE Named(pending'[p], r) \/ r \in Ahead(tx'[p])
    <3>1. r \in Differs(db, t.db) \/ r \in Differs(t.db, d) \/ r \in Differs(d, e)
      BY <2>12 DEF Differs
    <3>2. {MailboxList, Resource("messages", b.id)} \subseteq Ahead(tx'[p])
      BY <2>8 DEF Ahead
    <3> QED BY <1>1, <2>1, <2>6, <2>7, <2>11, <3>1, <3>2
  <2>13. phase'[p] = "calendar"
    BY <1>1, <2>1
  <2>14. TxNamed(p)'
    BY <2>1, <2>8, <2>12, <2>13 DEF TxNamed
  <2>15. /\ \A q \in Procs \ {p} :
               phase'[q] = phase[q] /\ pending'[q] = pending[q] /\ tx'[q] = tx[q]
         /\ pending' = [q \in Procs |-> pending'[q]]
    BY <1>1, <2>1, <2>2
  <2> QED BY <2>1, <2>11, <2>14, <2>15, QuietNotices
<1>5. CASE ApplyCalendar(p)
  <2> DEFINE ev == Head(t.cal)
             rows == ApplyCalendarEvent(t.db.calendar, t.mbox, Inserted(t.db), ev)
             e == [t.db EXCEPT !.calendar = rows]
  <2>1. /\ phase[p] = "calendar" /\ phase' = phase /\ db' = db /\ dirty' = dirty
        /\ tx' = [tx EXCEPT ![p].db.calendar = rows, ![p].cal = Tail(@)]
        /\ pending' = pending /\ t.cal # <<>>
    BY <1>5 DEF ApplyCalendar
  <2>2. Differs(t.db, e) \subseteq {Resource("events", t.mbox)}
    BY <1>1, <2>1, CalendarDiffers DEF InTx
  <2> HIDE DEF rows
  <2>3. tx'[p].db = e /\ tx'[p].mbox = t.mbox /\ tx'[p].input = t.input
    BY <1>1, <2>1 DEF IsStoreTx, InTx
  <2> HIDE DEF e
  <2>4. t.input.ical # <<>>
    BY <1>1, <2>1
  <2>5. Ahead(tx'[p]) = Ahead(t) /\ Resource("events", t.mbox) \in Ahead(t)
    BY <2>3, <2>4 DEF Ahead
  <2>6. ASSUME NEW r \in Differs(db, e) PROVE Named(evs, r) \/ r \in Ahead(tx'[p])
    <3>1. r \in Differs(db, t.db) \/ r \in Differs(t.db, e)
      BY <2>6 DEF Differs
    <3> QED BY <1>1, <2>1, <2>2, <2>5, <3>1
  <2>7. TxNamed(p)'
    BY <2>1, <2>3, <2>4, <2>6 DEF TxNamed
  <2> QED BY <1>1, <2>1, <2>7, QuietNotices
<1>6. CASE FinishRecipient(p)
  <2> DEFINE e == InsertAttachments(t.db, t.db.messageSeq, t.input.attachments)
             more == IF t.input.ical # <<>> THEN <<CalendarChanged(t.mbox)>> ELSE <<>>
             new == <<MessageNew(t.mbox)>>
  <2>1. /\ phase[p] = "calendar" /\ phase' = [phase EXCEPT ![p] = "recipient"]
        /\ db' = db /\ dirty' = dirty
        /\ tx' = [tx EXCEPT ![p].db = e, ![p].todo = Tail(@)]
        /\ pending' = [pending EXCEPT ![p] = @ \o more \o new]
    BY <1>6 DEF FinishRecipient
  <2>2. Differs(t.db, e) = {}
    BY <1>1, <2>1, AttachmentsDiffer DEF InTx
  <2>3. t.mbox \in Nat
    <3>1. Sound(t.db) /\ JustInserted(t)
      BY <2>1 DEF TableInv, TxSound, InTx
    <3> QED BY <3>1 DEF JustInserted, Sound, Columns, Messages
  <2>4. /\ MessageNew(t.mbox) \in Notices
        /\ Invalidates(MessageNew(t.mbox)) = {MailboxList, Resource("messages", t.mbox)}
        /\ CalendarChanged(t.mbox) \in Notices
        /\ Invalidates(CalendarChanged(t.mbox)) = {Resource("events", t.mbox)}
    BY <2>3, EventNames
  <2>5. more \in Seq(Notices) /\ new \in Seq(Notices)
    BY <2>4
  <2>6. \A r \in Ahead(t) : Named(more, r) \/ Named(new, r)
    BY <2>4, NamedSingle DEF Ahead
  <2> HIDE DEF e, more, new
  <2>7. /\ evs \o more \in Seq(Notices) /\ (evs \o more) \o new \in Seq(Notices)
        /\ pending'[p] = (evs \o more) \o new
    BY <1>1, <2>1, <2>5
  <2>8. \A r : Named(evs, r) \/ Named(more, r) \/ Named(new, r) => Named((evs \o more) \o new, r)
    BY <1>1, <2>5, <2>7, NamedConcat
  <2>9. tx'[p].db = e /\ phase'[p] = "recipient"
    BY <1>1, <2>1 DEF IsStoreTx, InTx
  <2>10. ASSUME NEW r \in Differs(db, e) PROVE Named(pending'[p], r)
    <3>1. r \in Differs(db, t.db)
      BY <2>2, <2>10 DEF Differs
    <3> QED BY <1>1, <2>1, <2>6, <2>7, <2>8, <3>1
  <2>11. TxNamed(p)'
    BY <2>1, <2>9, <2>10 DEF TxNamed
  <2>12. /\ \A q \in Procs \ {p} :
               phase'[q] = phase[q] /\ pending'[q] = pending[q] /\ tx'[q] = tx[q]
         /\ pending' = [q \in Procs |-> pending'[q]]
    BY <1>1, <2>1
  <2> QED BY <2>1, <2>7, <2>11, <2>12, QuietNotices
<1>7. CASE CommitStore(p)
  <2>1. phase[p] = "recipient" /\ Commit(p, t.db, evs)
    BY <1>7 DEF CommitStore
  <2>2. \A r \in Changed(db, t.db) : Named(evs, r)
    BY <1>1, <2>1 DEF Changed, Differs
  <2> QED BY <1>1, <2>1, <2>2, CommitNotices DEF InTx
<1> QED BY <1>2, <1>3, <1>4, <1>5, <1>6, <1>7 DEF Store

\* Every step keeps the dirty resources named.
LEMMA NoticeStep == FenceInv /\ TableInv /\ NoticeInv /\ [Next]_vars => NoticeInv'
<1> SUFFICES ASSUME FenceInv, TableInv, NoticeInv, [Next]_vars PROVE NoticeInv'
    OBVIOUS
<1>1. ASSUME db' = db, phase' = phase, tx' = tx, pending' = pending, dirty' = dirty
      PROVE  NoticeInv'
    BY <1>1 DEF NoticeInv, NoLostInvalidation, TxNamed
<1>2. CASE UNCHANGED vars
    BY <1>1, <1>2 DEF vars, storeVars
<1>3. ASSUME NEW p \in Procs, Step(p) PROVE NoticeInv'
    BY <1>3, CallNotices, EmitNotices, OperateNotices, StoreNotices DEF Step
<1>4. CASE Background /\ UNCHANGED storeVars
    BY <1>1, <1>4 DEF storeVars
<1>5. CASE Restart
  <2>1. <<>> \in Seq(Notices)
    OBVIOUS
  <2> QED BY <1>5, <2>1 DEF Restart, NoticeInv, NoLostInvalidation, TxNamed
<1> QED BY <1>2, <1>3, <1>4, <1>5 DEF Next

\* A page that refetches what the events name misses no commit: whatever a
\* commit of any operation changed and no event has invalidated since is named
\* by an event that some operation has queued and not emitted yet.
THEOREM StoreNoLostInvalidation == Spec => []NoLostInvalidation
<1>1. NoticeInv => NoLostInvalidation
    BY DEF NoticeInv
<1> QED BY <1>1, NoticeInit, NoticeStep, FenceInvariant, TableInvariant, PTL DEF Spec

-----------------------------------------------------------------------------
(* StoreMessage delivers to all of its recipients or to none. *)

\* The messages of a's mailbox that d has and a store of `base` messages had not,
\* the recipients among the first k that are a, and the attachments of a message.
Added(d, base, a) ==
    {m \in d.messages : m.serial > base /\ \E b \in MailboxOf(d, a) : b.id = m.mbox}
Meant(in, k, a) == {i \in 1..k : Normalize[in.recipients[i]] = a}
Attached(d, m) == {x \in d.attachments : x.message = m.id}

\* The row that INSERT INTO messages adds.
MessageRowOf(d, mbox, now) ==
    [id |-> d.messageSeq + 1, mbox |-> mbox, recv |-> now, read |-> 0, serial |-> d.born + 1]

\* One message for each of the first k recipients.
Delivered(d, base, in, k) ==
    /\ d.born >= base
    /\ \A a \in Addresses :
         /\ IsFiniteSet(Added(d, base, a))
         /\ Cardinality(Added(d, base, a)) = Cardinality(Meant(in, k, a))

\* The first k recipients are handled, the others are still to do.
Handled(t, k) ==
    /\ k \in 0..Len(t.input.recipients)
    /\ t.todo \in Seq(RawAddresses)
    /\ Len(t.todo) = Len(t.input.recipients) - k
    /\ \A i \in 1..Len(t.todo) : t.todo[i] = t.input.recipients[k + i]

\* Every new message has its attachments, except those whose ids are open.
Complete(d, base, count, open) ==
    \A m \in d.messages : m.serial > base =>
        IF m.id \in open THEN Attached(d, m) = {} ELSE Cardinality(Attached(d, m)) = count

TxWhole(p) ==
    /\ phase[p] = "recipient" =>
         \E k \in Nat : /\ Handled(tx[p], k)
                        /\ Delivered(tx[p].db, db.born, tx[p].input, k)
                        /\ Complete(tx[p].db, db.born, tx[p].input.attachments, {})
    /\ phase[p] = "calendar" =>
         \E k \in Nat : /\ Handled(tx[p], k) /\ tx[p].todo # <<>>
                        /\ Delivered(tx[p].db, db.born, tx[p].input, k + 1)
                        /\ Complete(tx[p].db, db.born, tx[p].input.attachments,
                                    {tx[p].db.messageSeq})

\* The inductive invariant of StoreMessage's loop.
WholeInv == \A p \in Procs : TxWhole(p)


\* One more recipient counts for its own address only.
LEMMA MeantGrows ==
    ASSUME NEW in, NEW k \in Nat, NEW a
    PROVE  /\ IsFiniteSet(Meant(in, k, a)) /\ k + 1 \notin Meant(in, k, a)
           /\ Normalize[in.recipients[k + 1]] = a => Meant(in, k + 1, a) = Meant(in, k, a) \cup {k + 1}
           /\ Normalize[in.recipients[k + 1]] # a => Meant(in, k + 1, a) = Meant(in, k, a)
<1>1. IsFiniteSet(1..k)
    BY FS_Interval
<1>2. IsFiniteSet(Meant(in, k, a))
    BY <1>1, FS_Subset DEF Meant
<1> QED BY <1>2 DEF Meant

\* The upsert moves no message from one address to another.
LEMMA UpsertAdded ==
    ASSUME NEW d, Sound(d), NEW address, NEW now \in Nat
    PROVE  LET e == UpsertMailbox(d, address, now)
           IN  /\ e.messages = d.messages /\ e.attachments = d.attachments
               /\ e.messageSeq = d.messageSeq /\ e.born = d.born
               /\ \A base, a : Added(e, base, a) = Added(d, base, a)
<1> DEFINE e == UpsertMailbox(d, address, now)
           old == MailboxOf(d, address)
           up(b) == [b EXCEPT !.last = LaterOf(b.last, now)]
           b0 == [id |-> d.mailboxSeq + 1, address |-> address, last |-> now]
           new == IF old = {} THEN {b0} ELSE {up(b) : b \in old}
<1>1. /\ e.mailboxes = (d.mailboxes \ old) \cup new
      /\ e.messages = d.messages /\ e.attachments = d.attachments
      /\ e.messageSeq = d.messageSeq /\ e.born = d.born
    BY DEF Sound, Columns, IsTables, UpsertMailbox
<1>2. \A b \in d.mailboxes : up(b).id = b.id /\ up(b).address = b.address
    BY DEF Sound, Columns, IsMailbox
<1>3. b0.id = d.mailboxSeq + 1 /\ b0.address = address
    OBVIOUS
<1>4. old = {b \in d.mailboxes : b.address = address}
    BY DEF MailboxOf
<1> HIDE DEF e, old, up, b0
<1>5. \A b \in d.mailboxes : \E c \in e.mailboxes : c.id = b.id /\ c.address = b.address
  <2> SUFFICES ASSUME NEW b \in d.mailboxes
               PROVE  \E c \in e.mailboxes : c.id = b.id /\ c.address = b.address
    OBVIOUS
  <2>1. CASE b \in old
    BY <1>1, <1>2, <2>1
  <2>2. CASE b \notin old
    BY <1>1, <2>2
  <2> QED BY <2>1, <2>2
<1>6. \A c \in e.mailboxes : \/ c = b0
                             \/ \E b \in d.mailboxes : c.id = b.id /\ c.address = b.address
    BY <1>1, <1>2, <1>4
<1>7. \A m \in d.messages : m.mbox # b0.id
    BY <1>3 DEF Sound, Columns, Mailboxes, Messages
<1>8. ASSUME NEW m \in d.messages, NEW a
      PROVE  (\E b \in MailboxOf(e, a) : b.id = m.mbox) <=> (\E b \in MailboxOf(d, a) : b.id = m.mbox)
    BY <1>5, <1>6, <1>7 DEF MailboxOf
<1>9. \A base, a : Added(e, base, a) = Added(d, base, a)
    BY <1>1, <1>8 DEF Added
<1> QED BY <1>1, <1>9 DEF e

\* INSERT INTO messages adds one row, under a new id.
LEMMA InsertedRow ==
    ASSUME NEW d, Sound(d), NEW mbox, NEW now
    PROVE  /\ InsertMessage(d, mbox, now).born = d.born + 1
           /\ InsertMessage(d, mbox, now).messageSeq = d.messageSeq + 1
           /\ InsertMessage(d, mbox, now).attachments = d.attachments
           /\ InsertMessage(d, mbox, now).mailboxes = d.mailboxes
           /\ InsertMessage(d, mbox, now).messages = d.messages \cup {MessageRowOf(d, mbox, now)}
           /\ MessageRowOf(d, mbox, now).id = d.messageSeq + 1
           /\ MessageRowOf(d, mbox, now).mbox = mbox
           /\ MessageRowOf(d, mbox, now).serial = d.born + 1
           /\ MessageRowOf(d, mbox, now) \notin d.messages
<1> DEFINE e == InsertMessage(d, mbox, now)
           row == MessageRowOf(d, mbox, now)
<1>1. /\ e.messages = d.messages \cup {row} /\ e.mailboxes = d.mailboxes
      /\ e.messageSeq = d.messageSeq + 1 /\ e.born = d.born + 1
      /\ e.attachments = d.attachments
    BY DEF Sound, Columns, IsTables, InsertMessage, MessageRowOf
<1>2. row.id = d.messageSeq + 1 /\ row.mbox = mbox /\ row.serial = d.born + 1
    BY DEF MessageRowOf
<1> HIDE DEF e, row
<1>3. row \notin d.messages
    BY <1>2 DEF Sound, Columns, Messages
<1> QED BY <1>1, <1>2, <1>3 DEF e, row

\* It is a message of the address of its mailbox only.
LEMMA InsertAdded ==
    ASSUME NEW d, Sound(d), NEW b \in d.mailboxes, NEW now, NEW base \in Nat, d.born >= base
    PROVE  /\ Added(InsertMessage(d, b.id, now), base, b.address) =
                 Added(d, base, b.address) \cup {MessageRowOf(d, b.id, now)}
           /\ \A a : a # b.address => Added(InsertMessage(d, b.id, now), base, a) = Added(d, base, a)
<1> DEFINE e == InsertMessage(d, b.id, now)
           row == MessageRowOf(d, b.id, now)
<1>1. /\ e.messages = d.messages \cup {row} /\ e.mailboxes = d.mailboxes
      /\ row.mbox = b.id /\ row.serial = d.born + 1
    BY InsertedRow
<1> HIDE DEF e, row
<1>2. row.serial > base
    BY <1>1 DEF Sound, Columns
<1>3. \A a : (\E c \in MailboxOf(d, a) : c.id = row.mbox) <=> b.address = a
    BY <1>1 DEF MailboxOf, Sound, Mailboxes
<1>4. ASSUME NEW a
      PROVE  /\ a = b.address => Added(e, base, a) = Added(d, base, a) \cup {row}
             /\ a # b.address => Added(e, base, a) = Added(d, base, a)
  <2>1. MailboxOf(e, a) = MailboxOf(d, a)
    BY <1>1 DEF MailboxOf
  <2> QED BY <1>1, <1>2, <1>3, <2>1 DEF Added
<1> QED BY <1>4 DEF e, row

\* The next recipient's message: one more for its address.
LEMMA DeliveredGrows ==
    ASSUME NEW d, Sound(d), NEW in, NEW k \in Nat, NEW base \in Nat,
           Delivered(d, base, in, k), NEW now \in Nat,
           NEW b \in MailboxOf(UpsertMailbox(d, Normalize[in.recipients[k + 1]], now),
                               Normalize[in.recipients[k + 1]])
    PROVE  Delivered(InsertMessage(UpsertMailbox(d, Normalize[in.recipients[k + 1]], now), b.id, now),
                     base, in, k + 1)
<1> DEFINE address == Normalize[in.recipients[k + 1]]
           f == UpsertMailbox(d, address, now)
           e == InsertMessage(f, b.id, now)
           row == MessageRowOf(f, b.id, now)
<1>1. Sound(f) /\ b \in f.mailboxes /\ b.address = address
    BY UpsertMailboxSound DEF MailboxOf
<1>2. /\ f.born = d.born /\ f.messages = d.messages
      /\ \A a : Added(f, base, a) = Added(d, base, a)
    BY UpsertAdded
<1>3. d.born >= base /\ d.born \in Nat
    BY DEF Delivered, Sound, Columns
<1>4. /\ e.born = f.born + 1 /\ row \notin f.messages
      /\ Added(e, base, b.address) = Added(f, base, b.address) \cup {row}
      /\ \A a : a # b.address => Added(e, base, a) = Added(f, base, a)
  <2> HIDE DEF f
  <2>1. f.born >= base
    BY <1>2, <1>3
  <2>2. e.born = f.born + 1 /\ row \notin f.messages
    BY <1>1, InsertedRow
  <2> QED BY <1>1, <2>1, <2>2, InsertAdded
<1> HIDE DEF e, f, row
<1>5. e.born >= base
    BY <1>2, <1>3, <1>4
<1>6. ASSUME NEW a \in Addresses
      PROVE  /\ IsFiniteSet(Added(e, base, a))
             /\ Cardinality(Added(e, base, a)) = Cardinality(Meant(in, k + 1, a))
  <2>1. /\ IsFiniteSet(Added(d, base, a))
        /\ Cardinality(Added(d, base, a)) = Cardinality(Meant(in, k, a))
    BY DEF Delivered
  <2>2. IsFiniteSet(Meant(in, k, a)) /\ k + 1 \notin Meant(in, k, a)
    BY MeantGrows
  <2>3. row \notin Added(d, base, a)
    BY <1>2, <1>4 DEF Added
  <2>4. CASE address = a
    <3>1. Added(e, base, a) = Added(d, base, a) \cup {row}
      BY <1>1, <1>2, <1>4, <2>4
    <3>2. Meant(in, k + 1, a) = Meant(in, k, a) \cup {k + 1}
      BY <2>4, MeantGrows
    <3>3. /\ IsFiniteSet(Added(d, base, a) \cup {row})
          /\ Cardinality(Added(d, base, a) \cup {row}) = Cardinality(Added(d, base, a)) + 1
      BY <2>1, <2>3, FS_AddElement
    <3>4. Cardinality(Meant(in, k, a) \cup {k + 1}) = Cardinality(Meant(in, k, a)) + 1
      BY <2>2, FS_AddElement
    <3> QED BY <2>1, <3>1, <3>2, <3>3, <3>4
  <2>5. CASE address # a
    <3>1. Added(e, base, a) = Added(d, base, a)
      BY <1>1, <1>2, <1>4, <2>5
    <3>2. Meant(in, k + 1, a) = Meant(in, k, a)
      BY <2>5, MeantGrows
    <3> QED BY <2>1, <3>1, <3>2
  <2> QED BY <2>4, <2>5
<1> QED BY <1>5, <1>6 DEF Delivered, e, f

\* A blank recipient counts for no address.
LEMMA DeliveredSkips ==
    ASSUME NEW d, NEW in, NEW k \in Nat, NEW base, Delivered(d, base, in, k),
           Normalize[in.recipients[k + 1]] = Blank
    PROVE  Delivered(d, base, in, k + 1)
<1>1. \A a \in Addresses : Meant(in, k + 1, a) = Meant(in, k, a)
    BY MeantGrows, BlankAssumption
<1> QED BY <1>1 DEF Delivered

\* A new message comes without attachments, and the others keep theirs.
LEMMA CompleteOpens ==
    ASSUME NEW d, Sound(d), NEW b \in d.mailboxes, NEW now, NEW base \in Nat, d.born >= base,
           NEW count, Complete(d, base, count, {})
    PROVE  LET e == InsertMessage(d, b.id, now) IN Complete(e, base, count, {e.messageSeq})
<1> DEFINE e == InsertMessage(d, b.id, now)
           row == MessageRowOf(d, b.id, now)
<1>1. /\ e.messageSeq = d.messageSeq + 1 /\ e.attachments = d.attachments
      /\ e.messages = d.messages \cup {row} /\ row.id = d.messageSeq + 1
    BY InsertedRow
<1> HIDE DEF e, row
<1>2. \A m \in d.messages : m.id # d.messageSeq + 1
    BY DEF Sound, Columns, Messages
<1>3. \A x \in d.attachments : x.message # d.messageSeq + 1
    BY <1>2 DEF Sound, Messages
<1>4. \A m : Attached(e, m) = Attached(d, m)
    BY <1>1 DEF Attached
<1>5. Attached(e, row) = {}
    BY <1>1, <1>3 DEF Attached
<1>6. Complete(e, base, count, {e.messageSeq})
    BY <1>1, <1>2, <1>4, <1>5 DEF Complete
<1> QED BY <1>6 DEF e

\* The attachments of the message that was open close it.
LEMMA CompleteCloses ==
    ASSUME NEW d, Sound(d), NEW base, NEW count \in Nat, Complete(d, base, count, {d.messageSeq})
    PROVE  Complete(InsertAttachments(d, d.messageSeq, count), base, count, {})
<1> DEFINE e == InsertAttachments(d, d.messageSeq, count)
           row(i) == [id |-> d.attachmentSeq + i, message |-> d.messageSeq]
           new == {row(i) : i \in 1..count}
<1>1. e.attachments = d.attachments \cup new /\ e.messages = d.messages
    BY DEF Sound, Columns, IsTables, InsertAttachments
<1>2. \A i \in 1..count : row(i).id = d.attachmentSeq + i /\ row(i).message = d.messageSeq
    OBVIOUS
<1>3. d.attachmentSeq \in Nat
    BY DEF Sound, Columns
<1>4. IsFiniteSet(new) /\ Cardinality(new) = count
  <2> DEFINE f == [i \in 1..count |-> row(i)]
  <2>1. f \in [1..count -> new] /\ \A i \in 1..count : f[i] = row(i)
    OBVIOUS
  <2>2. \A x \in new : \E i \in 1..count : f[i] = x
    BY <2>1
  <2> HIDE DEF f, new, row
  <2>3. \A i, j \in 1..count : f[i] = f[j] => i = j
    BY <1>2, <1>3, <2>1
  <2>4. f \in Surjection(1..count, new) /\ f \in Injection(1..count, new)
    BY <2>1, <2>2, <2>3 DEF Surjection, Injection, IsInjective
  <2>5. IsFiniteSet(1..count) /\ Cardinality(1..count) = count
    BY FS_Interval
  <2> QED BY <2>4, <2>5, FS_Surjection
<1>5. \A x \in new : x.message = d.messageSeq
    BY <1>2
<1> HIDE DEF e, new
<1>6. ASSUME NEW m \in d.messages, m.serial > base PROVE Cardinality(Attached(e, m)) = count
  <2>1. CASE m.id = d.messageSeq
    <3>1. Attached(d, m) = {}
      BY <1>6, <2>1 DEF Complete
    <3>2. Attached(e, m) = new
      BY <1>1, <1>5, <2>1, <3>1 DEF Attached
    <3> QED BY <1>4, <3>2
  <2>2. CASE m.id # d.messageSeq
    <3>1. Attached(e, m) = Attached(d, m)
      BY <1>1, <1>5, <2>2 DEF Attached
    <3> QED BY <1>6, <2>2, <3>1 DEF Complete
  <2> QED BY <2>1, <2>2
<1>7. Complete(e, base, count, {})
    BY <1>1, <1>6 DEF Complete
<1> QED BY <1>7 DEF e

\* One more recipient is handled.
LEMMA HandledNext ==
    ASSUME NEW t, NEW u, NEW k \in Nat, Handled(t, k), t.todo # <<>>,
           u.input = t.input, u.todo = Tail(t.todo)
    PROVE  Handled(u, k + 1) /\ Head(t.todo) = t.input.recipients[k + 1]
<1> DEFINE q == t.todo
           n == Len(t.input.recipients)
           r == t.input.recipients
<1>1. /\ q \in Seq(RawAddresses) /\ Len(q) = n - k /\ k \in 0..n
      /\ \A i \in 1..Len(q) : q[i] = r[k + i]
    BY DEF Handled
<1>2. q # <<>>
    OBVIOUS
<1> HIDE DEF q
<1>3. /\ Tail(q) \in Seq(RawAddresses) /\ Len(Tail(q)) = Len(q) - 1 /\ Len(q) \in Nat /\ Len(q) >= 1
      /\ \A i \in 1..Len(Tail(q)) : Tail(q)[i] = q[i + 1]
      /\ Head(q) = q[1]
    BY <1>1, <1>2
<1>4. n \in Nat
    BY <1>1, <1>3
<1>5. k + 1 \in 0..n /\ Len(Tail(q)) = n - (k + 1)
    BY <1>1, <1>3, <1>4
<1>6. \A i \in 1..Len(Tail(q)) : Tail(q)[i] = r[(k + 1) + i]
  <2> SUFFICES ASSUME NEW i \in 1..Len(Tail(q)) PROVE Tail(q)[i] = r[(k + 1) + i]
    OBVIOUS
  <2>1. i + 1 \in 1..Len(q) /\ k + (i + 1) = (k + 1) + i
    BY <1>3
  <2> QED BY <1>1, <1>3, <2>1
<1>7. Head(q) = r[k + 1]
    BY <1>1, <1>3
<1> QED BY <1>3, <1>5, <1>6, <1>7 DEF Handled, q

\* A step of p that leaves the committed tables and the other transactions alone.
LEMMA WholeFrame ==
    ASSUME WholeInv, NEW p \in Procs, db' = db, TxWhole(p)',
           \A q \in Procs \ {p} : phase'[q] = phase[q] /\ tx'[q] = tx[q]
    PROVE  WholeInv'
<1> SUFFICES ASSUME NEW q \in Procs \ {p} PROVE TxWhole(q)'
    BY DEF WholeInv
<1> QED BY DEF WholeInv, TxWhole

\* A commit leaves no transaction open.
LEMMA CommitWhole ==
    ASSUME FenceInv, NEW p \in Procs, phase[p] \in Locked, NEW d, NEW evs, Commit(p, d, evs)
    PROVE  WholeInv'
<1>1. phase' = [phase EXCEPT ![p] = "returning"] /\ phase \in [Procs -> Phases]
    BY DEF Commit, FenceInv
<1> SUFFICES ASSUME NEW q \in Procs PROVE TxWhole(q)'
    BY DEF WholeInv
<1>2. phase'[q] \notin InTx
    BY <1>1, OneHolder DEF Locked, InTx
<1> QED BY <1>2 DEF TxWhole, InTx

\* The statements of StoreMessage's transaction.
LEMMA StoreWhole ==
    ASSUME FenceInv, TableInv, WholeInv, NEW p \in Procs, Store(p) PROVE WholeInv'
<1> DEFINE t == tx[p]
           u == tx'[p]
           base == db.born
<1>1. /\ phase \in [Procs -> Phases] /\ tx = [q \in Procs |-> tx[q]]
      /\ base \in Nat /\ Sound(db) /\ call[p].now \in Nat
      /\ phase[p] \in InTx => IsStoreTx(t) /\ t.input \in Inputs /\ Sound(t.db)
    BY DEF TableInv, TxSound, Sound, Columns
<1>2. CASE BeginStore(p)
  <2>1. PICK in \in Inputs :
          tx' = [tx EXCEPT ![p] = [db |-> db, input |-> in, todo |-> in.recipients,
                                   cal |-> <<>>, mbox |-> 0]]
    BY <1>2 DEF BeginStore
  <2>2. phase' = [phase EXCEPT ![p] = "recipient"] /\ db' = db
    BY <1>2 DEF BeginStore
  <2>3. u.db = db /\ u.input = in /\ u.todo = in.recipients /\ phase'[p] = "recipient"
    BY <1>1, <2>1, <2>2
  <2> HIDE DEF u
  <2>4. \A m \in db.messages : ~(m.serial > base)
    BY <1>1 DEF Sound, Columns, Messages
  <2>5. Handled(u, 0)
    <3>1. in.recipients \in Seq(RawAddresses)
      BY InputsAssumption
    <3> QED BY <2>3, <3>1 DEF Handled
  <2>6. Delivered(u.db, base, u.input, 0)
    <3>1. \A a : Added(db, base, a) = {} /\ Meant(u.input, 0, a) = {}
      BY <2>4 DEF Added, Meant
    <3> QED BY <1>1, <2>3, <3>1, FS_EmptySet DEF Delivered
  <2>7. Complete(u.db, base, u.input.attachments, {})
    BY <2>3, <2>4 DEF Complete
  <2>8. TxWhole(p)'
    BY <2>2, <2>3, <2>5, <2>6, <2>7 DEF TxWhole, u
  <2> QED BY <1>1, <2>1, <2>2, <2>8, WholeFrame
<1>3. CASE SkipBlank(p)
  <2>1. /\ phase[p] = "recipient" /\ phase' = phase /\ db' = db /\ t.todo # <<>>
        /\ tx' = [tx EXCEPT ![p].todo = Tail(@)] /\ Normalize[Head(t.todo)] = Blank
    BY <1>3 DEF SkipBlank, Recipient
  <2>2. u.db = t.db /\ u.input = t.input /\ u.todo = Tail(t.todo)
    BY <1>1, <2>1 DEF IsStoreTx, InTx
  <2>3. PICK k \in Nat : /\ Handled(t, k) /\ Delivered(t.db, base, t.input, k)
                         /\ Complete(t.db, base, t.input.attachments, {})
    BY <2>1 DEF WholeInv, TxWhole
  <2> HIDE DEF u
  <2>4. Handled(u, k + 1) /\ Head(t.todo) = t.input.recipients[k + 1]
    BY <2>1, <2>2, <2>3, HandledNext
  <2>5. Delivered(t.db, base, t.input, k + 1)
    BY <2>1, <2>3, <2>4, DeliveredSkips
  <2>6. k + 1 \in Nat
    OBVIOUS
  <2>7. TxWhole(p)'
    BY <2>1, <2>2, <2>3, <2>4, <2>5, <2>6 DEF TxWhole, u
  <2> QED BY <1>1, <2>1, <2>7, WholeFrame
<1>4. CASE DeliverRecipient(p)
  <2> DEFINE d == UpsertMailbox(t.db, Recipient(p), call[p].now)
  <2>1. /\ phase[p] = "recipient" /\ phase' = [phase EXCEPT ![p] = "calendar"]
        /\ db' = db /\ t.todo # <<>>
    BY <1>4 DEF DeliverRecipient
  <2>2. PICK b \in MailboxOf(d, Recipient(p)) :
          tx' = [tx EXCEPT ![p].db = InsertMessage(d, b.id, call[p].now),
                           ![p].cal = tx[p].input.ical,
                           ![p].mbox = b.id]
    BY <1>4 DEF DeliverRecipient
  <2> DEFINE e == InsertMessage(d, b.id, call[p].now)
  <2>3. Sound(t.db)
    BY <1>1, <2>1 DEF InTx
  <2>4. Sound(d) /\ b \in d.mailboxes
    BY <1>1, <2>3, UpsertMailboxSound
  <2>5. d.messages = t.db.messages /\ d.attachments = t.db.attachments /\ d.born = t.db.born
    BY <1>1, <2>3, UpsertAdded
  <2>6. PICK k \in Nat : /\ Handled(t, k) /\ Delivered(t.db, base, t.input, k)
                         /\ Complete(t.db, base, t.input.attachments, {})
    BY <2>1 DEF WholeInv, TxWhole
  <2>7. Recipient(p) = Normalize[t.input.recipients[k + 1]]
    <3>1. Head(t.todo) = t.input.recipients[k + 1]
      <4> DEFINE v == [input |-> t.input, todo |-> Tail(t.todo)]
      <4>1. v.input = t.input /\ v.todo = Tail(t.todo)
        OBVIOUS
      <4> HIDE DEF v
      <4> QED BY <2>1, <2>6, <4>1, HandledNext
    <3> QED BY <3>1 DEF Recipient
  <2>8. Delivered(e, base, t.input, k + 1)
    BY <1>1, <2>3, <2>6, <2>7, DeliveredGrows
  <2>9. Complete(d, base, t.input.attachments, {}) /\ d.born >= base
    BY <2>5, <2>6 DEF Complete, Attached, Delivered
  <2> HIDE DEF d
  <2>10. Complete(e, base, t.input.attachments, {e.messageSeq})
    BY <1>1, <2>4, <2>9, CompleteOpens
  <2> HIDE DEF e
  <2>11. u.db = e /\ u.input = t.input /\ u.todo = t.todo /\ phase'[p] = "calendar"
    BY <1>1, <2>1, <2>2 DEF IsStoreTx, InTx, e
  <2> HIDE DEF u
  <2>12. Handled(u, k)
    BY <2>6, <2>11 DEF Handled
  <2>13. TxWhole(p)'
    BY <2>1, <2>8, <2>10, <2>11, <2>12 DEF TxWhole, u
  <2> QED BY <1>1, <2>1, <2>2, <2>13, WholeFrame
<1>5. CASE ApplyCalendar(p)
  <2> DEFINE rows == ApplyCalendarEvent(t.db.calendar, t.mbox, Inserted(t.db), Head(t.cal))
             e == [t.db EXCEPT !.calendar = rows]
  <2>1. /\ phase[p] = "calendar" /\ phase' = phase /\ db' = db
        /\ tx' = [tx EXCEPT ![p].db.calendar = rows, ![p].cal = Tail(@)]
    BY <1>5 DEF ApplyCalendar
  <2> HIDE DEF rows
  <2>2. /\ e.messages = t.db.messages /\ e.messageSeq = t.db.messageSeq /\ e.born = t.db.born
        /\ e.mailboxes = t.db.mailboxes /\ e.attachments = t.db.attachments
    BY <1>1, <2>1 DEF InTx, Sound, Columns, IsTables
  <2>3. u.db = e /\ u.input = t.input /\ u.todo = t.todo
    BY <1>1, <2>1 DEF IsStoreTx, InTx
  <2>4. PICK k \in Nat : /\ Handled(t, k) /\ t.todo # <<>> /\ Delivered(t.db, base, t.input, k + 1)
                         /\ Complete(t.db, base, t.input.attachments, {t.db.messageSeq})
    BY <2>1 DEF WholeInv, TxWhole
  <2> HIDE DEF e, u
  <2>5. Handled(u, k) /\ u.todo # <<>>
    BY <2>3, <2>4 DEF Handled
  <2>6. \A a : Added(e, base, a) = Added(t.db, base, a)
    BY <2>2 DEF Added, MailboxOf
  <2>7. Delivered(e, base, t.input, k + 1)
    BY <2>2, <2>4, <2>6 DEF Delivered
  <2>8. Complete(e, base, t.input.attachments, {e.messageSeq})
    BY <2>2, <2>4 DEF Complete, Attached
  <2>9. TxWhole(p)'
    BY <2>1, <2>3, <2>5, <2>7, <2>8 DEF TxWhole, u
  <2> QED BY <1>1, <2>1, <2>9, WholeFrame
<1>6. CASE FinishRecipient(p)
  <2> DEFINE e == InsertAttachments(t.db, t.db.messageSeq, t.input.attachments)
  <2>1. /\ phase[p] = "calendar" /\ phase' = [phase EXCEPT ![p] = "recipient"]
        /\ db' = db
        /\ tx' = [tx EXCEPT ![p].db = e, ![p].todo = Tail(@)]
    BY <1>6 DEF FinishRecipient
  <2>2. Sound(t.db) /\ t.input.attachments \in Nat
    BY <1>1, <2>1, InputsAssumption DEF InTx
  <2>3. e.messages = t.db.messages /\ e.born = t.db.born /\ e.mailboxes = t.db.mailboxes
    BY <2>2 DEF Sound, Columns, IsTables, InsertAttachments
  <2>4. PICK k \in Nat : /\ Handled(t, k) /\ t.todo # <<>> /\ Delivered(t.db, base, t.input, k + 1)
                         /\ Complete(t.db, base, t.input.attachments, {t.db.messageSeq})
    BY <2>1 DEF WholeInv, TxWhole
  <2>5. Complete(e, base, t.input.attachments, {})
    BY <2>2, <2>4, CompleteCloses
  <2> HIDE DEF e
  <2>6. u.db = e /\ u.input = t.input /\ u.todo = Tail(t.todo) /\ phase'[p] = "recipient"
    BY <1>1, <2>1 DEF IsStoreTx, InTx
  <2> HIDE DEF u
  <2>7. Handled(u, k + 1) /\ k + 1 \in Nat
    BY <2>4, <2>6, HandledNext
  <2>8. \A a : Added(e, base, a) = Added(t.db, base, a)
    BY <2>3 DEF Added, MailboxOf
  <2>9. Delivered(e, base, t.input, k + 1)
    BY <2>3, <2>4, <2>8 DEF Delivered
  <2>10. TxWhole(p)'
    BY <2>1, <2>5, <2>6, <2>7, <2>9 DEF TxWhole, u
  <2> QED BY <1>1, <2>1, <2>10, WholeFrame
<1>7. CASE CommitStore(p)
    BY <1>7, CommitWhole DEF CommitStore, Locked, InTx
<1> QED BY <1>2, <1>3, <1>4, <1>5, <1>6, <1>7 DEF Store

\* Steps outside the transaction.
LEMMA OutsideWhole ==
    ASSUME FenceInv, WholeInv, NEW p \in Procs,
           \/ Call(p) \/ Enter(p) \/ Wait(p) \/ GiveUp(p) \/ Fail(p)
           \/ Return(p) \/ Emit(p) \/ Finish(p)
    PROVE  WholeInv' /\ db' = db
<1>1. phase \in [Procs -> Phases] /\ tx = [q \in Procs |-> tx[q]]
    BY DEF FenceInv
<1>2. /\ phase'[p] \notin InTx /\ db' = db
      /\ \A q \in Procs \ {p} : phase'[q] = phase[q] /\ tx'[q] = tx[q]
  <2>1. CASE Call(p) \/ Enter(p) \/ GiveUp(p) \/ Return(p) \/ Finish(p)
    BY <1>1, <2>1 DEF Call, Enter, GiveUp, Return, Finish, InTx
  <2>2. CASE Wait(p) \/ Emit(p)
    BY <1>1, <2>2 DEF Wait, Emit, InTx, storeVars
  <2>3. CASE Fail(p)
    BY <1>1, <2>3 DEF Fail, InTx
  <2> QED BY <2>1, <2>2, <2>3
<1>3. TxWhole(p)'
    BY <1>2 DEF TxWhole, InTx
<1> QED BY <1>2, <1>3, WholeFrame

\* An operation of one statement inserts no message.
LEMMA OperateAddsNone ==
    ASSUME TableInv, NEW p \in Procs, Operate(p)
    PROVE  db'.born = db.born /\ phase[p] = "locked" /\ \E d, evs : Commit(p, d, evs)
<1>1. phase[p] = "locked"
    BY DEF Operate, GetMessage, ReadMessage, MarkReadDetail, MarkRead, SetReadState,
           DeleteMessages, OpenPOP3Mailbox, DeletePOP3Messages, DeleteMailbox, WipeAll, Body
<1>2. PICK d, evs :
        /\ Commit(p, d, evs)
        /\ \/ d = db
           \/ \E ids, value : d = SetRead(db, ids, value)
           \/ \E ids : d = DeleteRows(db, ids)
           \/ \E address : MailboxOf(db, address) = {} /\ d = InsertMailbox(db, address)
           \/ \E mbox : d = DeleteMailboxRow(db, mbox)
           \/ d = EmptyDb(db.born)
    BY OperateCommits
<1>3. IsTables(db)
    BY DEF TableInv, Sound, Columns
<1>4. d.born = db.born
  <2>1. CASE d = db
    BY <2>1
  <2>2. ASSUME NEW ids, NEW value, d = SetRead(db, ids, value) PROVE d.born = db.born
    BY <1>3, <2>2 DEF IsTables, SetRead
  <2>3. ASSUME NEW ids, d = DeleteRows(db, ids) PROVE d.born = db.born
    BY <1>3, <2>3 DEF IsTables, DeleteRows
  <2>4. ASSUME NEW address, d = InsertMailbox(db, address) PROVE d.born = db.born
    BY <1>3, <2>4 DEF IsTables, InsertMailbox
  <2>5. ASSUME NEW mbox, d = DeleteMailboxRow(db, mbox) PROVE d.born = db.born
    BY <1>3, <2>5 DEF IsTables, DeleteMailboxRow, DeleteRows
  <2>6. CASE d = EmptyDb(db.born)
    BY <2>6 DEF EmptyDb
  <2> QED BY <1>2, <2>1, <2>2, <2>3, <2>4, <2>5, <2>6
<1> QED BY <1>1, <1>2, <1>4 DEF Commit

\* Every step keeps the invariant of StoreMessage's loop.
LEMMA WholeStep == FenceInv /\ TableInv /\ WholeInv /\ [Next]_vars => WholeInv'
<1> SUFFICES ASSUME FenceInv, TableInv, WholeInv, [Next]_vars PROVE WholeInv'
    OBVIOUS
<1>1. ASSUME db' = db, phase' = phase, tx' = tx PROVE WholeInv'
    BY <1>1 DEF WholeInv, TxWhole
<1>2. CASE UNCHANGED vars
    BY <1>1, <1>2 DEF vars, storeVars
<1>3. ASSUME NEW p \in Procs, Operate(p) PROVE WholeInv'
    BY <1>3, OperateAddsNone, CommitWhole DEF Locked
<1>4. ASSUME NEW p \in Procs, Step(p) PROVE WholeInv'
    BY <1>3, <1>4, OutsideWhole, StoreWhole DEF Step
<1>5. CASE Background /\ UNCHANGED storeVars
    BY <1>1, <1>5 DEF storeVars
<1>6. CASE Restart
    BY <1>6 DEF Restart, WholeInv, TxWhole
<1> QED BY <1>2, <1>4, <1>5, <1>6 DEF Next

\* The commit of StoreMessage adds one message for each non-blank recipient, each
\* with all of the attachments.
LEMMA CommitStoreWhole ==
    ASSUME TableInv, WholeInv, NEW p \in Procs, CommitStore(p) PROVE StoredWhole
<1> DEFINE t == tx[p]
           in == t.input
           base == db.born
<1>1. phase[p] = "recipient" /\ t.todo = <<>> /\ db' = t.db
    BY DEF CommitStore, Commit
<1>2. in.recipients \in Seq(RawAddresses)
    BY <1>1, InputsAssumption DEF TableInv, TxSound, InTx
<1>3. PICK k \in Nat : /\ Handled(t, k) /\ Delivered(t.db, base, in, k)
                       /\ Complete(t.db, base, in.attachments, {})
    BY <1>1 DEF WholeInv, TxWhole
<1>4. DOMAIN in.recipients = 1..k
    BY <1>1, <1>2, <1>3 DEF Handled
<1>5. \A a : AddedTo(a) = Added(t.db, base, a)
    BY <1>1 DEF AddedTo, Added
<1>6. ASSUME NEW a \in Addresses
      PROVE  /\ Cardinality(AddedTo(a)) =
                  Cardinality({i \in DOMAIN in.recipients : Normalize[in.recipients[i]] = a})
             /\ \A m \in AddedTo(a) :
                  Cardinality({x \in db'.attachments : x.message = m.id}) = in.attachments
  <2>1. Meant(in, k, a) = {i \in DOMAIN in.recipients : Normalize[in.recipients[i]] = a}
    BY <1>4 DEF Meant
  <2>2. Cardinality(AddedTo(a)) = Cardinality(Meant(in, k, a))
    BY <1>3, <1>5 DEF Delivered
  <2>3. ASSUME NEW m \in AddedTo(a)
        PROVE  Cardinality({x \in db'.attachments : x.message = m.id}) = in.attachments
    <3>1. m \in t.db.messages /\ m.serial > base
      BY <1>1 DEF AddedTo
    <3> QED BY <1>1, <1>3, <3>1 DEF Complete, Attached
  <2> QED BY <2>1, <2>2, <2>3
<1> QED BY <1>1, <1>6 DEF StoredWhole

\* No other step adds a message.
LEMMA StoredStep ==
    ASSUME FenceInv, TableInv, WholeInv, [Next]_vars PROVE [StoredWhole]_vars
<1>1. ASSUME db'.born = db.born PROVE [StoredWhole]_vars
    BY <1>1 DEF StoredWhole
<1>2. CASE UNCHANGED vars \/ Restart \/ (Background /\ UNCHANGED storeVars)
    BY <1>1, <1>2 DEF vars, storeVars, Restart
<1>3. ASSUME NEW p \in Procs, Step(p) PROVE [StoredWhole]_vars
  <2>1. CASE \/ Call(p) \/ Enter(p) \/ Wait(p) \/ GiveUp(p) \/ Fail(p)
             \/ Return(p) \/ Emit(p) \/ Finish(p)
    BY <1>1, <2>1, OutsideWhole
  <2>2. CASE Operate(p)
    BY <1>1, <2>2, OperateAddsNone
  <2>3. CASE \/ BeginStore(p) \/ SkipBlank(p) \/ DeliverRecipient(p)
             \/ ApplyCalendar(p) \/ FinishRecipient(p)
    BY <1>1, <2>3 DEF BeginStore, SkipBlank, DeliverRecipient, ApplyCalendar, FinishRecipient
  <2>4. CASE CommitStore(p)
    BY <2>4, CommitStoreWhole
  <2> QED BY <1>3, <2>1, <2>2, <2>3, <2>4 DEF Step, Store
<1> QED BY <1>2, <1>3 DEF Next

\* StoreMessage delivers to all of its recipients or to none: the only step that
\* adds messages commits its transaction, with one message for each non-blank
\* recipient and every attachment of the input with each of them.
THEOREM StoreAllOrNothing == Spec => AllOrNothing
<1>1. Init => WholeInv
    BY DEF Init, WholeInv, TxWhole
<1>2. FenceInv /\ TableInv /\ WholeInv /\ [Next]_vars => [StoredWhole]_vars
    BY StoredStep
<1> QED BY <1>1, <1>2, WholeStep, FenceInvariant, TableInvariant, PTL DEF Spec, AllOrNothing
=============================================================================
