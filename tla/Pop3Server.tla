----------------------------- MODULE Pop3Server -----------------------------
(***************************************************************************)
(* pop3server.Service: the accept loop of Serve, one serveConn goroutine   *)
(* per connection with its session, and Shutdown from the main goroutine.  *)
(*                                                                         *)
(* The store is what MailStore promises (MailStore!FencedEffects): a       *)
(* message has an identity of its own, a snapshot names identities, and    *)
(* DeletePOP3Messages removes the named ones that still exist, or nothing  *)
(* after a reset.  Deliveries, deletions over HTTP and resets come from    *)
(* outside.                                                                *)
(*                                                                         *)
(* A command that is buffered is executed although Shutdown has closed the *)
(* connection; the Flush after it fails.  Left out: the text of replies,   *)
(* command syntax (a malformed command changes nothing, as Inspect), octet *)
(* counts and the raw bytes of messages.                                   *)
(***************************************************************************)
EXTENDS Naturals, Sequences, FiniteSets, SequencesExt

CONSTANTS
    Conns,           \* connections
    Users,           \* mailbox addresses
    MaxMail,         \* bound: messages ever delivered
    MaxGeneration    \* bound: resets

ASSUME Pop3Assumption ==
    /\ IsFiniteSet(Conns)
    /\ MaxMail \in Nat /\ MaxGeneration \in Nat

NoUser == "none"
NoConn == "none"

VARIABLES
    serve,        \* Serve: "starting", "accepting", "accepted", "returned"
    candidate,    \* the connection Accept has returned and Serve holds
    closing,      \* Service.closing
    registered,   \* Service.conns
    wg,           \* Service.wg
    cancelled,    \* baseCtx is cancelled
    sd,           \* Shutdown: "no", "closing", "waiting", "drained", "expired"
    toClose,      \* Shutdown's copy of Service.conns, still to be closed
    sock,         \* each connection: "none", "open", "closed"
    hpc,          \* each handler: where serveConn is
    sess,         \* each session
    mail,         \* the messages of each mailbox
    born,         \* messages delivered so far
    generation,   \* Store.pop3Generation
    wanted,       \* ghost: messages the client has had marked, as UIDL names them
    removed,      \* ghost: messages the session has removed from the store
    reply         \* ghost: the reply to QUIT: "none", "ok", "err"

serviceVars == <<serve, candidate, closing, registered, wg, cancelled, sd, toClose>>
storeVars == <<mail, born, generation>>
ghosts == <<wanted, removed, reply>>
vars == <<serviceVars, sock, hpc, sess, storeVars, ghosts>>

NewSession == [state |-> "authorization", user |-> NoUser, messages |-> <<>>,
               generation |-> 0, deleted |-> {}]

Init ==
    /\ serve = "starting" /\ candidate = NoConn
    /\ closing = FALSE /\ registered = {} /\ wg = 0 /\ cancelled = FALSE
    /\ sd = "no" /\ toClose = {}
    /\ sock = [c \in Conns |-> "none"]
    /\ hpc = [c \in Conns |-> "none"]
    /\ sess = [c \in Conns |-> NewSession]
    /\ mail = [u \in Users |-> {}] /\ born = 0 /\ generation = 0
    /\ wanted = [c \in Conns |-> {}]
    /\ removed = [c \in Conns |-> {}]
    /\ reply = [c \in Conns |-> "none"]

-----------------------------------------------------------------------------
(* Serve. *)

\* A Shutdown that came first has set closing: the listener is closed.
Start ==
    /\ serve = "starting"
    /\ serve' = IF closing THEN "returned" ELSE "accepting"
    /\ UNCHANGED <<candidate, closing, registered, wg, cancelled, sd, toClose, sock, hpc,
                   sess, storeVars, ghosts>>

\* listener.Accept returns a connection; service.mu is not held yet.
Accept ==
    /\ serve = "accepting"
    /\ \E c \in Conns : /\ sock[c] = "none"
                        /\ sock' = [sock EXCEPT ![c] = "open"]
                        /\ candidate' = c
    /\ serve' = "accepted"
    /\ UNCHANGED <<closing, registered, wg, cancelled, sd, toClose, hpc, sess, storeVars, ghosts>>

\* The listener is closed, or fails.
AcceptFails ==
    /\ serve = "accepting"
    /\ serve' = "returned"
    /\ UNCHANGED <<candidate, closing, registered, wg, cancelled, sd, toClose, sock, hpc,
                   sess, storeVars, ghosts>>

\* Mutant: closing is not looked at again after Accept.
RegisterUnchecked ==
    /\ serve = "accepted"
    /\ registered' = registered \cup {candidate}
    /\ wg' = wg + 1
    /\ hpc' = [hpc EXCEPT ![candidate] = "reading"]
    /\ serve' = "accepting"
    /\ candidate' = NoConn
    /\ UNCHANGED <<closing, cancelled, sd, toClose, sock, sess, storeVars, ghosts>>

\* Under service.mu: refused when closing, else registered, counted and served.
Register ==
    /\ serve = "accepted"
    /\ \/ /\ closing
          /\ sock' = [sock EXCEPT ![candidate] = "closed"]
          /\ serve' = "returned"
          /\ UNCHANGED <<registered, wg, hpc>>
       \/ /\ ~closing
          /\ registered' = registered \cup {candidate}
          /\ wg' = wg + 1
          /\ hpc' = [hpc EXCEPT ![candidate] = "reading"]
          /\ serve' = "accepting"
          /\ UNCHANGED sock
    /\ candidate' = NoConn
    /\ UNCHANGED <<closing, cancelled, sd, toClose, sess, storeVars, ghosts>>

-----------------------------------------------------------------------------
(* serveConn and the session.  A handler that reads may execute a command.   *)

\* The Flush after a command: it fails on a closed connection and may fail on
\* an open one.
Flushed(c) == \/ sock[c] = "open" /\ hpc' = [hpc EXCEPT ![c] = "reading"]
              \/ hpc' = [hpc EXCEPT ![c] = "leaving"]

\* CAPA, STAT, LIST, UIDL, RETR, TOP, NOOP, and every command that is refused.
Inspect(c) ==
    /\ hpc[c] = "reading"
    /\ Flushed(c)
    /\ UNCHANGED <<serviceVars, sock, sess, storeVars, ghosts>>

User(c) ==
    /\ hpc[c] = "reading"
    /\ sess[c].state = "authorization"
    /\ \E u \in Users : sess' = [sess EXCEPT ![c].user = u]
    /\ Flushed(c)
    /\ UNCHANGED <<serviceVars, sock, storeVars, ghosts>>

\* PASS calls OpenPOP3Mailbox.
Pass(c) ==
    /\ hpc[c] = "reading"
    /\ sess[c].state = "authorization"
    /\ sess[c].user # NoUser
    /\ hpc' = [hpc EXCEPT ![c] = "opening"]
    /\ UNCHANGED <<serviceVars, sock, sess, storeVars, ghosts>>

\* The snapshot, in the order of received_at.
Opened(c) ==
    /\ hpc[c] = "opening"
    /\ ~cancelled
    /\ \E order \in SetToSeqs(mail[sess[c].user]) :
         sess' = [sess EXCEPT ![c] = [@ EXCEPT !.state = "transaction", !.messages = order,
                                               !.generation = generation, !.deleted = {}]]
    /\ Flushed(c)
    /\ UNCHANGED <<serviceVars, sock, storeVars, ghosts>>

OpenFails(c) ==
    /\ hpc[c] = "opening"
    /\ Flushed(c)
    /\ UNCHANGED <<serviceVars, sock, sess, storeVars, ghosts>>

Available(s, n) == n \in DOMAIN s.messages /\ n \notin s.deleted

Dele(c) ==
    /\ hpc[c] = "reading"
    /\ sess[c].state = "transaction"
    /\ \E n \in 1..MaxMail :
         /\ Available(sess[c], n)
         /\ sess' = [sess EXCEPT ![c].deleted = @ \cup {n}]
         /\ wanted' = [wanted EXCEPT ![c] = @ \cup {sess[c].messages[n]}]
    /\ Flushed(c)
    /\ UNCHANGED <<serviceVars, sock, storeVars, removed, reply>>

Rset(c) ==
    /\ hpc[c] = "reading"
    /\ sess[c].state = "transaction"
    /\ sess' = [sess EXCEPT ![c].deleted = {}]
    /\ wanted' = [wanted EXCEPT ![c] = {}]
    /\ Flushed(c)
    /\ UNCHANGED <<serviceVars, sock, storeVars, removed, reply>>

\* Mutant: the marks are looked up by index instead of by number.
DeletedIDsByIndex(s) == {s.messages[n] : n \in {k \in DOMAIN s.messages : k - 1 \in s.deleted}}

DeletedIDs(s) == {s.messages[n] : n \in {k \in DOMAIN s.messages : k \in s.deleted}}

\* QUIT with nothing to delete answers at once.
QuitClean(c) ==
    /\ hpc[c] = "reading"
    /\ sess[c].state = "authorization" \/ DeletedIDs(sess[c]) = {}
    /\ reply' = [reply EXCEPT ![c] = "ok"]
    /\ hpc' = [hpc EXCEPT ![c] = "leaving"]
    /\ UNCHANGED <<serviceVars, sock, sess, storeVars, wanted, removed>>

\* QUIT with marks calls DeletePOP3Messages.
Quit(c) ==
    /\ hpc[c] = "reading"
    /\ sess[c].state = "transaction"
    /\ DeletedIDs(sess[c]) # {}
    /\ hpc' = [hpc EXCEPT ![c] = "deleting"]
    /\ UNCHANGED <<serviceVars, sock, sess, storeVars, ghosts>>

Deleted(c) ==
    /\ hpc[c] = "deleting"
    /\ ~cancelled
    /\ IF sess[c].generation # generation
       THEN UNCHANGED <<mail, removed>>
       ELSE LET ids == DeletedIDs(sess[c])
            IN  /\ mail' = [u \in Users |-> mail[u] \ ids]
                /\ removed' = [removed EXCEPT ![c] = ids \cap UNION {mail[u] : u \in Users}]
    /\ reply' = [reply EXCEPT ![c] = "ok"]
    /\ hpc' = [hpc EXCEPT ![c] = "leaving"]
    /\ UNCHANGED <<serviceVars, sock, sess, born, generation, wanted>>

DeleteFails(c) ==
    /\ hpc[c] = "deleting"
    /\ reply' = [reply EXCEPT ![c] = "err"]
    /\ hpc' = [hpc EXCEPT ![c] = "leaving"]
    /\ UNCHANGED <<serviceVars, sock, sess, storeVars, wanted, removed>>

\* The read fails: EOF, the read deadline, bad framing, a closed connection; or
\* the greeting could not be written.
ReadFails(c) ==
    /\ hpc[c] = "reading"
    /\ hpc' = [hpc EXCEPT ![c] = "leaving"]
    /\ UNCHANGED <<serviceVars, sock, sess, storeVars, ghosts>>

\* The deferred function: close and delete from conns, ...
Unregister(c) ==
    /\ hpc[c] = "leaving"
    /\ sock' = [sock EXCEPT ![c] = "closed"]
    /\ registered' = registered \ {c}
    /\ hpc' = [hpc EXCEPT ![c] = "unregistered"]
    /\ UNCHANGED <<serve, candidate, closing, wg, cancelled, sd, toClose, sess, storeVars, ghosts>>

\* ... then wg.Done.
Done(c) ==
    /\ hpc[c] = "unregistered"
    /\ wg' = wg - 1
    /\ hpc' = [hpc EXCEPT ![c] = "gone"]
    /\ UNCHANGED <<serve, candidate, closing, registered, cancelled, sd, toClose, sock, sess,
                   storeVars, ghosts>>

-----------------------------------------------------------------------------
(* Shutdown. *)

\* Under service.mu: closing, and a copy of conns.
BeginShutdown ==
    /\ sd = "no"
    /\ closing' = TRUE
    /\ toClose' = registered
    /\ sd' = "closing"
    /\ UNCHANGED <<serve, candidate, registered, wg, cancelled, sock, hpc, sess, storeVars, ghosts>>

CloseConn(c) ==
    /\ sd = "closing"
    /\ c \in toClose
    /\ sock' = [sock EXCEPT ![c] = "closed"]
    /\ toClose' = toClose \ {c}
    /\ UNCHANGED <<serve, candidate, closing, registered, wg, cancelled, sd, hpc, sess,
                   storeVars, ghosts>>

\* baseCancel, and the goroutine in wg.Wait.
Cancel ==
    /\ sd = "closing"
    /\ toClose = {}
    /\ cancelled' = TRUE
    /\ sd' = "waiting"
    /\ UNCHANGED <<serve, candidate, closing, registered, wg, toClose, sock, hpc, sess,
                   storeVars, ghosts>>

\* wg.Wait returns: Shutdown returns nil.
Drained ==
    /\ sd = "waiting"
    /\ wg = 0
    /\ sd' = "drained"
    /\ UNCHANGED <<serve, candidate, closing, registered, wg, cancelled, toClose, sock, hpc,
                   sess, storeVars, ghosts>>

\* The context of Shutdown expires first.
Expire ==
    /\ sd = "waiting"
    /\ sd' = "expired"
    /\ UNCHANGED <<serve, candidate, closing, registered, wg, cancelled, toClose, sock, hpc,
                   sess, storeVars, ghosts>>

-----------------------------------------------------------------------------
(* The rest of the program changes the store. *)

Deliver ==
    /\ born < MaxMail
    /\ born' = born + 1
    /\ \E u \in Users : mail' = [mail EXCEPT ![u] = @ \cup {born + 1}]
    /\ UNCHANGED <<serviceVars, sock, hpc, sess, generation, ghosts>>

DeleteOverHTTP ==
    /\ \E u \in Users : \E m \in mail[u] : mail' = [mail EXCEPT ![u] = @ \ {m}]
    /\ UNCHANGED <<serviceVars, sock, hpc, sess, born, generation, ghosts>>

Wipe ==
    /\ generation < MaxGeneration
    /\ generation' = generation + 1
    /\ mail' = [u \in Users |-> {}]
    /\ UNCHANGED <<serviceVars, sock, hpc, sess, born, ghosts>>

Serving == Start \/ Accept \/ AcceptFails \/ Register

Handler(c) ==
    \/ Inspect(c) \/ User(c) \/ Pass(c) \/ Opened(c) \/ OpenFails(c)
    \/ Dele(c) \/ Rset(c) \/ QuitClean(c) \/ Quit(c) \/ Deleted(c) \/ DeleteFails(c)
    \/ ReadFails(c) \/ Unregister(c) \/ Done(c)

Stopping == (\E c \in Conns : CloseConn(c)) \/ Cancel \/ Drained

\* The program has ended.
Over ==
    /\ sd \in {"drained", "expired"}
    /\ serve = "returned"
    /\ \A c \in Conns : hpc[c] \in {"none", "gone"}
    /\ UNCHANGED vars

Next ==
    \/ Serving
    \/ \E c \in Conns : Handler(c)
    \/ BeginShutdown \/ Stopping \/ Expire
    \/ Deliver \/ DeleteOverHTTP \/ Wipe
    \/ Over

Spec == Init /\ [][Next]_vars

-----------------------------------------------------------------------------
Running == {"reading", "opening", "deleting", "leaving", "unregistered"}

Sessions == [state : {"authorization", "transaction"}, user : Users \cup {NoUser},
             messages : Seq(Nat), generation : Nat, deleted : SUBSET Nat]

\* Every variable keeps its type; wg counts the handlers that have not ended.
TypeOK ==
    /\ serve \in {"starting", "accepting", "accepted", "returned"}
    /\ candidate \in Conns \cup {NoConn}
    /\ closing \in BOOLEAN /\ cancelled \in BOOLEAN
    /\ registered \subseteq Conns /\ toClose \subseteq Conns
    /\ sd \in {"no", "closing", "waiting", "drained", "expired"}
    /\ sock \in [Conns -> {"none", "open", "closed"}]
    /\ hpc \in [Conns -> Running \cup {"none", "gone"}]
    /\ wg = Cardinality({c \in Conns : hpc[c] \in Running})
    /\ sess \in [Conns -> Sessions]
    /\ born \in 0..MaxMail /\ generation \in 0..MaxGeneration
    /\ mail \in [Users -> SUBSET (1..born)]
    /\ wanted \in [Conns -> SUBSET Nat] /\ removed \in [Conns -> SUBSET Nat]
    /\ reply \in [Conns -> {"none", "ok", "err"}]

\* Shutdown that returned nil means it: no handler runs any more, and none is
\* started by an Accept that raced with it (main closes the database next).
DrainedForGood == sd = "drained" => \A c \in Conns : hpc[c] \notin Running

\* Deletions are exact: a session removes only messages its client had marked
\* and not reset, and a session that answered +OK to QUIT leaves none of them
\* behind; one that answered -ERR, or got no QUIT, has removed nothing.
\* Concurrent sessions, deliveries, resets and the shutdown change nothing in
\* this.
DeletionExact ==
    \A c \in Conns :
        /\ removed[c] \subseteq wanted[c]
        /\ reply[c] = "ok" => \A u \in Users : mail[u] \cap wanted[c] = {}
        /\ reply[c] # "ok" => removed[c] = {}
=============================================================================
