----------------------- MODULE ServiceLifecycleProofs -----------------------
(***************************************************************************)
(* The POP3 service, for any number of connections, mailboxes, messages    *)
(* and resets: Shutdown that returned nil means that no handler is left,   *)
(* and a session deletes what its client marked and nothing else.          *)
(*                                                                         *)
(* The program runs the POP3 service as Pop3Server describes it, and a     *)
(* shutdown that it reports as successful closed the database under no     *)
(* handler and no stream.                                                  *)
(***************************************************************************)
EXTENDS ServiceLifecycle, FiniteSetTheorems, TLAPS

\* The handlers that service.wg counts.
Live == {c \in Conns : hpc[c] \in Running}

\* What Serve and Shutdown rely on.  TypeOK says that wg counts the handlers;
\* the rest says that a shutdown stands behind closing, that a drained service
\* has a count of zero, and that the connection Serve holds has no handler yet,
\* so that registering it adds one.
ServiceInv ==
    /\ sd # "no" => closing
    /\ sd = "drained" => wg = 0
    /\ \A c \in Conns : sock[c] = "none" => hpc[c] = "none"
    /\ serve = "accepted" => /\ candidate \in Conns
                             /\ sock[candidate] # "none"
                             /\ hpc[candidate] = "none"

\* What a session relies on: the marks are those of its snapshot, which names
\* messages delivered before; after a reset none of them is left; the user was
\* given before PASS; the deletion and the reply to QUIT come last.
SessionSound(c) ==
    /\ sess[c].state = "authorization" => sess[c].messages = <<>>
    /\ hpc[c] = "opening" => sess[c].state = "authorization" /\ sess[c].user \in Users
    /\ wanted[c] = DeletedIDs(sess[c])
    /\ \A n \in DOMAIN sess[c].messages : sess[c].messages[n] <= born
    /\ sess[c].generation <= generation
    /\ sess[c].generation < generation =>
         \A u \in Users : \A n \in DOMAIN sess[c].messages : sess[c].messages[n] \notin mail[u]
    /\ hpc[c] \in {"none", "reading", "opening", "deleting"} => reply[c] = "none"

\* DeletionExact, of one session.
ExactFor(c) ==
    /\ removed[c] \subseteq wanted[c]
    /\ reply[c] = "ok" => \A u \in Users : mail[u] \cap wanted[c] = {}
    /\ reply[c] # "ok" => removed[c] = {}

SessionInv == \A c \in Conns : SessionSound(c) /\ ExactFor(c)

\* The two halves of TypeOK: what Serve and Shutdown keep, and what the sessions
\* and the store keep.
ServiceType ==
    /\ serve \in {"starting", "accepting", "accepted", "returned"}
    /\ candidate \in Conns \cup {NoConn}
    /\ closing \in BOOLEAN /\ cancelled \in BOOLEAN
    /\ registered \subseteq Conns /\ toClose \subseteq Conns
    /\ sd \in {"no", "closing", "waiting", "drained", "expired"}
    /\ sock \in [Conns -> {"none", "open", "closed"}]
    /\ hpc \in [Conns -> Running \cup {"none", "gone"}]
    /\ wg = Cardinality(Live)

SessionType ==
    /\ sess \in [Conns -> Sessions]
    /\ born \in 0..MaxMail /\ generation \in 0..MaxGeneration
    /\ mail \in [Users -> SUBSET (1..born)]
    /\ wanted \in [Conns -> SUBSET Nat] /\ removed \in [Conns -> SUBSET Nat]
    /\ reply \in [Conns -> {"none", "ok", "err"}]

\* The inductive invariant.
Pop3Inv == ServiceType /\ ServiceInv /\ SessionType /\ SessionInv

-----------------------------------------------------------------------------
(* Serve, Shutdown and the count of handlers. *)

\* The handlers are finitely many, so that wg is a natural number.
LEMMA LiveFinite == IsFiniteSet(Live) /\ Cardinality(Live) \in Nat
BY Pop3Assumption, FS_Subset, FS_CardinalityType DEF Live

\* No handler, no count.
LEMMA NoneLive == Cardinality(Live) = 0 => \A c \in Conns : hpc[c] \notin Running
BY LiveFinite, FS_EmptySet DEF Live

\* A handler that goes on is counted as before.
LEMMA LiveKept ==
    ASSUME ServiceType, NEW c \in Conns, hpc[c] \in Running,
           NEW x \in Running, hpc' = [hpc EXCEPT ![c] = x]
    PROVE  Live' = Live
BY DEF ServiceType, Live

\* A handler that is started counts for one more.
LEMMA LiveGrows ==
    ASSUME ServiceType, NEW c \in Conns, hpc[c] = "none",
           hpc' = [hpc EXCEPT ![c] = "reading"]
    PROVE  Cardinality(Live') = Cardinality(Live) + 1
<1>1. Live' = Live \cup {c} /\ c \notin Live
    BY DEF ServiceType, Live, Running
<1> QED BY <1>1, LiveFinite, FS_AddElement

\* A handler that has ended counts for one less.
LEMMA LiveShrinks ==
    ASSUME ServiceType, NEW c \in Conns, hpc[c] \in Running,
           hpc' = [hpc EXCEPT ![c] = "gone"]
    PROVE  Cardinality(Live') = Cardinality(Live) - 1
<1>1. Live' = Live \ {c} /\ c \in Live
    BY DEF ServiceType, Live, Running
<1> QED BY <1>1, LiveFinite, FS_RemoveElement

\* What a step of serveConn may do to the service: the handler that takes it is
\* counted before, and after it too, unless the step is its wg.Done.
LEMMA HandlerMove ==
    ASSUME NEW c \in Conns, Handler(c)
    PROVE  /\ hpc[c] \in Running
           /\ \/ \E x \in Running : hpc' = [hpc EXCEPT ![c] = x] /\ wg' = wg
              \/ hpc' = [hpc EXCEPT ![c] = "gone"] /\ wg' = wg - 1
           /\ sock' = sock \/ sock' = [sock EXCEPT ![c] = "closed"]
           /\ registered' = registered \/ registered' = registered \ {c}
           /\ UNCHANGED <<serve, candidate, closing, cancelled, sd, toClose>>
BY DEF Handler, Inspect, User, Pass, Opened, OpenFails, Dele, Rset, QuitClean, Quit, Deleted,
       DeleteFails, ReadFails, Unregister, Done, Flushed, Running, serviceVars

\* A step of serveConn keeps the count, and starts no handler.
LEMMA HandlerKeepsService ==
    ASSUME ServiceType, ServiceInv, NEW c \in Conns, Handler(c)
    PROVE  ServiceType' /\ ServiceInv'
<1>1. ServiceType' /\ (sd' = "drained" => wg' = 0)
  <2>1. ASSUME NEW x \in Running, hpc' = [hpc EXCEPT ![c] = x], wg' = wg
        PROVE  ServiceType' /\ (sd' = "drained" => wg' = 0)
    BY <2>1, HandlerMove, LiveKept DEF ServiceType, ServiceInv
  <2>2. CASE hpc' = [hpc EXCEPT ![c] = "gone"] /\ wg' = wg - 1
    <3>1. wg' = Cardinality(Live')
      BY <2>2, HandlerMove, LiveShrinks DEF ServiceType
    <3>2. sd # "drained"
      BY HandlerMove, NoneLive DEF ServiceType, ServiceInv
    <3> QED BY <2>2, <3>1, <3>2, HandlerMove DEF ServiceType
  <2> QED BY <2>1, <2>2, HandlerMove
<1>2. ServiceInv'
    BY <1>1, HandlerMove DEF ServiceType, ServiceInv, Running
<1> QED BY <1>1, <1>2

\* An Accept that raced with Shutdown is refused; any other adds one handler.
LEMMA ServingKeepsService ==
    ASSUME ServiceType, ServiceInv, Serving PROVE ServiceType' /\ ServiceInv'
<1> USE DEF ServiceType, ServiceInv
<1>1. CASE Start
    BY <1>1 DEF Start, Live
<1>2. CASE Accept
    BY <1>2 DEF Accept, Live
<1>3. CASE AcceptFails
    BY <1>3 DEF AcceptFails, Live
<1>4. CASE Register /\ closing
    BY <1>4 DEF Register, Live, NoConn
<1>5. CASE Register /\ ~closing
  <2>1. /\ candidate \in Conns /\ hpc[candidate] = "none" /\ sock[candidate] # "none"
        /\ hpc' = [hpc EXCEPT ![candidate] = "reading"] /\ wg' = wg + 1
        /\ registered' = registered \cup {candidate}
        /\ serve' = "accepting" /\ candidate' = NoConn
        /\ closing' = closing /\ cancelled' = cancelled /\ sd' = sd
        /\ toClose' = toClose /\ sock' = sock
    BY <1>5 DEF Register
  <2>2. wg' = Cardinality(Live')
    BY <2>1, LiveGrows
  <2>3. hpc' \in [Conns -> Running \cup {"none", "gone"}]
    BY <2>1 DEF Running
  <2>4. sd = "no"
    BY <1>5
  <2>5. sd' = "no"
    BY <2>1, <2>4
  <2>6. \A c \in Conns : sock'[c] = "none" => hpc'[c] = "none"
    BY <2>1
  <2> QED BY <2>1, <2>2, <2>3, <2>5, <2>6
<1> QED BY <1>1, <1>2, <1>3, <1>4, <1>5 DEF Serving

\* Shutdown closes what is registered, waits for the count and starts nothing.
LEMMA ShutdownKeepsService ==
    ASSUME ServiceType, ServiceInv, BeginShutdown \/ Stopping \/ Expire
    PROVE  ServiceType' /\ ServiceInv'
<1> USE DEF ServiceType, ServiceInv
<1>1. CASE BeginShutdown
    BY <1>1 DEF BeginShutdown, Live
<1>2. ASSUME NEW c \in Conns, CloseConn(c) PROVE ServiceType' /\ ServiceInv'
    BY <1>2 DEF CloseConn, Live
<1>3. CASE Cancel
    BY <1>3 DEF Cancel, Live
<1>4. CASE Drained
    BY <1>4 DEF Drained, Live
<1>5. CASE Expire
    BY <1>5 DEF Expire, Live
<1> QED BY <1>1, <1>2, <1>3, <1>4, <1>5 DEF Stopping

\* Deliveries, deletions over HTTP and resets do not touch the service.
LEMMA RestKeepsService ==
    ASSUME ServiceType, ServiceInv,
           Deliver \/ DeleteOverHTTP \/ Wipe \/ UNCHANGED vars
    PROVE  ServiceType' /\ ServiceInv'
<1>1. UNCHANGED <<serviceVars, sock, hpc>>
    BY DEF Deliver, DeleteOverHTTP, Wipe, vars
<1> QED BY <1>1 DEF ServiceType, ServiceInv, Live, serviceVars

-----------------------------------------------------------------------------
(* Sessions and the store. *)

\* What any step may do to the store: a message that was not there before has
\* a new identity, and a reset leaves no message.
StoreMoves ==
    /\ born' \in Nat /\ born <= born'
    /\ generation' \in Nat /\ generation <= generation'
    /\ \A u \in Users : \A m \in mail'[u] : m \in mail[u] \/ born < m
    /\ generation' = generation \/ \A u \in Users : mail'[u] = {}

\* A session that the step does not take (or whose handler it starts) stays as
\* sound and as exact as it was, whatever happens to the store.
LEMMA Untouched ==
    ASSUME SessionType, StoreMoves, NEW d \in Conns, SessionSound(d), ExactFor(d),
           sess'[d] = sess[d], wanted'[d] = wanted[d], removed'[d] = removed[d],
           reply'[d] = reply[d],
           hpc'[d] = hpc[d] \/ (hpc[d] = "none" /\ hpc'[d] = "reading")
    PROVE  SessionSound(d)' /\ ExactFor(d)'
<1>1. /\ sess[d].messages \in Seq(Nat) /\ sess[d].generation \in Nat
      /\ born \in Nat /\ generation \in Nat
    BY Pop3Assumption DEF SessionType, Sessions
<1>2. \A m \in wanted[d] : \E n \in DOMAIN sess[d].messages : m = sess[d].messages[n]
    BY DEF SessionSound, DeletedIDs
<1>3. \A n \in DOMAIN sess[d].messages : sess[d].messages[n] \in Nat /\ sess[d].messages[n] <= born
    BY <1>1 DEF SessionSound
<1>4. SessionSound(d)'
  <2>1. /\ sess'[d].state = "authorization" => sess'[d].messages = <<>>
        /\ hpc'[d] = "opening" => sess'[d].state = "authorization" /\ sess'[d].user \in Users
        /\ wanted'[d] = DeletedIDs(sess'[d])
        /\ hpc'[d] \in {"none", "reading", "opening", "deleting"} => reply'[d] = "none"
    BY DEF SessionSound
  <2>2. \A n \in DOMAIN sess'[d].messages : sess'[d].messages[n] <= born'
    BY <1>1, <1>3 DEF StoreMoves
  <2>3. sess'[d].generation <= generation'
    BY <1>1 DEF StoreMoves, SessionSound
  <2>4. sess'[d].generation < generation' =>
          \A u \in Users : \A n \in DOMAIN sess'[d].messages : sess'[d].messages[n] \notin mail'[u]
    <3>1. CASE generation' = generation
      <4> SUFFICES ASSUME sess[d].generation < generation, NEW u \in Users,
                          NEW n \in DOMAIN sess[d].messages, sess[d].messages[n] \in mail'[u]
                   PROVE  FALSE
        BY <3>1
      <4>1. sess[d].messages[n] \notin mail[u]
        BY DEF SessionSound
      <4>2. sess[d].messages[n] \in mail[u] \/ born < sess[d].messages[n]
        BY DEF StoreMoves
      <4>3. sess[d].messages[n] \in Nat /\ sess[d].messages[n] <= born
        BY <1>3
      <4> QED BY <4>1, <4>2, <4>3, <1>1
    <3>2. CASE \A u \in Users : mail'[u] = {}
      BY <3>2
    <3> QED BY <3>1, <3>2 DEF StoreMoves
  <2> QED BY <2>1, <2>2, <2>3, <2>4 DEF SessionSound
<1>5. ExactFor(d)'
  <2>1. ASSUME reply[d] = "ok", NEW u \in Users, NEW m \in mail'[u], m \in wanted[d] PROVE FALSE
    <3>1. m \in Nat /\ m <= born
      BY <2>1, <1>2, <1>3
    <3>2. m \in mail[u] \/ born < m
      BY <2>1 DEF StoreMoves
    <3>3. m \in mail[u]
      BY <3>1, <3>2, <1>1
    <3> QED BY <2>1, <3>3 DEF ExactFor
  <2> QED BY <2>1 DEF ExactFor
<1> QED BY <1>4, <1>5

\* The store only moves as StoreMoves says, at every step.
LEMMA StoreAlways ==
    ASSUME SessionType, [Next]_vars PROVE StoreMoves
<1> USE Pop3Assumption DEF SessionType, StoreMoves
<1>1. CASE UNCHANGED storeVars
    BY <1>1 DEF storeVars
<1>2. CASE Deliver
    BY <1>2 DEF Deliver
<1>3. CASE DeleteOverHTTP
    BY <1>3 DEF DeleteOverHTTP
<1>4. CASE Wipe
    BY <1>4 DEF Wipe
<1>5. ASSUME NEW c \in Conns, Deleted(c) PROVE StoreMoves
    BY <1>5 DEF Deleted
<1>6. ASSUME NEW c \in Conns, Handler(c), ~Deleted(c) PROVE UNCHANGED storeVars
    BY <1>6 DEF Handler, Inspect, User, Pass, Opened, OpenFails, Dele, Rset, QuitClean, Quit,
                DeleteFails, ReadFails, Unregister, Done
<1>7. CASE Serving \/ BeginShutdown \/ Stopping \/ Expire \/ Over \/ UNCHANGED vars
    BY <1>1, <1>7 DEF Serving, Start, Accept, AcceptFails, Register, BeginShutdown, Stopping,
                CloseConn, Cancel, Drained, Expire, Over, vars
<1> QED BY <1>1, <1>2, <1>3, <1>4, <1>5, <1>6, <1>7 DEF Next

\* The state of the sessions and of the store keeps its types.
LEMMA StoreTypes ==
    ASSUME SessionType, Deliver \/ DeleteOverHTTP \/ Wipe
    PROVE  SessionType'
<1> USE Pop3Assumption DEF SessionType
<1>1. CASE Deliver
  <2>1. /\ born' = born + 1 /\ born' \in 0..MaxMail
        /\ UNCHANGED <<generation, sess, wanted, removed, reply>>
    BY <1>1 DEF Deliver, ghosts
  <2>2. mail' \in [Users -> SUBSET (1..born')]
    BY <1>1, <2>1 DEF Deliver
  <2> QED BY <2>1, <2>2
<1>2. CASE DeleteOverHTTP
    BY <1>2 DEF DeleteOverHTTP, ghosts
<1>3. CASE Wipe
    BY <1>3 DEF Wipe, ghosts
<1> QED BY <1>1, <1>2, <1>3

\* A step that leaves the sessions of others alone.
OthersKept(c) ==
    \A d \in Conns \ {c} :
        /\ sess'[d] = sess[d] /\ hpc'[d] = hpc[d]
        /\ wanted'[d] = wanted[d] /\ removed'[d] = removed[d] /\ reply'[d] = reply[d]

\* A handler changes the state of its own session only.
LEMMA HandlerOwn ==
    ASSUME ServiceType, SessionType, NEW c \in Conns, Handler(c)
    PROVE  OthersKept(c)
<1> USE DEF ServiceType, SessionType, OthersKept, ghosts
<1>1. \A d \in Conns \ {c} : hpc'[d] = hpc[d]
    BY HandlerMove
<1>2. \A d \in Conns \ {c} : sess'[d] = sess[d]
    BY DEF Handler, Inspect, User, Pass, Opened, OpenFails, Dele, Rset, QuitClean, Quit, Deleted,
           DeleteFails, ReadFails, Unregister, Done
<1>3. \A d \in Conns \ {c} :
          wanted'[d] = wanted[d] /\ removed'[d] = removed[d] /\ reply'[d] = reply[d]
    BY DEF Handler, Inspect, User, Pass, Opened, OpenFails, Dele, Rset, QuitClean, Quit, Deleted,
           DeleteFails, ReadFails, Unregister, Done
<1> QED BY <1>1, <1>2, <1>3

\* A session before QUIT has removed nothing and has no reply.
LEMMA BeforeQuit ==
    ASSUME NEW c \in Conns, SessionSound(c), ExactFor(c),
           hpc[c] \in {"none", "reading", "opening", "deleting"}
    PROVE  reply[c] = "none" /\ removed[c] = {}
BY DEF SessionSound, ExactFor

\* What a step of a handler does to its own session.
LEMMA HandlerKeepsSession ==
    ASSUME Pop3Inv, NEW c \in Conns, Handler(c)
    PROVE  SessionType' /\ SessionSound(c)' /\ ExactFor(c)'
<1> USE Pop3Assumption DEF Pop3Inv, ServiceType, SessionType
<1>0. SessionSound(c) /\ ExactFor(c)
    BY DEF SessionInv
<1>1. CASE UNCHANGED <<sess, storeVars, ghosts>> /\ (hpc'[c] = "opening" => Pass(c))
           /\ (hpc'[c] \in {"none", "reading", "opening", "deleting"} =>
                 hpc[c] \in {"none", "reading", "opening", "deleting"})
  <2>1. SessionType'
    BY <1>1 DEF storeVars, ghosts
  <2>2. SessionSound(c)'
    BY <1>0, <1>1 DEF SessionSound, storeVars, ghosts, Pass, DeletedIDs, Sessions
  <2>3. ExactFor(c)'
    BY <1>0, <1>1 DEF ExactFor, storeVars, ghosts
  <2> QED BY <2>1, <2>2, <2>3
<1>2. CASE User(c)
  <2>1. PICK u \in Users : sess' = [sess EXCEPT ![c].user = u]
    BY <1>2 DEF User
  <2>2. /\ hpc[c] = "reading" /\ sess[c].state = "authorization"
        /\ hpc'[c] \in {"reading", "leaving"} /\ UNCHANGED <<storeVars, ghosts>>
    BY <1>2 DEF User, Flushed
  <2>3. /\ sess'[c] \in Sessions
        /\ sess'[c].state = sess[c].state /\ sess'[c].messages = sess[c].messages
        /\ sess'[c].generation = sess[c].generation /\ sess'[c].deleted = sess[c].deleted
    BY <2>1 DEF Sessions
  <2>4. SessionType'
    BY <2>1, <2>2, <2>3 DEF storeVars, ghosts
  <2>5. SessionSound(c)'
    BY <1>0, <2>2, <2>3 DEF SessionSound, DeletedIDs, storeVars, ghosts
  <2>6. ExactFor(c)'
    BY <1>0, <2>2 DEF ExactFor, storeVars, ghosts
  <2> QED BY <2>4, <2>5, <2>6
<1>3. CASE Opened(c)
  <2>1. sess[c].state = "authorization" /\ sess[c].user \in Users /\ sess[c].messages = <<>>
    BY <1>0, <1>3 DEF SessionSound, Opened
  <2>2. PICK order \in SetToSeqs(mail[sess[c].user]) :
          sess' = [sess EXCEPT ![c] = [@ EXCEPT !.state = "transaction", !.messages = order,
                                                !.generation = generation, !.deleted = {}]]
    BY <1>3 DEF Opened
  <2>3. /\ hpc[c] = "opening" /\ hpc'[c] \in {"reading", "leaving"}
        /\ UNCHANGED <<storeVars, ghosts>>
    BY <1>3 DEF Opened, Flushed
  <2>4. PICK k \in Nat : order \in [1..k -> mail[sess[c].user]]
    <3>1. mail[sess[c].user] \subseteq 1..born /\ born \in Nat
      BY <2>1
    <3>2. IsFiniteSet(1..born)
      BY <3>1, FS_Interval
    <3>3. Cardinality(mail[sess[c].user]) \in Nat
      BY <3>1, <3>2, FS_Subset, FS_CardinalityType
    <3> QED BY <3>3 DEF SetToSeqs
  <2>5. order \in Seq(Nat) /\ \A n \in DOMAIN order : order[n] <= born
    <3>1. mail[sess[c].user] \subseteq 1..born /\ born \in Nat
      BY <2>1
    <3>2. \A n \in 1..k : order[n] \in Nat /\ order[n] <= born
      BY <2>4, <3>1
    <3>3. order \in [1..k -> Nat]
      BY <2>4, <3>2
    <3> QED BY <3>2, <3>3
  <2>6. /\ sess'[c] \in Sessions
        /\ sess'[c].state = "transaction" /\ sess'[c].messages = order
        /\ sess'[c].generation = generation /\ sess'[c].deleted = {}
    <3>1. sess[c] \in Sessions /\ generation \in Nat
      OBVIOUS
    <3>2. sess'[c] = [sess[c] EXCEPT !.state = "transaction", !.messages = order,
                                     !.generation = generation, !.deleted = {}]
      BY <2>2
    <3> HIDE DEF Pop3Inv
    <3> QED BY <2>5, <3>1, <3>2 DEF Sessions
  <2>7. SessionType'
    BY <2>2, <2>3, <2>6 DEF storeVars, ghosts
  <2>8. wanted[c] = {} /\ DeletedIDs(sess'[c]) = {}
    BY <1>0, <2>1, <2>6 DEF SessionSound, DeletedIDs
  <2>9. SessionSound(c)'
    BY <1>0, <2>3, <2>5, <2>6, <2>8 DEF SessionSound, storeVars, ghosts
  <2>10. ExactFor(c)'
    BY <1>0, <2>3 DEF ExactFor, storeVars, ghosts
  <2> QED BY <2>7, <2>9, <2>10
<1>4. CASE Dele(c)
  <2>1. PICK n \in 1..MaxMail :
          /\ Available(sess[c], n)
          /\ sess' = [sess EXCEPT ![c].deleted = @ \cup {n}]
          /\ wanted' = [wanted EXCEPT ![c] = @ \cup {sess[c].messages[n]}]
    BY <1>4 DEF Dele
  <2>2. /\ hpc[c] = "reading" /\ sess[c].state = "transaction"
        /\ hpc'[c] \in {"reading", "leaving"} /\ UNCHANGED <<storeVars, removed, reply>>
    BY <1>4 DEF Dele, Flushed
  <2>3. /\ sess'[c] \in Sessions
        /\ sess'[c].state = sess[c].state /\ sess'[c].messages = sess[c].messages
        /\ sess'[c].generation = sess[c].generation
        /\ sess'[c].deleted = sess[c].deleted \cup {n}
    <3>1. sess[c] \in Sessions /\ n \in Nat
      OBVIOUS
    <3>2. sess'[c] = [sess[c] EXCEPT !.deleted = sess[c].deleted \cup {n}]
      BY <2>1
    <3>3. sess[c].deleted \cup {n} \in SUBSET Nat
      BY <3>1 DEF Sessions
    <3> DEFINE marks == sess[c].deleted \cup {n}
    <3> HIDE DEF Pop3Inv, marks
    <3>4. marks \in SUBSET Nat /\ sess'[c] = [sess[c] EXCEPT !.deleted = marks]
      BY <3>2, <3>3 DEF marks
    <3>5. sess'[c] \in Sessions /\ sess'[c].deleted = marks
      BY <3>1, <3>4 DEF Sessions
    <3> QED BY <3>1, <3>2, <3>5 DEF Sessions, marks
  <2>4. n \in DOMAIN sess[c].messages /\ sess[c].messages \in Seq(Nat)
        /\ sess[c].messages[n] \in Nat
    BY <2>1 DEF Available, Sessions
  <2>5. SessionType'
    BY <2>1, <2>2, <2>3, <2>4 DEF storeVars
  <2>6. DeletedIDs(sess'[c]) = DeletedIDs(sess[c]) \cup {sess[c].messages[n]}
    BY <2>3, <2>4 DEF DeletedIDs
  <2>7. SessionSound(c)'
    BY <1>0, <2>1, <2>2, <2>3, <2>6 DEF SessionSound, storeVars
  <2>8. ExactFor(c)'
    BY <1>0, <2>2, BeforeQuit DEF ExactFor, storeVars
  <2> QED BY <2>5, <2>7, <2>8
<1>5. CASE Rset(c)
  <2>1. /\ hpc[c] = "reading" /\ sess[c].state = "transaction"
        /\ sess' = [sess EXCEPT ![c].deleted = {}]
        /\ wanted' = [wanted EXCEPT ![c] = {}]
        /\ hpc'[c] \in {"reading", "leaving"} /\ UNCHANGED <<storeVars, removed, reply>>
    BY <1>5 DEF Rset, Flushed
  <2>2. /\ sess'[c] \in Sessions
        /\ sess'[c].state = sess[c].state /\ sess'[c].messages = sess[c].messages
        /\ sess'[c].generation = sess[c].generation /\ sess'[c].deleted = {}
    BY <2>1 DEF Sessions
  <2>3. SessionType'
    BY <2>1, <2>2 DEF storeVars
  <2>4. DeletedIDs(sess'[c]) = {} /\ wanted'[c] = {}
    BY <2>1, <2>2 DEF DeletedIDs
  <2>5. SessionSound(c)'
    BY <1>0, <2>1, <2>2, <2>4 DEF SessionSound, storeVars
  <2>6. ExactFor(c)'
    BY <1>0, <2>1, <2>4, BeforeQuit DEF ExactFor, storeVars
  <2> QED BY <2>3, <2>5, <2>6
<1>6. CASE QuitClean(c)
  <2>1. /\ hpc[c] = "reading" /\ hpc'[c] = "leaving" /\ reply' = [reply EXCEPT ![c] = "ok"]
        /\ UNCHANGED <<sess, storeVars, wanted, removed>>
    BY <1>6 DEF QuitClean
  <2>2. wanted[c] = {}
    <3>1. wanted[c] = DeletedIDs(sess[c])
      BY <1>0 DEF SessionSound
    <3>2. CASE sess[c].state = "authorization"
      <4>1. sess[c].messages = <<>>
        BY <1>0, <3>2 DEF SessionSound
      <4> QED BY <3>1, <4>1 DEF DeletedIDs
    <3> QED BY <1>6, <3>1, <3>2 DEF QuitClean
  <2>3. SessionType'
    BY <2>1 DEF storeVars
  <2>4. SessionSound(c)'
    BY <1>0, <2>1 DEF SessionSound, storeVars
  <2>5. ExactFor(c)'
    BY <1>0, <2>1, <2>2 DEF ExactFor, storeVars
  <2> QED BY <2>3, <2>4, <2>5
<1>7. CASE Deleted(c)
  <2>1. /\ hpc[c] = "deleting" /\ hpc'[c] = "leaving" /\ reply' = [reply EXCEPT ![c] = "ok"]
        /\ UNCHANGED <<sess, born, generation, wanted>>
    BY <1>7 DEF Deleted
  <2>2. wanted[c] = DeletedIDs(sess[c]) /\ removed[c] = {}
    BY <1>0, <2>1, BeforeQuit DEF SessionSound
  <2>3. CASE sess[c].generation # generation
    <3>1. UNCHANGED <<mail, removed>>
      BY <1>7, <2>3 DEF Deleted
    <3>2. \A u \in Users : mail[u] \cap wanted[c] = {}
      <4>1. sess[c].generation < generation
        BY <1>0, <2>3 DEF SessionSound, Sessions
      <4> QED BY <1>0, <2>2, <4>1 DEF SessionSound, DeletedIDs
    <3>3. SessionType'
      BY <2>1, <3>1
    <3>4. SessionSound(c)'
      BY <1>0, <2>1, <3>1 DEF SessionSound
    <3>5. ExactFor(c)'
      BY <2>1, <2>2, <3>1, <3>2 DEF ExactFor
    <3> QED BY <3>3, <3>4, <3>5
  <2>4. CASE sess[c].generation = generation
    <3>1. /\ mail' = [u \in Users |-> mail[u] \ wanted[c]]
          /\ removed' = [removed EXCEPT ![c] = wanted[c] \cap UNION {mail[u] : u \in Users}]
      BY <1>7, <2>2, <2>4 DEF Deleted
    <3>2. SessionType'
      BY <2>1, <3>1
    <3>3. SessionSound(c)'
      BY <1>0, <2>1, <2>4, <3>1 DEF SessionSound, Sessions
    <3>4. ExactFor(c)'
      BY <2>1, <3>1 DEF ExactFor
    <3> QED BY <3>2, <3>3, <3>4
  <2> QED BY <2>3, <2>4
<1>8. CASE DeleteFails(c)
  <2>1. /\ hpc[c] = "deleting" /\ hpc'[c] = "leaving" /\ reply' = [reply EXCEPT ![c] = "err"]
        /\ UNCHANGED <<sess, storeVars, wanted, removed>>
    BY <1>8 DEF DeleteFails
  <2>2. SessionType'
    BY <2>1 DEF storeVars
  <2>3. SessionSound(c)'
    BY <1>0, <2>1 DEF SessionSound, storeVars
  <2>4. ExactFor(c)'
    BY <1>0, <2>1, BeforeQuit DEF ExactFor, storeVars
  <2> QED BY <2>2, <2>3, <2>4
<1>9. CASE Inspect(c) \/ OpenFails(c) \/ Pass(c) \/ Quit(c) \/ ReadFails(c) \/ Unregister(c) \/ Done(c)
    BY <1>1, <1>9 DEF Inspect, OpenFails, Pass, Quit, ReadFails, Unregister, Done, Flushed
<1> QED BY <1>2, <1>3, <1>4, <1>5, <1>6, <1>7, <1>8, <1>9 DEF Handler

-----------------------------------------------------------------------------
\* The program starts without a connection and without a message.
LEMMA Pop3InitInv == Init => Pop3Inv
<1> SUFFICES ASSUME Init PROVE Pop3Inv
    OBVIOUS
<1> USE Pop3Assumption DEF Init
<1>1. ServiceType /\ ServiceInv
  <2>1. Live = {}
    BY DEF Live, Running
  <2> QED BY <2>1, FS_EmptySet DEF ServiceType, ServiceInv, Running
<1>2. SessionType
  <2>1. NewSession \in Sessions
    BY DEF NewSession, Sessions
  <2> QED BY <2>1 DEF SessionType
<1>3. SessionInv
  <2>1. NewSession.messages = <<>> /\ NewSession.generation = 0 /\ DeletedIDs(NewSession) = {}
    BY DEF NewSession, DeletedIDs
  <2> QED BY <2>1 DEF SessionInv, SessionSound, ExactFor
<1> QED BY <1>1, <1>2, <1>3 DEF Pop3Inv

\* A step that no handler takes leaves every session alone; Register starts one.
LEMMA NoHandlerStep ==
    ASSUME ServiceType, ServiceInv, [Next]_vars, ~ \E c \in Conns : Handler(c)
    PROVE  /\ UNCHANGED <<sess, ghosts>>
           /\ \A d \in Conns :
                hpc'[d] = hpc[d] \/ (hpc[d] = "none" /\ hpc'[d] = "reading")
<1>1. CASE Register
    BY <1>1 DEF Register, ServiceType, ServiceInv
<1>2. CASE ~Register
  <2>1. UNCHANGED <<sess, ghosts, hpc>>
    BY <1>2 DEF Next, Serving, Start, Accept, AcceptFails, BeginShutdown, Stopping, CloseConn,
                Cancel, Drained, Expire, Deliver, DeleteOverHTTP, Wipe, Over, vars
  <2> QED BY <2>1
<1> QED BY <1>1, <1>2

\* Every step keeps the inductive invariant.
LEMMA Pop3StepInv == Pop3Inv /\ [Next]_vars => Pop3Inv'
<1> SUFFICES ASSUME Pop3Inv, [Next]_vars PROVE Pop3Inv'
    OBVIOUS
<1>1. ServiceType' /\ ServiceInv'
    BY HandlerKeepsService, ServingKeepsService, ShutdownKeepsService, RestKeepsService
    DEF Next, Over, Pop3Inv
<1>2. StoreMoves
    BY StoreAlways DEF Pop3Inv
<1>3. SessionType' /\ SessionInv'
  <2>1. ASSUME NEW c \in Conns, Handler(c) PROVE SessionType' /\ SessionInv'
    <3>1. SessionType' /\ SessionSound(c)' /\ ExactFor(c)'
      BY <2>1, HandlerKeepsSession
    <3>2. ASSUME NEW d \in Conns \ {c} PROVE SessionSound(d)' /\ ExactFor(d)'
      <4>1. SessionSound(d) /\ ExactFor(d) /\ SessionType
        BY DEF Pop3Inv, SessionInv
      <4> QED BY <1>2, <2>1, <4>1, HandlerOwn, Untouched DEF OthersKept, Pop3Inv
    <3> QED BY <3>1, <3>2 DEF SessionInv
  <2>2. CASE ~ \E c \in Conns : Handler(c)
    <3>1. SessionType'
      <4>1. CASE Deliver \/ DeleteOverHTTP \/ Wipe
        BY <4>1, StoreTypes DEF Pop3Inv
      <4>2. CASE ~(Deliver \/ DeleteOverHTTP \/ Wipe)
        <5>1. UNCHANGED <<sess, storeVars, ghosts>>
          BY <2>2, <4>2 DEF Next, Serving, Start, Accept, AcceptFails, Register, BeginShutdown,
             Stopping, CloseConn, Cancel, Drained, Expire, Over, vars
        <5> QED BY <5>1 DEF Pop3Inv, SessionType, storeVars, ghosts
      <4> QED BY <4>1, <4>2
    <3>2. ASSUME NEW d \in Conns PROVE SessionSound(d)' /\ ExactFor(d)'
      <4>1. SessionSound(d) /\ ExactFor(d) /\ SessionType
        BY DEF Pop3Inv, SessionInv
      <4> QED BY <1>2, <2>2, <4>1, NoHandlerStep, Untouched DEF Pop3Inv, ghosts
    <3> QED BY <3>1, <3>2 DEF SessionInv
  <2> QED BY <2>1, <2>2
<1> QED BY <1>1, <1>3 DEF Pop3Inv

\* Every state of the service satisfies the inductive invariant.
THEOREM Pop3Invariant == Spec => []Pop3Inv
BY Pop3InitInv, Pop3StepInv, PTL DEF Spec

\* The service, its sessions and the store keep their types, and service.wg is
\* the number of handlers that have not ended: it never goes below zero.
THEOREM Pop3TypeCorrect == Spec => []TypeOK
<1>1. Pop3Inv => TypeOK
    BY DEF Pop3Inv, ServiceType, SessionType, TypeOK, Live
<1> QED BY <1>1, Pop3Invariant, PTL

\* What DrainedForGood needs of the inductive invariant.
LEMMA DrainedFollows == ServiceType /\ ServiceInv => DrainedForGood
BY NoneLive DEF ServiceType, ServiceInv, DrainedForGood

\* Shutdown that returned nil has left no handler behind, and no Accept that
\* raced with it ever starts one: main may close the database.
THEOREM Pop3Drained == Spec => []DrainedForGood
<1>1. Pop3Inv => DrainedForGood
    BY DrainedFollows DEF Pop3Inv
<1> QED BY <1>1, Pop3Invariant, PTL

\* A session deletes the messages its client marked and did not reset, all of
\* them when QUIT was answered +OK and none otherwise, for any interleaving of
\* sessions, deliveries, deletions over HTTP, resets and the shutdown.
THEOREM Pop3DeletionExact == Spec => []DeletionExact
<1>1. Pop3Inv => DeletionExact
    BY DEF Pop3Inv, SessionInv, ExactFor, DeletionExact
<1> QED BY <1>1, Pop3Invariant, PTL

-----------------------------------------------------------------------------
(* The program. *)

\* What stands behind the result of run(): success is reported only when both
\* Shutdowns returned nil, and an HTTP server that was drained serves nothing.
ResultInv ==
    /\ result = "ok" => stop = "nil" /\ sd = "drained"
    /\ stop = "nil" => web = "none" /\ loop \in {"idle", "returned"}

LifecycleInv == Pop3Inv /\ ResultInv

\* Every step of the program is a step of the POP3 service, or leaves it alone.
LEMMA LifecycleStepIsPop3 == [LifecycleNext]_allVars => [Next]_vars
<1> SUFFICES ASSUME [LifecycleNext]_allVars PROVE [Next]_vars
    OBVIOUS
<1>1. CASE UNCHANGED allVars
    BY <1>1 DEF allVars
<1>2. CASE Main
    BY <1>2 DEF Main, OpenStore, Listen, Leave, Collect, CloseStore, Exit, Deadline
<1>3. CASE HttpServing \/ HttpStopping \/ OnShutdown
    BY <1>3 DEF HttpServing, HttpStart, HttpAccept, HttpAcceptFails, HttpEnds, PageLeaves,
                HttpStopping, HttpStop, HttpDrained, HttpExpires, OnShutdown
<1>4. CASE Pop3Serving \/ Pop3Stopping \/ StoreChanges \/ \E c \in Conns : Pop3Handler(c)
    BY <1>4 DEF Pop3Serving, Pop3Stopping, StoreChanges, Pop3Handler, Next
<1> QED BY <1>1, <1>2, <1>3, <1>4 DEF LifecycleNext

\* Shutdown that returned does not return again.
LEMMA DrainedStays == [Next]_vars /\ sd = "drained" => sd' = "drained"
<1> SUFFICES ASSUME [Next]_vars, sd = "drained" PROVE sd' = "drained"
    OBVIOUS
<1>1. ASSUME NEW c \in Conns, Handler(c) PROVE sd' = sd
    BY <1>1, HandlerMove
<1>2. CASE Serving \/ Deliver \/ DeleteOverHTTP \/ Wipe \/ Over \/ UNCHANGED vars
    BY <1>2 DEF Serving, Start, Accept, AcceptFails, Register, Deliver, DeleteOverHTTP, Wipe,
                Over, vars, serviceVars
<1>3. CASE BeginShutdown \/ Stopping \/ Expire
    BY <1>3 DEF BeginShutdown, Stopping, CloseConn, Cancel, Drained, Expire
<1> QED BY <1>1, <1>2, <1>3 DEF Next

\* No step of the program breaks what its result stands for.
LEMMA ResultStep == ResultInv /\ [LifecycleNext]_allVars => ResultInv'
<1> SUFFICES ASSUME ResultInv, [LifecycleNext]_allVars PROVE ResultInv'
    OBVIOUS
<1> USE LifecycleStepIsPop3, DrainedStays DEF ResultInv
<1>1. CASE UNCHANGED <<result, stop, web, loop>>
    BY <1>1
<1>2. CASE Main
  <2>1. CASE Collect
    BY <2>1 DEF Collect, httpVars, vars, serviceVars
  <2>2. CASE ~Collect
    BY <1>2, <2>2 DEF Main, OpenStore, Listen, Leave, CloseStore, Exit, Deadline, httpVars,
                      runVars
  <2> QED BY <2>1, <2>2
<1>3. CASE HttpServing
    BY <1>3 DEF HttpServing, HttpStart, HttpAccept, HttpAcceptFails, HttpEnds, PageLeaves,
                runVars
<1>4. CASE HttpStopping \/ OnShutdown
    BY <1>4 DEF HttpStopping, HttpStop, HttpDrained, HttpExpires, OnShutdown, runVars
<1>5. CASE Pop3Serving \/ Pop3Stopping \/ StoreChanges \/ \E c \in Conns : Pop3Handler(c)
  <2>1. UNCHANGED <<result, stop, web, loop>>
    BY <1>5 DEF Pop3Serving, Pop3Stopping, StoreChanges, Pop3Handler, runVars, httpVars
  <2> QED BY <1>1, <2>1
<1>6. CASE UNCHANGED allVars
    BY <1>1, <1>6 DEF allVars, runVars, httpVars
<1> QED BY <1>2, <1>3, <1>4, <1>5, <1>6 DEF LifecycleNext

\* The program implements the specification of its POP3 service: everything
\* proved of Pop3Server holds of the running program, with its startup, its
\* closed database and its deadline.
THEOREM LifecycleImplementsPop3 == LifecycleSpec => Spec
<1>1. LifecycleInit => Init
    BY DEF LifecycleInit
<1> QED BY <1>1, LifecycleStepIsPop3, PTL DEF LifecycleSpec, Spec

\* Every state of the program satisfies the inductive invariant.
THEOREM LifecycleInvariant == LifecycleSpec => []LifecycleInv
<1>1. LifecycleInit => LifecycleInv
    BY Pop3InitInv DEF LifecycleInit, LifecycleInv, ResultInv
<1>2. LifecycleInv /\ [LifecycleNext]_allVars => LifecycleInv'
    BY LifecycleStepIsPop3, Pop3StepInv, ResultStep DEF LifecycleInv
<1> QED BY <1>1, <1>2, PTL DEF LifecycleSpec

\* A run() that returns nil closed the database under no POP3 handler, no HTTP
\* request and no stream, however its goroutines were scheduled.
THEOREM LifecycleCleanExit == LifecycleSpec => []CleanExit
<1>1. LifecycleInv => CleanExit
    BY DrainedFollows DEF LifecycleInv, Pop3Inv, ResultInv, CleanExit, DrainedForGood
<1> QED BY <1>1, LifecycleInvariant, PTL

\* In the program, too, a session deletes exactly what its client marked.
THEOREM LifecycleDeletionExact == LifecycleSpec => []DeletionExact
BY LifecycleImplementsPop3, Pop3DeletionExact, PTL
=============================================================================
