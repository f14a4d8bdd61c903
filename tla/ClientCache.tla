---------------------------- MODULE ClientCache ----------------------------
(***************************************************************************)
(* The resource cache of the page (use-hoomail.ts), composed with the      *)
(* event stream of EventHub: what a page holds for each resource key while *)
(* frames, responses, failures and the user's own steps come in any order. *)
(*                                                                         *)
(* The key Boxes is '/api/mailboxes', always on the page; a key of Lists   *)
(* is the message list of a mailbox, numeric-id keyed.  Data is the number *)
(* of broadcasts that the server had sent when it read the resource.  An   *)
(* entry's generation is kept as a flag of each request: `fenced` when the *)
(* generation has moved on since it was issued; `held` when it is the      *)
(* entry's promise.  Left out: search keys, the deletion of '/source'      *)
(* entries, and the separate limit on inspections.                         *)
(***************************************************************************)
EXTENDS EventHub, Integers, FiniteSets, SequencesExt

CONSTANTS Lists,         \* keys of message lists
          Mail, NewBox, Reset,   \* messages:changed, mailbox:new and reset events
          MaxInactive,   \* MAX_INACTIVE_RESOURCES
          MaxActs        \* bound: the user's steps

ASSUME CacheAssumption ==
    /\ Resources = {Mail, NewBox, Reset}
    /\ "/api/mailboxes" \notin Lists
    /\ MaxInactive \in Nat /\ MaxActs \in Nat

VARIABLES
    entry,      \* the cache of each page
    requests,   \* its fetches that have not settled
    used,       \* its keys, the one used last at the end
    posting,    \* the lists with an optimistic change that the server has not answered
    acts        \* the user's steps so far

cacheVars == <<entry, requests, used, posting, acts>>
vars == <<hubVars, cacheVars>>

Boxes == "/api/mailboxes"
Keys == {Boxes} \cup Lists
Nothing == -1

NoEntry == [present |-> FALSE, data |-> Nothing, error |-> FALSE, after |-> FALSE,
            mounted |-> FALSE, origin |-> "server"]
Request == [fenced |-> FALSE, held |-> TRUE, issued |-> total]

Held(rs) == \E r \in rs : r.held

\* Which resources an event names.
Names(event, key) == event # NewBox \/ key = Boxes

CacheInit ==
    /\ Init
    /\ entry = [s \in Pages |-> [k \in Keys |->
                    IF k = Boxes THEN [NoEntry EXCEPT !.present = TRUE, !.mounted = TRUE] ELSE NoEntry]]
    /\ requests = [s \in Pages |-> [k \in Keys |-> IF k = Boxes THEN {Request} ELSE {}]]
    /\ used = [s \in Pages |-> <<Boxes>>]
    /\ posting = [s \in Pages |-> {}]
    /\ acts = 0

-----------------------------------------------------------------------------
(* Operators on a slot [e, rs]: an entry and its requests. *)

Slot(s, k) == [e |-> entry[s][k], rs |-> requests[s][k]]

\* fetchInto
FetchInto(slot, force) ==
    LET e == [slot.e EXCEPT !.present = TRUE]
    IN  IF Held(slot.rs) THEN [slot EXCEPT !.e = [e EXCEPT !.after = @ \/ force]]
        ELSE [e |-> e, rs |-> slot.rs \cup {Request}]

Fenced(rs) == {[r EXCEPT !.fenced = TRUE] : r \in rs}
Released(rs) == {[r EXCEPT !.held = FALSE] : r \in rs}

\* Mutant: the generation does not move on.
InvalidateUnfenced(slot) ==
    FetchInto([slot EXCEPT !.e = [@ EXCEPT !.error = FALSE, !.origin = "server"]], FALSE)

\* mutateCache without an updater: revalidate.
Invalidate(slot) ==
    FetchInto([e |-> [slot.e EXCEPT !.error = FALSE, !.origin = "server"], rs |-> Fenced(slot.rs)], TRUE)

\* mutateCache(..., () => undefined, false).
Clear(slot) ==
    [e |-> [slot.e EXCEPT !.data = Nothing, !.error = FALSE, !.after = FALSE, !.origin = "server"],
     rs |-> Released(Fenced(slot.rs))]

\* mutateCache(..., () => undefined): the promise is kept and revalidated after.
ClearAndInvalidate(slot) ==
    FetchInto([e |-> [slot.e EXCEPT !.data = Nothing, !.error = FALSE, !.origin = "server"], rs |-> Fenced(slot.rs)], TRUE)

\* mutateCache(..., patch, false), of an optimistic change.
Patch(slot) ==
    IF slot.e.data = Nothing THEN Clear(slot)
    ELSE [e |-> [slot.e EXCEPT !.error = FALSE, !.origin = "patch"], rs |-> Fenced(slot.rs)]

\* retryCachedResource
Retry(slot) == FetchInto(Clear(slot), FALSE)

\* trimCache: the entries of a page, and the least recently used of those that
\* neither a component nor a request refers to are deleted.
Trimmed(es, rs, recent) ==
    LET inactive == {i \in DOMAIN recent : LET k == recent[i]
                                           IN  es[k].present /\ ~es[k].mounted /\ ~Held(rs[k])}
        evicted == {recent[i] : i \in {x \in inactive :
                        Cardinality({j \in inactive : j > x}) >= MaxInactive}}
    IN  [k \in Keys |-> IF k \in evicted THEN NoEntry ELSE es[k]]

\* touchCacheEntry; an entry that was never touched is older than all others.
Touch(recent, k) == Append(SelectSeq(recent, LAMBDA x : x # k), k)
Known(recent, ks) == SetToSeq(ks \ ToSet(recent)) \o recent

Put(s, slots) ==
    /\ entry' = [entry EXCEPT ![s] = [k \in Keys |-> slots[k].e]]
    /\ requests' = [requests EXCEPT ![s] = [k \in Keys |-> slots[k].rs]]

-----------------------------------------------------------------------------
(* The frames of the stream (useRealtime). *)

\* Mutant: the lists on the page are cleared and not refetched.
OnConnectedClears(s) ==
    [k \in Keys |-> IF k = Boxes THEN Invalidate(Slot(s, k))
                    ELSE IF entry[s][k].present THEN Clear(Slot(s, k)) ELSE Slot(s, k)]

\* case 'connected'
OnConnected(s) ==
    [k \in Keys |->
        IF k = Boxes THEN Invalidate(Slot(s, k))
        ELSE IF ~entry[s][k].present THEN Slot(s, k)
        ELSE IF entry[s][k].mounted THEN Invalidate(Clear(Slot(s, k)))
        ELSE Clear(Slot(s, k))]

\* case 'reset': onReset deselects the mailbox, so that no list is mounted.
OnReset(s) ==
    [k \in Keys |->
        IF k = Boxes THEN ClearAndInvalidate(Slot(s, k))
        ELSE IF entry[s][k].present
             THEN [Clear(Slot(s, k)) EXCEPT !.e.mounted = FALSE] ELSE Slot(s, k)]

\* Every other event: the keys that it names, which need not be in the cache.
OnChange(s, event) ==
    [k \in Keys |-> IF Names(event, k) THEN Invalidate(Slot(s, k)) ELSE Slot(s, k)]

OnFrame(s, frame) ==
    IF frame = Greeting THEN OnConnected(s)
    ELSE IF log[frame] = Reset THEN OnReset(s) ELSE OnChange(s, log[frame])

\* The page handles a frame; a list that leaves the page trims the cache.
ReceiveFrame(s) ==
    LET frame == Head(wire[s])
        slots == OnFrame(s, frame)
        recent == Known(used[s], {k \in Keys : slots[k].e.present})
    IN  /\ Receive(s)
        /\ requests' = [requests EXCEPT ![s] = [k \in Keys |-> slots[k].rs]]
        /\ entry' = [entry EXCEPT ![s] = IF \E k \in Lists : entry[s][k].mounted /\ ~slots[k].e.mounted
                        THEN Trimmed([k \in Keys |-> slots[k].e], [k \in Keys |-> slots[k].rs], recent)
                        ELSE [k \in Keys |-> slots[k].e]]
        /\ used' = [used EXCEPT ![s] = recent]
        /\ UNCHANGED <<posting, acts>>

-----------------------------------------------------------------------------
(* Requests. *)

\* The promise settles, with the state `read` or a failure: its then or catch, and
\* finally.
Settled(slot, r, read) ==
    LET e == IF r.fenced THEN slot.e
             ELSE IF read # Nothing THEN [slot.e EXCEPT !.data = read, !.error = FALSE]
             ELSE [slot.e EXCEPT !.error = TRUE]
        rest == [e |-> e, rs |-> slot.rs \ {r}]
    IN  IF ~r.held THEN rest
        ELSE IF e.after THEN FetchInto([rest EXCEPT !.e.after = FALSE], FALSE) ELSE rest

\* The server reads the resource at some time while the request is under way, or
\* the request fails.
Settle(s, k) ==
    /\ \E r \in requests[s][k] : \E read \in {Nothing} \cup r.issued..total :
            LET slot == Settled(Slot(s, k), r, read)
                es == [entry[s] EXCEPT ![k] = slot.e]
                rs == [requests[s] EXCEPT ![k] = slot.rs]
            IN  /\ entry' = [entry EXCEPT ![s] = IF r.held THEN Trimmed(es, rs, used[s]) ELSE es]
                /\ requests' = [requests EXCEPT ![s] = rs]
    /\ UNCHANGED <<hubVars, used, posting, acts>>

-----------------------------------------------------------------------------
(* The user. *)

Act == acts < MaxActs /\ acts' = acts + 1

\* useCachedResource mounts: a fetch unless there is data or one is under way.
Mounted(slot) ==
    LET new == [slot EXCEPT !.e = [@ EXCEPT !.mounted = TRUE, !.present = TRUE]]
    IN  IF new.e.data = Nothing /\ ~Held(new.rs) THEN FetchInto(new, FALSE) ELSE new

\* A mailbox is selected: its list is revalidated and comes to be the one on the
\* page, and the cleanup of the one before trims the cache.
Selected(s, k) ==
    LET slots == [x \in Keys |-> IF x = k THEN Invalidate(Slot(s, x)) ELSE Slot(s, x)]
        recent == Touch(used[s], k)
        es == [x \in Keys |-> IF x \in Lists THEN [slots[x].e EXCEPT !.mounted = FALSE] ELSE slots[x].e]
        rs == [x \in Keys |-> slots[x].rs]
        kept == IF \E x \in Lists : entry[s][x].mounted THEN Trimmed(es, rs, recent) ELSE es
    IN  /\ Put(s, [x \in Keys |-> IF x = k THEN Mounted([e |-> kept[x], rs |-> rs[x]])
                                  ELSE [e |-> kept[x], rs |-> rs[x]]])
        /\ used' = [used EXCEPT ![s] = recent]

\* selectMailbox, of the selected one too,
SelectMailbox(s, k) ==
    /\ Act
    /\ entry[s][Boxes].data # Nothing
    /\ Selected(s, k)
    /\ UNCHANGED <<hubVars, posting>>

\* or the effect that selects a mailbox when none is selected.
AutoSelect(s, k) ==
    /\ entry[s][Boxes].data # Nothing
    /\ \A x \in Lists : ~entry[s][x].mounted
    /\ Selected(s, k)
    /\ UNCHANGED <<hubVars, posting, acts>>

\* handleDeleteMailbox of the selected mailbox, answered with success.
DeleteSelected(s, k) ==
    /\ Act
    /\ entry[s][k].mounted
    /\ LET boxes == Invalidate(Slot(s, Boxes))
           rs == [requests[s] EXCEPT ![Boxes] = boxes.rs]
       IN  /\ entry' = [entry EXCEPT ![s] =
                Trimmed([@ EXCEPT ![k].mounted = FALSE, ![Boxes] = boxes.e], rs, used[s])]
           /\ requests' = [requests EXCEPT ![s] = rs]
    /\ UNCHANGED <<hubVars, used, posting>>

RetryResource(s, k) ==
    /\ Act
    /\ entry[s][k].mounted
    /\ Put(s, [x \in Keys |-> IF x # k THEN Slot(s, x)
                              ELSE IF k = Boxes THEN Invalidate(Slot(s, x)) ELSE Retry(Slot(s, x))])
    /\ used' = [used EXCEPT ![s] = IF k = Boxes THEN @ ELSE Touch(@, k)]
    /\ UNCHANGED <<hubVars, posting>>

\* openMessage of an unread message: the list and the mailboxes are patched, and
\* the change is posted.
OpenMessage(s, k) ==
    /\ Act
    /\ k \in Lists /\ entry[s][k].mounted /\ entry[s][k].data # Nothing
    /\ k \notin posting[s]
    /\ Put(s, [x \in Keys |-> IF x \in {k, Boxes} THEN Patch(Slot(s, x)) ELSE Slot(s, x)])
    /\ posting' = [posting EXCEPT ![s] = @ \cup {k}]
    /\ UNCHANGED <<hubVars, used>>

\* The server makes the change and broadcasts it,
PostChanges(s, k) ==
    /\ k \in posting[s]
    /\ Broadcast
    /\ log'[Len(log')] = Mail
    /\ posting' = [posting EXCEPT ![s] = @ \ {k}]
    /\ UNCHANGED <<entry, requests, used, acts>>

\* fails, and the page refreshes (refreshAfterRead),
PostFails(s, k) ==
    /\ k \in posting[s]
    /\ posting' = [posting EXCEPT ![s] = @ \ {k}]
    /\ Put(s, [x \in Keys |-> IF x = Boxes \/ (x = k /\ entry[s][x].present)
                              THEN Invalidate(Slot(s, x)) ELSE Slot(s, x)])
    /\ UNCHANGED <<hubVars, used, acts>>

\* or finds the message deleted or read already: it answers ok and says nothing.
PostIsMoot(s, k) ==
    /\ k \in posting[s]
    /\ posting' = [posting EXCEPT ![s] = @ \ {k}]
    /\ entry' = [entry EXCEPT ![s] = [x \in Keys |->
            IF x \in {k, Boxes} /\ @[x].origin = "patch" THEN [@[x] EXCEPT !.origin = "moot"] ELSE @[x]]]
    /\ UNCHANGED <<hubVars, requests, used, acts>>

-----------------------------------------------------------------------------
PageStep(s) ==
    \/ ReceiveFrame(s)
    \/ \E k \in Lists : AutoSelect(s, k)
    \/ (Connect(s) \/ NoticeEnd(s)) /\ UNCHANGED cacheVars
Fetching(s) == \E k \in Keys : Settle(s, k)
User(s) ==
    \/ \E k \in Lists : SelectMailbox(s, k) \/ DeleteSelected(s, k) \/ OpenMessage(s, k)
    \/ \E k \in Keys : RetryResource(s, k)
Post(s) == \E k \in Lists : PostChanges(s, k) \/ PostFails(s, k) \/ PostIsMoot(s, k)

CacheNext ==
    \/ \E s \in Pages : PageStep(s) \/ Fetching(s) \/ User(s) \/ Post(s)
    \/ (\E s \in Pages : Stream(s) \/ Disconnect(s)) /\ UNCHANGED cacheVars
    \/ (Broadcast \/ Close) /\ UNCHANGED cacheVars

CacheSpec == CacheInit /\ [][CacheNext]_vars

-----------------------------------------------------------------------------
Idle(s, k) == ~Held(requests[s][k])

\* What the page was told of and knows: an entry with no request under way holds
\* what was read after the last frame that named it, or an error, or nothing.  No
\* late response brings an older state back, whichever order frames, responses,
\* retries and optimistic changes come in.  An entry that the page changed itself
\* is left out until it is next revalidated.
CacheKnows ==
    \A s \in Pages, k \in Keys :
        Idle(s, k) /\ entry[s][k].data # Nothing /\ ~entry[s][k].error
        /\ entry[s][k].origin = "server" =>
            \A n \in 1..total :
                Names(log[n], k) /\ n <= fetched[s][log[n]] => entry[s][k].data >= n

\* A component on the page is never left waiting: its entry is in the cache and
\* has data, an error or a request under way.
NoBlankPage ==
    \A s \in Pages, k \in Keys :
        entry[s][k].mounted => entry[s][k].present /\ (Idle(s, k) => entry[s][k].data # Nothing \/ entry[s][k].error)
=============================================================================
