--------------------------- MODULE FriendRequests ---------------------------
(***************************************************************************)
(* Two peers, the friend requests between them, and the durable outbox     *)
(* that carries what could not be delivered (native/state/store.ts,        *)
(* native/state/mutations.ts, handleFriendOp of native/sync/inbound.ts).   *)
(*                                                                         *)
(* A user's operation changes the store, then awaits one delivery; a drain *)
(* walks a snapshot of the queue and awaits one delivery per entry.  Both  *)
(* are split at that await.  A packet stays in net once placed: the live   *)
(* path and the recipient inbox race, so it may arrive again, or late.     *)
(***************************************************************************)
EXTENDS Naturals, FiniteSets, Sequences

CONSTANTS
    Peers,         \* the two peers
    Ids,           \* request ids; each is used for one request
    OutboxCap,     \* OUTBOX_CAP
    MaxAttempts,   \* MAX_OUTBOX_ATTEMPTS
    MaxUid,        \* bound: distinct outbox entry ids alive at once
    Worlds         \* what may happen: see World

\* The requests that may be made and by whom; those whose packets may fail to be
\* delivered and those whose seven days may pass; and bounds on the ordinary messages
\* each peer queues, the friends or rows removed by hand, and the restarts.
World == [ids : SUBSET Ids, creators : SUBSET Peers, flaky : SUBSET Ids,
          mayExpire : SUBSET Ids, chats : Nat, removals : Nat, restarts : Nat]

ASSUME TwoPeers == "nobody" \notin Peers /\ \E x, y \in Peers : x # y /\ Peers = {x, y}
ASSUME RequestIds == "chat" \notin Ids
ASSUME QueueBounds == OutboxCap \in Nat \ {0} /\ MaxAttempts \in Nat \ {0}
\* An id for an entry, for whatever the queue and a pass over it hold.
ASSUME UidsSuffice == MaxUid \in Nat /\ MaxUid >= 2 * OutboxCap + 2
ASSUME WorldsOK == Worlds \subseteq World

VARIABLES
    world,      \* the world of this behaviour; it never changes
    peer,       \* peer[p]: the persisted store of p, as a PeerState
    drain,      \* drain[p]: the pass of nativeDrainOutbox under way at p
    calls,      \* calls[p]: deliveries a user's operation awaits
    net,        \* packets in flight or in custody
    from,       \* from[r]: who created request r, "nobody" if unused
    expired,    \* requests whose seven days are over
    removals,   \* how many friends or rows were removed by hand
    restarts,   \* how often a client restarted
    owed,       \* owed[p]: entries queued when a drain was last requested, not yet examined
    acted,     \* requests their recipient accepted
    cut         \* requests whose lifecycle action was awaited when its client restarted,
                \* or was pushed out of the queue by another

vars == <<world, peer, drain, calls, net, from, expired, removals, restarts, owed, acted, cut>>

Other(p) == CHOOSE q \in Peers : q # p
Lifecycle == {"accept", "decline", "cancel"}
Items == Ids \cup {"chat"}
Statuses == {"none", "pending", "queued", "sent", "failed"}
Entry == [uid : 1..MaxUid, kind : Lifecycle \cup {"request", "chat"}, item : Items,
          tries : 0..MaxAttempts]
Packet == [to : Peers, kind : Lifecycle \cup {"request"}, item : Ids]
PeerState == [rows : SUBSET Ids, friends : SUBSET Ids, tomb : SUBSET Ids,
              status : [Items -> Statuses], outbox : Seq(Entry), chats : Nat]

Nothing == [uid |-> 0, kind |-> "none", item |-> "none", tries |-> 0]
Idle == [cur |-> Nothing, rest |-> <<>>, again |-> FALSE]
Uids(queue) == {queue[i].uid : i \in 1..Len(queue)}

----------------------------------------------------------------------------
(* native/state/store.ts: from a store to the next. *)

\* The entries at the positions ps, in their order.
PickedAt(queue, ps) ==
    [j \in 1..Cardinality(ps) |->
        queue[CHOOSE i \in ps : Cardinality({k \in ps : k <= i}) = j]]
Without(queue, uids) == PickedAt(queue, {i \in 1..Len(queue) : queue[i].uid \notin uids})
WithoutRequests(queue, ids) ==
    PickedAt(queue, {i \in 1..Len(queue) : ~(queue[i].kind = "request" /\ queue[i].item \in ids)})

\* setFriendRequestDeliveryStatus touches only a row that exists.
Mark(s, item, st) ==
    IF item = "chat" \/ item \in s.rows THEN [s EXCEPT !.status[item] = st] ELSE s

Drop(s, ids) ==
    [s EXCEPT !.rows = @ \ ids,
              !.status = [i \in Items |-> IF i \in ids THEN "none" ELSE @[i]]]
Bury(s, ids) == [Drop(s, ids) EXCEPT !.tomb = @ \cup ids]

IsLifecycle(e) == e.kind \in Lifecycle
\* enqueueOutbox: deduplicated, capped, lifecycle actions preferred.
Ordinary(queue) == {i \in 1..Len(queue) : ~IsLifecycle(queue[i])}
FirstOf(S) == CHOOSE i \in S : \A j \in S : i <= j
VictimOldest(queue, e) == queue[1]
Victim(queue, e) ==
    IF Ordinary(queue) # {} THEN queue[FirstOf(Ordinary(queue))]
    ELSE IF IsLifecycle(e) THEN queue[1] ELSE e
Enqueue(s, e) ==
    IF e.uid \in Uids(s.outbox) THEN s
    ELSE IF Len(s.outbox) < OutboxCap THEN [s EXCEPT !.outbox = Append(@, e)]
    ELSE LET v == Victim(s.outbox, e)
             t == [s EXCEPT !.outbox = IF v = e THEN @ ELSE Append(Without(@, {v.uid}), e)]
         IN  IF IsLifecycle(v) THEN t ELSE Mark(t, v.item, "failed")
\* The request whose lifecycle action a new one pushes out when the queue holds no other.
PushedOut(s, e) ==
    IF IsLifecycle(e) /\ Len(s.outbox) >= OutboxCap /\ Ordinary(s.outbox) = {}
    THEN {s.outbox[1].item} ELSE {}
RemoveOutbox(s, uid) == [s EXCEPT !.outbox = Without(@, {uid})]

\* pruneExpiredFriendRequests
Prune(s, ids) ==
    LET gone == s.rows \cap ids
    IN  [Bury(s, gone) EXCEPT !.outbox = WithoutRequests(@, gone)]

\* terminalizeFriendRequest; an outgoing request takes its queued copies along.
Terminalize(s, r, outgoing) ==
    IF outgoing THEN [Bury(s, {r}) EXCEPT !.outbox = WithoutRequests(@, {r})]
    ELSE Bury(s, {r})
\* acceptFriend and acceptFriendByRequestId
Befriend(s, r) == [Drop(s, {r}) EXCEPT !.friends = @ \cup {r}]

Outgoing(p, r) == from[r] = p
\* Who accepts, declines or cancels: the recipient, or the sender.
Actor(act) == IF act.kind = "cancel" THEN from[act.item] ELSE Other(from[act.item])
IsPendingOutgoing(p, r) == r \in peer[p].rows /\ Outgoing(p, r)
FreshUid(p) ==
    LET used == Uids(peer[p].outbox) \cup Uids(drain[p].rest) \cup {drain[p].cur.uid}
    IN  FirstOf((1..MaxUid) \ used)
NewEntry(p, kind, item) == [uid |-> FreshUid(p), kind |-> kind, item |-> item, tries |-> 0]

NoStore == [rows |-> {}, friends |-> {}, tomb |-> {}, status |-> [i \in Items |-> "none"],
            outbox |-> <<>>, chats |-> 0]
Init ==
    /\ world \in Worlds
    /\ peer = [p \in Peers |-> NoStore]
    /\ drain = [p \in Peers |-> Idle]
    /\ calls = [p \in Peers |-> {}]
    /\ net = {} /\ expired = {} /\ removals = 0 /\ restarts = 0 /\ acted = {} /\ cut = {}
    /\ from = [r \in Ids |-> "nobody"]
    /\ owed = [p \in Peers |-> {}]

----------------------------------------------------------------------------
(* deliverRecipientOperation: it may place the packet and say so, place it and
   not learn that it did, or fail. *)

Act(kind, r) == [kind |-> kind, item |-> r]
PacketOf(p, kind, r) == [to |-> Other(p), kind |-> kind, item |-> r]
Place(p, kind, r) ==
    net' \in (IF r \in world.flaky THEN {net} ELSE {}) \cup {net \cup {PacketOf(p, kind, r)}}
MayReport(p, kind, r, ok) ==
    IF ok THEN PacketOf(p, kind, r) \in net ELSE r \in world.flaky

Call(p, kind, r) ==
    /\ calls' = [calls EXCEPT ![p] = @ \cup {Act(kind, r)}]
    /\ Place(p, kind, r)
Returns(p, kind, r) ==
    /\ Act(kind, r) \in calls[p]
    /\ calls' = [calls EXCEPT ![p] = @ \ {Act(kind, r)}]
    /\ UNCHANGED net

\* An entry is owed until its turn comes or it leaves the queue.
Store(p, store) ==
    \E s \in {store} :
        /\ peer' = [peer EXCEPT ![p] = s]
        /\ owed' = [owed EXCEPT ![p] = @ \cap Uids(s.outbox)]

----------------------------------------------------------------------------
(* The users' operations (mutations.ts).  Each prunes first. *)

Pruned(p) == Prune(peer[p], expired)

\* nativeAddFriendRequest, up to its await.
AddRequest(p, r) ==
    LET s == Pruned(p)
    IN  /\ from[r] = "nobody" /\ r \notin expired
        /\ p \in world.creators /\ r \in world.ids /\ s.friends = {}
        /\ \A x \in s.rows : ~Outgoing(p, x)
        /\ from' = [from EXCEPT ![r] = p]
        /\ Store(p, [s EXCEPT !.rows = @ \cup {r}, !.status[r] = "pending"])
        /\ Call(p, "request", r)
        /\ UNCHANGED <<drain, expired, removals, restarts, acted, cut, world>>

\* nativeRetryFriendRequest: the same intent under the same id.
Retry(p, r) ==
    LET s == Pruned(p)
    IN  /\ r \in s.rows /\ Outgoing(p, r)
        /\ Act("request", r) \notin calls[p]
        /\ Store(p, s)
        /\ Call(p, "request", r)
        /\ UNCHANGED <<drain, from, expired, removals, restarts, acted, cut, world>>

\* deliverFriendRequest after its await.
HasQueued(s, r) == \E i \in 1..Len(s.outbox) : s.outbox[i].kind = "request" /\ s.outbox[i].item = r
Answered(p, r, ok) ==
    LET s == peer[p]
        t == Mark(s, r, IF ok THEN "sent" ELSE "queued")
    IN  IF ~IsPendingOutgoing(p, r) THEN s
        ELSE IF ok THEN [t EXCEPT !.outbox = WithoutRequests(@, {r})]
        ELSE IF HasQueued(s, r) THEN t
        ELSE Enqueue(t, NewEntry(p, "request", r))
RequestReturns(p, r, ok) ==
    /\ MayReport(p, "request", r, ok)
    /\ Returns(p, "request", r)
    /\ Store(p, Answered(p, r, ok))
    /\ UNCHANGED <<drain, from, expired, removals, restarts, acted, cut, world>>

\* nativeActOnFriendRequest: the local transition, then the packet.
Accept(p, r) ==
    LET s == Pruned(p)
    IN  /\ r \in s.rows /\ ~Outgoing(p, r)
        /\ Store(p, Befriend(s, r))
        /\ acted' = acted \cup {Act("accept", r)}
        /\ Call(p, "accept", r)
        /\ UNCHANGED <<drain, from, expired, removals, restarts, cut, world>>
End(p, r, kind) ==
    LET s == Pruned(p)
    IN  /\ r \in s.rows /\ Outgoing(p, r) = (kind = "cancel")
        /\ Store(p, Terminalize(s, r, kind = "cancel"))
        /\ acted' = acted \cup {Act(kind, r)}
        /\ Call(p, kind, r)
        /\ UNCHANGED <<drain, from, expired, removals, restarts, cut, world>>
Cancel(p, r) == End(p, r, "cancel")
Decline(p, r) == End(p, r, "decline")
\* A block is never sent.
Block(p, r) ==
    LET s == Pruned(p)
    IN  /\ r \in s.rows /\ ~Outgoing(p, r)
        /\ Store(p, Terminalize(s, r, FALSE))
        /\ UNCHANGED <<drain, calls, net, from, expired, removals, restarts, acted, cut, world>>

\* deliverFriendAction after its await.
ActionReturns(p, kind, r, ok) ==
    /\ kind \in Lifecycle
    /\ MayReport(p, kind, r, ok)
    /\ Returns(p, kind, r)
    /\ Store(p, IF ok THEN peer[p] ELSE Enqueue(peer[p], NewEntry(p, kind, r)))
    /\ cut' = cut \cup (IF ok THEN {} ELSE PushedOut(peer[p], NewEntry(p, kind, r)))
    /\ UNCHANGED <<drain, from, expired, removals, restarts, acted, world>>

\* nativeRemoveFriend drops the friend, or a row, of that id and leaves no tombstone.
RemoveFriend(p, r) ==
    /\ removals < world.removals /\ removals' = removals + 1
    /\ r \in peer[p].friends \cup peer[p].rows
    /\ Store(p, [Drop(peer[p], {r}) EXCEPT !.friends = @ \ {r}])
    /\ UNCHANGED <<drain, calls, net, from, expired, restarts, acted, cut, world>>

\* An ordinary message that could not be delivered: mutations.ts queues its envelope.
QueueChat(p) ==
    /\ peer[p].chats < world.chats
    /\ \A i \in 1..Len(peer[p].outbox) : peer[p].outbox[i].kind # "chat"
    /\ drain[p].cur.kind # "chat" /\ \A i \in 1..Len(drain[p].rest) : drain[p].rest[i].kind # "chat"
    /\ Store(p, Enqueue(Mark([peer[p] EXCEPT !.chats = @ + 1], "chat", "queued"),
                        NewEntry(p, "chat", "chat")))
    /\ UNCHANGED <<drain, calls, net, from, expired, removals, restarts, acted, cut, world>>

----------------------------------------------------------------------------
(* handleFriendOp of inbound.ts. *)

OnRequest(s, r) ==
    IF r \in s.tomb \/ s.friends # {} \/ s.rows # {} \/ r \in expired THEN s
    ELSE [s EXCEPT !.rows = @ \cup {r}]
OnAcceptOfAny(s, p, r) ==
    IF \E x \in s.rows : Outgoing(p, x) THEN Befriend(s, CHOOSE x \in s.rows : Outgoing(p, x)) ELSE s
OnAccept(s, p, r) == IF r \in s.rows /\ Outgoing(p, r) THEN Befriend(s, r) ELSE s
OnDecline(s, p, r) == IF r \in s.rows /\ Outgoing(p, r) THEN Terminalize(s, r, TRUE) ELSE s
OnCancelHasty(s, p, r) ==
    IF r \in s.rows /\ ~Outgoing(p, r) THEN Terminalize(s, r, FALSE) ELSE [s EXCEPT !.tomb = @ \cup {r}]
\* A cancel may come before its request: the id is buried in advance.
OnCancel(s, p, r) ==
    IF r \in s.rows /\ ~Outgoing(p, r) THEN Terminalize(s, r, FALSE)
    ELSE IF r \in s.rows \cup s.friends THEN s
    ELSE [s EXCEPT !.tomb = @ \cup {r}]

Receive(m) ==
    LET p == m.to
        r == m.item
        s == Pruned(p)
    IN  /\ m \in net
        /\ Store(p, CASE m.kind = "request" -> OnRequest(s, r)
                      [] m.kind = "accept" -> OnAccept(s, p, r)
                      [] m.kind = "decline" -> OnDecline(s, p, r)
                      [] m.kind = "cancel" -> OnCancel(s, p, r))
        /\ UNCHANGED <<drain, calls, net, from, expired, removals, restarts, acted, cut, world>>

----------------------------------------------------------------------------
(* nativeDrainOutbox and drainOutboxOnce. *)

\* Walk the snapshot to the next entry to deliver, dropping requests that are no
\* longer pending, unsent, on the way; nothing awaits in between.
Stale(p, s, e) == e.kind = "request" /\ ~(e.item \in s.rows /\ Outgoing(p, e.item))
Stop(p, s, queue) == FirstOf({i \in 1..Len(queue) : ~Stale(p, s, queue[i])} \cup {Len(queue) + 1})
WalkTo(stop, s, again, queue) ==
    [store |-> [s EXCEPT !.outbox = Without(@, Uids(SubSeq(queue, 1, stop - 1)))],
     pass  |-> [cur |-> IF stop > Len(queue) THEN Nothing ELSE queue[stop],
                rest |-> SubSeq(queue, stop + 1, Len(queue)), again |-> again]]
Walk(p, s, again, queue) == {WalkTo(stop, s, again, queue) : stop \in {Stop(p, s, queue)}}
Pass(p, store) == UNION {Walk(p, s, FALSE, s.outbox) : s \in {store}}
\* A drain requested meanwhile makes one more pass, over the queue as it is then.
OnwardsOnce(p, store) ==
    UNION {Walk(p, s, drain[p].again, drain[p].rest) : s \in {store}}
Onwards(p, store) ==
    UNION {IF w.pass.cur = Nothing /\ w.pass.again THEN Pass(p, Prune(w.store, expired))
           ELSE {w} : w \in UNION {Walk(p, s, drain[p].again, drain[p].rest) : s \in {store}}}

\* The walk w is taken, and the delivery of the entry it stopped at begins.
Proceed(p, walks, uids) ==
    \E w \in walks :
        /\ peer' = [peer EXCEPT ![p] = w.store]
        /\ drain' = [drain EXCEPT ![p] = w.pass]
        /\ owed' = [owed EXCEPT ![p] = (uids \cap Uids(w.store.outbox)) \ {w.pass.cur.uid}]
        /\ IF w.pass.cur.kind \in {"none", "chat"} THEN UNCHANGED net
           ELSE Place(p, w.pass.cur.kind, w.pass.cur.item)

\* A request while a pass runs is coalesced (a second one changes nothing more).
RequestDrain(p) ==
    /\ ~drain[p].again
    /\ IF drain[p].cur # Nothing
       THEN /\ drain' = [drain EXCEPT ![p].again = TRUE]
            /\ UNCHANGED <<peer, net>>
            /\ owed' = [owed EXCEPT ![p] = Uids(peer[p].outbox)]
       ELSE Proceed(p, Pass(p, Pruned(p)), 1..MaxUid)
    /\ UNCHANGED <<calls, from, expired, removals, restarts, acted, cut, world>>

\* Lifecycle actions are retained by age, which a request's own expiry bounds from below.
GivenUp(e) ==
    IF IsLifecycle(e) THEN e.item \in expired ELSE e.tries + 1 >= MaxAttempts
Handled(s, e, ok) ==
    LET t == RemoveOutbox(s, e.uid)
    IN  IF ok \/ GivenUp(e)
        THEN IF IsLifecycle(e) THEN t ELSE Mark(t, e.item, IF ok THEN "sent" ELSE "failed")
        ELSE Enqueue(t, [e EXCEPT !.tries = IF IsLifecycle(e) THEN @ ELSE @ + 1])
EntryReturns(p, ok) ==
    LET e == drain[p].cur
    IN  /\ e # Nothing
        /\ e.kind # "chat" => MayReport(p, e.kind, e.item, ok)
        /\ Proceed(p, Onwards(p, Handled(peer[p], e, ok)), owed[p])
        /\ cut' = cut \cup (IF ok \/ GivenUp(e) THEN {}
                            ELSE PushedOut(RemoveOutbox(peer[p], e.uid), e))
        /\ UNCHANGED <<calls, from, expired, removals, restarts, acted, world>>

----------------------------------------------------------------------------
(* Time and restarts. *)

Expire(r) ==
    /\ r \in world.mayExpire /\ from[r] # "nobody" /\ r \notin expired
    /\ expired' = expired \cup {r}
    /\ UNCHANGED <<peer, drain, calls, net, from, removals, restarts, owed, acted, cut, world>>

\* The store survives, what was awaited does not; startup prunes.
Restart(p) ==
    /\ restarts < world.restarts
    /\ restarts' = restarts + 1
    /\ cut' = cut \cup {c.item : c \in {d \in calls[p] : d.kind \in Lifecycle}}
    /\ drain' = [drain EXCEPT ![p] = Idle]
    /\ calls' = [calls EXCEPT ![p] = {}]
    /\ peer' = [peer EXCEPT ![p] = Pruned(p)]
    /\ owed' = [owed EXCEPT ![p] = {}]
    /\ UNCHANGED <<net, from, expired, removals, acted, world>>

UserStep ==
    \/ \E p \in Peers, r \in Ids :
         AddRequest(p, r) \/ Retry(p, r) \/ Accept(p, r) \/ Cancel(p, r) \/ Decline(p, r)
           \/ Block(p, r) \/ RemoveFriend(p, r)
    \/ \E p \in Peers : QueueChat(p)
CallStep ==
    \E p \in Peers, r \in Ids, ok \in BOOLEAN :
        RequestReturns(p, r, ok) \/ \E kind \in Lifecycle : ActionReturns(p, kind, r, ok)
DrainStep ==
    \E p \in Peers :
        RequestDrain(p) \/ \E ok \in BOOLEAN : EntryReturns(p, ok)
Next ==
    \/ UserStep \/ CallStep \/ DrainStep
    \/ \E m \in net : Receive(m)
    \/ \E r \in Ids : Expire(r)
    \/ \E p \in Peers : Restart(p)

Spec == Init /\ [][Next]_vars

----------------------------------------------------------------------------
(* Properties. *)

TypeOK ==
    /\ \A p \in Peers :
         /\ peer[p].rows \cup peer[p].friends \cup peer[p].tomb \subseteq Ids
         /\ peer[p].status \in [Items -> Statuses]
         /\ Len(peer[p].outbox) <= OutboxCap
         /\ \A i \in 1..Len(peer[p].outbox) : peer[p].outbox[i] \in Entry
         /\ \A c \in calls[p] : c.kind \in Lifecycle \cup {"request"} /\ c.item \in Ids
         /\ drain[p].cur \in Entry \cup {Nothing}
         /\ owed[p] \subseteq 1..MaxUid
    /\ net \subseteq Packet
    /\ from \in [Ids -> Peers \cup {"nobody"}]
    /\ expired \cup cut \subseteq Ids
    /\ \A act \in acted : act.kind \in Lifecycle /\ act.item \in Ids

\* A request that was cancelled, declined, blocked or has expired at a peer neither
\* comes back there nor turns into a friendship, however late a copy of the request
\* or of an answer to it arrives.
TombstonesAreFinal ==
    \A p \in Peers : peer[p].tomb \cap (peer[p].rows \cup peer[p].friends) = {}

\* "Only the action's original request id is accepted": a sender holds a friend under
\* a request only if its recipient accepted that very request.
FriendsByConsent ==
    \A p \in Peers : \A r \in peer[p].friends : Act("accept", r) \in acted

\* "so nothing queued during a drain waits for the next heartbeat": when no pass runs,
\* every entry that was queued when a drain was last requested has been examined.
RequestsAreHonoured == \A p \in Peers : drain[p].cur = Nothing => owed[p] = {}

\* "so it cannot be replayed after the user saw "sent"" (deliverFriendRequest): no
\* drain delivers a queued copy of a request whose status is sent.
NotReplayedAfterSent ==
    [][\A p \in Peers :
        drain'[p].cur # drain[p].cur /\ drain'[p].cur.kind = "request"
            => peer[p].status[drain'[p].cur.item] # "sent"]_vars

\* What the durable queue promises, whatever retries, drains, evictions, cancellations
\* and restarts overlap.  "This is what makes the "queued" delivery state honest": what is
\* shown as queued is in it.  And "deliver the authenticated lifecycle action durably": while
\* the other side still has the row an accept, decline or cancel must remove, its packet is
\* on its way, its first delivery is awaited, or it is in the queue, which ordinary traffic
\* cannot push it out of and no number of failures ends.  Only a restart during that await
\* loses it, or another such action when the queue is full of them.
PromisesAreBacked ==
    /\ \A p \in Peers, x \in Items :
         peer[p].status[x] = "queued" => \E i \in 1..Len(peer[p].outbox) :
             peer[p].outbox[i].item = x /\ ~IsLifecycle(peer[p].outbox[i])
    /\ \A act \in acted :
         LET p == Actor(act) IN
         act.item \in peer[Other(p)].rows =>
             \/ PacketOf(p, act.kind, act.item) \in net
             \/ act \in calls[p]
             \/ \E i \in 1..Len(peer[p].outbox) :
                   peer[p].outbox[i].kind = act.kind /\ peer[p].outbox[i].item = act.item
             \/ act.item \in expired \cup cut
=============================================================================
