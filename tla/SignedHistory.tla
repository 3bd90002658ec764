---------------------------- MODULE SignedHistory ----------------------------
(***************************************************************************)
(* The signed history of one channel: its messages, their edits and        *)
(* deletions as author-signed revisions, and how clients get them (live,   *)
(* from the owner's re-pulled record, and by pages put together from       *)
(* several members and a storage node).  native/sync/signedHistory.ts,     *)
(* swarmHistory.ts, replica.ts, handleChat* and the history operations of  *)
(* inbound.ts, mergeHistoryMessages of store.ts, pullOlderHistory and      *)
(* repairHistoryReplicas of engine.ts.                                     *)
(*                                                                         *)
(* Messages are numbered in the order of creation.  Signatures are ideal:  *)
(* a copy is a version its author made, or it is refused.  Providers are   *)
(* honest but behind: each serves what it has.                             *)
(***************************************************************************)
EXTENDS Naturals, FiniteSets, FiniteSetsExt

CONSTANTS
    Clients,      \* devices of the members of the space
    Owner,        \* the owner's
    Node,         \* a storage node
    MaxMsgs,      \* bound: messages
    MaxRev,       \* bound: revisions of a message
    PageLimit,    \* messages per page
    Worlds        \* what may happen: see World

\* The members from the start, those that may join later, the devices that write
\* (several: one identity restored on another device), those that page and reload,
\* whether the storage node is there, how much history a new member may read, and
\* bounds on what happens.
World == [founders : SUBSET Clients, joiners : SUBSET Clients, writers : SUBSET Clients,
          readers : SUBSET Clients, node : BOOLEAN, window : 0..MaxMsgs, msgs : 0..MaxMsgs, revs : 0..MaxRev,
          pages : Nat, reloads : Nat]

ASSUME OwnerIsAClient == Owner \in Clients /\ Node \notin Clients
ASSUME Sizes == MaxMsgs \in Nat /\ MaxRev \in Nat /\ PageLimit \in Nat \ {0}
ASSUME WorldsOK == Worlds \subseteq {w \in World : Owner \in w.founders}

VARIABLES
    world,    \* the world of this behaviour; it never changes
    posted,   \* messages created so far
    held,     \* held[c][i]: the version of message i in c's store
    net,      \* live packets on their way; one may stay there for ever
    node,     \* replicas at the storage node
    roster,   \* roster[c]: what c's server record says
    page,     \* page[c]: a page being put together
    pages, reloads,
    forgot,   \* messages a client had and lost by a reload
    exposed   \* messages signed or encrypted anew in disregard of a joiner's boundary

bounds == <<pages, reloads>>
vars == <<world, posted, held, net, node, roster, page, bounds, forgot, exposed>>

Ids == 1..MaxMsgs
Stamp == [rev : 0..MaxRev, by : Clients]
\* A signed version: revision and device, the stamp of its body, whether deleted.
Version == [rev : 0..MaxRev, by : Clients, body : Stamp, gone : BOOLEAN]
None == [rev |-> 0, by |-> Node, body |-> [rev |-> 0, by |-> Node], gone |-> FALSE]
Packet == [to : Clients, kind : {"send", "edit", "delete"}, id : Ids, ver : Version, epoch : Nat]
Replica == [id : Ids, ver : Version, epoch : Nat]
Claim == [by : Clients \cup {Node}, id : Ids, rev : 0..MaxRev]
Ask == [by : Clients \cup {Node}, id : Ids]
Copy == [by : Clients \cup {Node}, id : Ids, ver : Version]

Held(c) == {i \in Ids : held[c][i] # None}
Newest(k, ids) == {i \in ids : Cardinality({j \in ids : j > i}) < k}

\* A record of the space: its members, from which message on each reads (0 if the
\* record does not say), and the epochs whose keys the client has.
NotIn == [knows |-> {}, since |-> [c \in Clients |-> 0], keys |-> {}]
Founding(w) == [knows |-> w.founders, keys |-> {0},
                since |-> [c \in Clients |-> IF c \in w.founders \ {Owner} THEN 1 ELSE 0]]
Epoch(c) == Max(roster[c].keys)
IsMember(c) == roster[c] # NotIn

NoPage == [phase |-> "idle", before |-> 1, claims |-> {}, asked |-> {}, tried |-> {}, got |-> {},
           answered |-> FALSE]

Init ==
    /\ world \in Worlds
    /\ posted = 0 /\ net = {} /\ node = {}
    /\ held = [c \in Clients |-> [i \in Ids |-> None]]
    /\ roster = [c \in Clients |-> IF c \in world.founders THEN Founding(world) ELSE NotIn]
    /\ page = [c \in Clients |-> NoPage]
    /\ pages = 0 /\ reloads = 0
    /\ forgot = [c \in Clients |-> {}] /\ exposed = {}

----------------------------------------------------------------------------
(* The author: nativeSendChannelMessage, nativeEditMessage, nativeDeleteMessage. *)

First(w) == [rev |-> 0, by |-> w, body |-> [rev |-> 0, by |-> w], gone |-> FALSE]
Edited(w, v) == [rev |-> v.rev + 1, by |-> w, body |-> [rev |-> v.rev + 1, by |-> w], gone |-> v.gone]
Deleted(w, v) == [v EXCEPT !.rev = @ + 1, !.by = w, !.gone = TRUE]

\* A joiner whose boundary lies after i.
Bars(i) == \E x \in Clients : roster[Owner].since[x] > i
\* The new version is stored, put on its way to the members, and replicated.
Issue(w, i, kind, v) ==
    /\ held' = [held EXCEPT ![w][i] = v]
    /\ net' = net \cup {[to |-> c, kind |-> kind, id |-> i, ver |-> v, epoch |-> Epoch(w)] :
                          c \in roster[w].knows \ {w}}
    /\ node' \in {node} \cup (IF world.node THEN {node \cup {[id |-> i, ver |-> v, epoch |-> Epoch(w)]}}
                              ELSE {})
    /\ UNCHANGED <<world, roster, page, bounds, forgot>>

Post(w) ==
    /\ w \in world.writers /\ IsMember(w) /\ posted < world.msgs
    /\ posted' = posted + 1
    /\ Issue(w, posted + 1, "send", First(w))
    /\ UNCHANGED exposed
Revise(w, i, kind, v) ==
    /\ w \in world.writers /\ i \in Held(w) /\ held[w][i].rev < world.revs
    /\ Issue(w, i, kind, v)
    /\ exposed' = IF Bars(i) THEN exposed \cup {i} ELSE exposed
    /\ UNCHANGED posted
EditMessage(w, i) == Revise(w, i, "edit", Edited(w, held[w][i]))
DeleteMessage(w, i) == Revise(w, i, "delete", Deleted(w, held[w][i]))

----------------------------------------------------------------------------
(* Live packets: handleChatSend, handleChatEdit, handleChatDelete. *)

\* What the client puts together from the copy it has and the packet; the author's
\* signature must cover exactly that.
Patched(h, k) ==
    IF k.kind = "edit" THEN [h EXCEPT !.rev = k.ver.rev, !.by = k.ver.by, !.body = k.ver.body]
    ELSE [h EXCEPT !.rev = k.ver.rev, !.by = k.ver.by, !.gone = TRUE]
AppliesAnyRevision(h, k) == h # None /\ Patched(h, k) = k.ver
Applies(h, k) == h # None /\ k.ver.rev > h.rev /\ Patched(h, k) = k.ver

\* A send under an epoch to come waits; an edit of one is lost, as any packet may be.
Receive(k) ==
    LET h == held[k.to][k.id]
    IN  /\ k \in net
        /\ k.kind # "delete" => k.epoch \in roster[k.to].keys
        /\ net' = net \ {k}
        /\ held' = IF (k.kind = "send" /\ h = None) \/ (k.kind # "send" /\ Applies(h, k))
                   THEN [held EXCEPT ![k.to][k.id] = k.ver] ELSE held
        /\ UNCHANGED <<world, posted, node, roster, page, bounds, forgot, exposed>>

----------------------------------------------------------------------------
(* What a member serves: sync.coverage, sync.fetch, sync.pull. *)

ReadableLenient(p, c) ==
    LET s == roster[p].since[c]
    IN  IF s = 0 THEN Held(p) ELSE {i \in Held(p) : i >= s} \cup Newest(world.window, {i \in Held(p) : i < s})
\* The part of p's history c may read: all, if c is the owner; from its boundary on,
\* and a window before it; without a boundary, the owner serves all, a member the window.
Readable(p, c) ==
    LET s == roster[p].since[c]
    IN  IF c = Owner THEN Held(p)
        ELSE IF s = 0 THEN IF p = Owner THEN Held(p) ELSE Newest(world.window, Held(p))
        ELSE {i \in Held(p) : i >= s} \cup Newest(world.window, {i \in Held(p) : i < s})

Serves(p, c) == c \in roster[p].knows

\* applyJoinedServer: the answer's messages are added where none is held.
Added(h, ids, p) == [i \in Ids |-> IF h[i] = None /\ i \in ids THEN held[p][i] ELSE h[i]]

\* sync.join answered by the owner: the newcomer starts after what was posted, under a
\* new epoch; the others learn of it by an update, without its boundary.
Join(c) ==
    LET own == roster[Owner]
        fresh == Epoch(Owner) + 1
        r == [knows |-> own.knows \cup {c}, since |-> [own.since EXCEPT ![c] = posted + 1],
              keys |-> own.keys \cup {fresh}]
    IN  /\ c \in world.joiners /\ ~IsMember(c)
        /\ roster' = [roster EXCEPT ![Owner] = r, ![c] = [r EXCEPT !.keys = {fresh}]]
        /\ held' = [held EXCEPT ![c] = Added(@, Newest(world.window, Held(Owner)), Owner)]
        /\ UNCHANGED <<world, posted, net, node, page, bounds, forgot, exposed>>
LearnJoin(c) ==
    /\ IsMember(c) /\ roster[c].knows # roster[Owner].knows
    /\ roster' = [roster EXCEPT ![c].knows = roster[Owner].knows, ![c].keys = @ \cup {Epoch(Owner)}]
    /\ UNCHANGED <<world, posted, held, net, node, page, bounds, forgot, exposed>>

\* reconcileJoinedServers: the owner's whole record, and the messages c lacks.
Repull(c) ==
    /\ c # Owner /\ IsMember(c)
    /\ roster' = [roster EXCEPT ![c].knows = roster[Owner].knows, ![c].since = roster[Owner].since,
                                ![c].keys = @ \cup {Epoch(Owner)}]
    /\ held' = [held EXCEPT ![c] = Added(@, Readable(Owner, c), Owner)]
    /\ UNCHANGED <<world, posted, net, node, page, bounds, forgot, exposed>>

----------------------------------------------------------------------------
(* Replicas: repairHistoryReplicas, encryptHistoryReplica, decryptHistoryReplica. *)

\* What c encrypts anew: all, or what the newest member it knows a boundary of may read.
Eligible(c) ==
    LET known == {roster[c].since[x] : x \in roster[c].knows} \ {0}
    IN  IF known = {} THEN Held(c)
        ELSE {i \in Held(c) : i >= Max(known)} \cup Newest(world.window, {i \in Held(c) : i < Max(known)})
Repair(c, i) ==
    LET r == [id |-> i, ver |-> held[c][i], epoch |-> Epoch(c)]
    IN  /\ world.node /\ IsMember(c) /\ i \in Eligible(c) /\ r \notin node
        /\ node' = node \cup {r}
        /\ exposed' = IF Bars(i) /\ \E x \in roster[c].knows : roster[c].since[x] # roster[Owner].since[x]
                      THEN exposed \cup {i} ELSE exposed
        /\ UNCHANGED <<world, posted, held, net, roster, page, bounds, forgot>>

----------------------------------------------------------------------------
(* A page: pullOlderHistory and fetchSwarmHistoryPage. *)

Holders(c) == (roster[c].knows \ {c}) \cup (IF world.node THEN {Node} ELSE {})
Older(c) == IF Held(c) = {} THEN MaxMsgs + 1 ELSE Min(Held(c))
\* The inventories p may answer with: its newest page before the cursor; the node may
\* go by any replica of a message.
Inventories(p, c, before) ==
    IF p = Node
    THEN LET ids == Newest(PageLimit, {r.id : r \in {s \in node : s.id < before}})
         IN  {inv \in SUBSET {[by |-> Node, id |-> r.id, rev |-> r.ver.rev] : r \in node} :
                 /\ {k.id : k \in inv} = ids
                 /\ \A k, l \in inv : k.id = l.id => k = l}
    ELSE {{[by |-> p, id |-> i, rev |-> held[p][i].rev] :
             i \in IF Serves(p, c) THEN Newest(PageLimit, {j \in Readable(p, c) : j < before}) ELSE {}}}

Advertised(q, i) == Max({k.rev : k \in {l \in q.claims : l.id = i}})
\* Holders that claim the advertised revision; nodes come before members.
Full(q, i) == {k.by : k \in {l \in q.claims : l.id = i /\ l.rev = Advertised(q, i)}}
Tier(q, i) == IF Node \in Full(q, i) THEN {Node} ELSE Full(q, i)
Wanted(q) == Newest(PageLimit, {k.id : k \in q.claims})

\* Coverage of those that answer, and an assignment of what is wanted.
FirstRound(c, answering, inv) ==
    [NoPage EXCEPT !.phase = "first", !.before = Older(c), !.answered = answering # {},
                   !.claims = inv \cup UNION {UNION Inventories(p, c, Older(c)) : p \in answering \ {Node}}]
Assigned(q, pick) == [q EXCEPT !.asked = {[by |-> pick[i], id |-> i] : i \in Wanted(q)}]
StartPage(c) ==
    /\ pages < world.pages /\ pages' = pages + 1
    /\ c \in world.readers /\ IsMember(c) /\ page[c] = NoPage
    /\ \E answering \in SUBSET Holders(c) :
       \E inv \in (IF Node \in answering THEN Inventories(Node, c, Older(c)) ELSE {{}}) :
         \E q \in {FirstRound(c, answering, inv)} : \E pick \in [Wanted(q) -> Holders(c)] :
             /\ \A i \in Wanted(q) : pick[i] \in Tier(q, i)
             /\ page' = [page EXCEPT ![c] = Assigned(q, pick)]
    /\ UNCHANGED <<world, posted, held, net, node, roster, reloads, forgot, exposed>>

\* The copies of i that p may return to c now, if any: the node's replicas are
\* decrypted with the keys c has.
Copies(p, c, i) ==
    IF p = Node THEN {r.ver : r \in {s \in node : s.id = i /\ s.epoch \in roster[c].keys}}
    ELSE IF Serves(p, c) /\ i \in Readable(p, c) THEN {held[p][i]} ELSE {}

AcceptableAny(q, i, v) == TRUE
\* acceptBatch: a copy older than advertised is refused.
Acceptable(q, i, v) == v.rev >= Advertised(q, i)
\* The first of equal revisions stays.
Accepted(q, p, i, v) ==
    IF ~Acceptable(q, i, v) THEN q.got
    ELSE LET prior == {x \in q.got : x.id = i}
         IN  IF \E x \in prior : x.ver.rev >= v.rev THEN q.got
             ELSE (q.got \ prior) \cup {[by |-> p, id |-> i, ver |-> v]}

\* A request for what was assigned to p is answered, one message after the other, or fails.
Fetch(c, a) ==
    LET q == page[c]
        rest == [q EXCEPT !.asked = @ \ {a}, !.tried = @ \cup {a}]
    IN  /\ a \in q.asked
        /\ \/ page' = [page EXCEPT ![c] = rest]
           \/ \E v \in Copies(a.by, c, a.id) :
                page' = [page EXCEPT ![c] = [rest EXCEPT !.got = Accepted(q, a.by, a.id, v)]]
        /\ UNCHANGED <<world, posted, held, net, node, roster, bounds, forgot, exposed>>

\* What is unresolved is asked of one other holder that claims the revision.
Retry(c) ==
    LET q == page[c]
        others(i) == {p \in Full(q, i) : [by |-> p, id |-> i] \notin q.tried}
        open == {i \in Wanted(q) : others(i) # {} /\ \A x \in q.got : x.id # i}
    IN  /\ q.phase = "first" /\ q.asked = {}
        /\ \E pick \in [open -> Holders(c)] :
             /\ \A i \in open : pick[i] \in others(i)
             /\ page' = [page EXCEPT ![c] = [q EXCEPT !.phase = "retry",
                                                !.asked = {[by |-> pick[i], id |-> i] : i \in open}]]
        /\ UNCHANGED <<world, posted, held, net, node, roster, bounds, forgot, exposed>>

\* Now and then one record is compared with two other holders' copies: a higher
\* revision is taken, another content at the same revision only reported.
Audit(c, x) ==
    LET q == page[c]
        others == {k.by : k \in {l \in q.claims : l.id = x.id}} \ {x.by}
    IN  /\ q.phase = "retry" /\ q.asked = {} /\ x \in q.got
        /\ \E p \in others : \E v \in Copies(p, c, x.id) :
             /\ v.rev > x.ver.rev
             /\ page' = [page EXCEPT ![c] = [q EXCEPT !.phase = "audited",
                            !.got = (@ \ {x}) \cup {[by |-> p, id |-> x.id, ver |-> v]}]]
        /\ UNCHANGED <<world, posted, held, net, node, roster, bounds, forgot, exposed>>

\* mergeHistoryMessages: only a higher revision replaces what is held.
Merged(h, v) == IF h = None \/ v.rev > h.rev THEN v ELSE h
MergedWith(c, copies) ==
    [i \in Ids |-> IF \E x \in copies : x.id = i
                   THEN Merged(held[c][i], (CHOOSE x \in copies : x.id = i).ver) ELSE held[c][i]]

Merge(c) ==
    LET q == page[c]
    IN  /\ q.phase \in {"retry", "audited"} /\ q.asked = {}
        /\ held' = [held EXCEPT ![c] = MergedWith(c, q.got)]
        /\ page' = [page EXCEPT ![c] = NoPage]
        /\ UNCHANGED <<world, posted, net, node, roster, bounds, forgot, exposed>>
\* If nobody answered, or nothing advertised came, the owner is asked the old way.
MergeFromOwner(c) ==
    LET q == page[c]
        ids == Newest(PageLimit, {i \in Readable(Owner, c) : i < q.before})
    IN  /\ q.phase = "retry" /\ q.asked = {} /\ q.got = {}
        /\ ~(q.answered /\ q.claims = {})
        /\ c # Owner /\ Serves(Owner, c)
        /\ held' = [held EXCEPT ![c] = MergedWith(c, {[by |-> Owner, id |-> i, ver |-> held[Owner][i]] : i \in ids})]
        /\ page' = [page EXCEPT ![c] = NoPage]
        /\ UNCHANGED <<world, posted, net, node, roster, bounds, forgot, exposed>>

\* The disk has the most recent messages only: a reload forgets those up to i.
Reload(c, i) ==
    LET lost == {j \in Held(c) : j <= i}
    IN  /\ reloads < world.reloads /\ reloads' = reloads + 1
        /\ c \in world.readers /\ lost # {}
        /\ held' = [held EXCEPT ![c] = [j \in Ids |-> IF j \in lost THEN None ELSE @[j]]]
        /\ forgot' = [forgot EXCEPT ![c] = @ \cup lost]
        /\ page' = [page EXCEPT ![c] = NoPage]
        /\ UNCHANGED <<world, posted, net, node, roster, pages, exposed>>

Next ==
    \/ \E c \in Clients : Post(c) \/ Join(c) \/ LearnJoin(c) \/ Repull(c)
    \/ \E c \in Clients, i \in Ids : EditMessage(c, i) \/ DeleteMessage(c, i) \/ Repair(c, i) \/ Reload(c, i)
    \/ \E k \in net : Receive(k)
    \/ \E c \in Clients :
         \/ StartPage(c) \/ Retry(c) \/ Merge(c) \/ MergeFromOwner(c)
         \/ \E a \in page[c].asked : Fetch(c, a)
         \/ \E x \in page[c].got : Audit(c, x)

Spec == Init /\ [][Next]_vars

----------------------------------------------------------------------------
(* Properties. *)

TypeOK ==
    /\ posted \in 0..MaxMsgs
    /\ \A c \in Clients :
         /\ \A i \in Ids : held[c][i] \in Version \cup {None}
         /\ roster[c].knows \subseteq Clients /\ roster[c].keys \subseteq Nat
         /\ page[c].phase \in {"idle", "first", "retry", "audited"}
         /\ page[c].claims \subseteq Claim /\ page[c].got \subseteq Copy
         /\ page[c].asked \cup page[c].tried \subseteq Ask
    /\ net \subseteq Packet /\ node \subseteq Replica

\* One device writes, and has the history of what it wrote.
SolelyBy(w, i) == world.writers = {w} /\ i \notin forgot[w]

\* However live packets, pages, re-pulls and two devices of one author interleave, a
\* stored message is only ever replaced by a strictly higher revision of its author:
\* two contents signed at one revision never overwrite each other.  What an author
\* with one device deleted stays deleted wherever the deletion arrived, also when older
\* copies come back from holders that missed it, unless that device itself forgot the
\* message and revised an older copy of it.
VersionsOnlyAdvance ==
    [][\A c \in Clients, i \in Ids :
        held[c][i] # None =>
            /\ \/ held'[c][i] = held[c][i]
               \/ held'[c][i].rev > held[c][i].rev
               \/ held'[c][i] = None /\ i \in forgot'[c]
            /\ held[c][i].gone /\ held'[c][i] # None /\ (\E w \in Clients : SolelyBy(w, i))
                 => held'[c][i].gone]_vars

\* "Do not let that stale response suppress retrying another holder": a page never
\* settles for a revision below what some provider advertised for it.
PageIsCurrent ==
    \A c \in Clients : \A x \in page[c].got : x.ver.rev >= Advertised(page[c], x.id)

\* What c holds from before its boundary that was not signed or encrypted anew since.
Unearned(c) == {i \in Held(c) : i < roster[Owner].since[c]} \ exposed

\* "A member gets at most join_history_messages (default 0) of pre-join history": by
\* default a joiner holds no message from before its boundary, whoever served it, unless
\* the message was signed or encrypted anew for all after the join.
JoinBoundary == world.window = 0 => \A c \in Clients : Unearned(c) = {}

\* The same where the window is not 0.  Refuted: each member counts the window in the
\* history it has itself, and with gaps in it several serve more.
AtMostTheWindow == \A c \in Clients : Cardinality(Unearned(c)) <= world.window

\* "Re-encrypt only the pre-join window the newest member is entitled to": the same
\* without the exception.
JoinersReadTheirWindow ==
    \A c \in Clients : \A i \in Held(c) : i + world.window >= roster[Owner].since[c]

\* "broadcast the signed deletion tombstone so a history provider cannot resurrect an
\* older local copy once a recipient has observed this revision": a deletion that
\* reaches a member with an older copy of the message is applied.
TombstonesApply ==
    \A k \in net :
        (k.kind = "delete" /\ held[k.to][k.id] # None /\ k.ver.rev > held[k.to][k.id].rev)
            => Applies(held[k.to][k.id], k)
=============================================================================
