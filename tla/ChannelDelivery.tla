-------------------------- MODULE ChannelDelivery --------------------------
(***************************************************************************)
(* One member's side of a space's channel traffic (native/sync/inbound.ts, *)
(* native/sync/secureEnvelope.ts, reconcileJoinedServers of                *)
(* native/engine/engine.ts).  The owner's structural updates and the       *)
(* members' messages travel on separate streams, so a message sealed under *)
(* a new epoch can arrive before the root that opens it; the client holds  *)
(* it in a bounded buffer and replays it once the root is installed.       *)
(*                                                                         *)
(* log is the owner's history: log[r] is the record it broadcast as        *)
(* revision r.  There is one root per epoch here, so an epoch stands for   *)
(* its root; competing owner decisions are the subject of SpaceSync.       *)
(***************************************************************************)
EXTENDS ChannelCrypto, FiniteSets

CONSTANTS
    Owner, Me, Others,   \* the owner, the modelled member, the other members
    TreeMax,             \* TREE_MAX_MEMBERS: above it a Tree space becomes Crowd
    TreeReentry,         \* TREE_REENTRY_MEMBERS: at or below it Crowd may become Tree
    MaxBuffered,         \* MAX_FUTURE_EPOCH_BUFFERED
    MaxRev,              \* bound: revisions the owner broadcasts
    MaxSends             \* bound: messages sent

ASSUME PeersDiffer == Owner # Me /\ {Owner, Me} \cap Others = {}
ASSUME BoundsAreNat == TreeMax \in Nat /\ TreeReentry \in 0..TreeMax /\ MaxBuffered \in Nat

Peers == {Owner, Me} \cup Others

VARIABLES
    log,       \* what the owner broadcast, one record per revision
    held,      \* held[p]: the revision another member p acts on, 0 for none
    sent,      \* every chat.send envelope put on the wire
    rec,       \* my stored server record
    live,      \* my ChannelCrypto
    buffer,    \* my FUTURE_EPOCH_BUFFER
    store,     \* ids of the messages I stored
    reply,     \* my outstanding re-pull of the owner's record
    heard,     \* ids that reached me from an author my record lists
    unheard,   \* ids that reached me from an author it does not list (yet)
    evicted,   \* ids pushed out of the full buffer
    keyed      \* epochs installed in live since I started

vars == <<log, held, sent, rec, live, buffer, store, reply, heard, unheard, evicted, keyed>>
myVars == <<rec, live, buffer, store, reply, heard, unheard, evicted, keyed>>

Rev == 1..Len(log)
Latest == log[Len(log)]
Stored(r) == [rev |-> r, epoch |-> log[r].epoch, mode |-> log[r].mode,
              members |-> log[r].members]
NoReply == [prior |-> -1, rev |-> -1]
Ids(entries) == {entries[i].id : i \in 1..Len(entries)}

----------------------------------------------------------------------------
(* What the handlers compute. *)

\* selectChannelSecurityMode, with its hysteresis.
SelectMode(count, current) ==
    IF count > (IF current = "tree" THEN TreeMax ELSE TreeReentry) THEN "crowd" ELSE "tree"
\* rotateChannelEpoch: a fresh root, and Crowd is never left again.
Rotated(members) ==
    [epoch |-> Latest.epoch + 1, members |-> members,
     mode |-> IF Latest.mode = "crowd" THEN "crowd" ELSE SelectMode(Cardinality(members), "tree")]

Wire(m) == [mode |-> m.mode, epoch |-> m.epoch, root |-> m.epoch]
SeedChannelRoot(group, r) == SetRoot(group, r.epoch, r.epoch, r.mode)

\* channelEnvelopeModeAllowed judges by the stored record, decrypt by live.
ModeAllowed(m, r) ==
    m.mode = r.mode \/ (r.epoch > 0 /\ m.epoch = r.epoch - 1)
Decodes(m, r, group) == ModeAllowed(m, r) /\ OpensAs(SeedChannelRoot(group, r), m.mode, Wire(m))
Seeded(m, r, group) == IF ModeAllowed(m, r) THEN SeedChannelRoot(group, r) ELSE group

\* bufferFutureEpochChannelMessage: only for a listed author and a future epoch.
WorthHolding(m, r) == m.from \in r.members /\ m.epoch > r.epoch

Push(entries, m) ==
    LET all == Append(entries, m)
    IN  SubSeq(all, 1 + (IF Len(all) > MaxBuffered THEN Len(all) - MaxBuffered ELSE 0), Len(all))

Ready(entries, r) == {i \in 1..Len(entries) : entries[i].epoch <= r.epoch}
\* The entries at the positions ps, in their order.
PickedAt(entries, ps) ==
    [j \in 1..Cardinality(ps) |->
        entries[CHOOSE i \in ps : Cardinality({k \in ps : k <= i}) = j]]
RemainingNone(entries, r) == <<>>
Remaining(entries, r) == PickedAt(entries, (1..Len(entries)) \ Ready(entries, r))

\* replayBufferedChannelMessages hands each ready entry to handleChatSend again.
Replayed(entries, r, group) ==
    {entries[i].id : i \in {j \in Ready(entries, r) :
        entries[j].from \in r.members /\ Decodes(entries[j], r, group)}}

Init ==
    /\ \E early \in SUBSET Others :
         /\ log = <<[epoch |-> 0, members |-> {Owner, Me} \cup early,
                     mode |-> SelectMode(2 + Cardinality(early), "tree")]>>
         /\ held = [p \in Others |-> IF p \in early THEN 1 ELSE 0]
    /\ sent = {}
    /\ rec = Stored(1)
    /\ live = NoGroup
    /\ buffer = <<>>
    /\ store = {}
    /\ reply = NoReply
    /\ heard = {} /\ unheard = {} /\ evicted = {} /\ keyed = {}

----------------------------------------------------------------------------
(* The owner and the other members. *)

Broadcast(record) ==
    /\ Len(log) < MaxRev
    /\ log' = Append(log, record)
    /\ UNCHANGED <<sent, myVars>>

\* sync.join at the owner: add the joiner, rotate, broadcast; the joiner gets the
\* new record in the same response.
Admit(p) ==
    /\ p \notin Latest.members
    /\ Broadcast(Rotated(Latest.members \cup {p}))
    /\ held' = [held EXCEPT ![p] = Len(log')]

\* nativeRemoveMember, or sync.leave at the owner: the one dropped is not told here.
Drop(p) ==
    /\ p \in Latest.members
    /\ Broadcast(Rotated(Latest.members \ {p}))
    /\ UNCHANGED held

\* A structural edit: a new revision under the same epoch.
Edit == Broadcast(Latest) /\ UNCHANGED held

\* Another member applies one of the updates addressed to it, skipping any.
Hears(p) ==
    /\ held[p] > 0
    /\ \E r \in Rev : r > held[p] /\ p \in log[r].members /\ held' = [held EXCEPT ![p] = r]
    /\ UNCHANGED <<log, sent, myVars>>

\* nativeSendChannelMessage of the owner or of a member, under the epoch it holds.
Send(p) ==
    /\ Cardinality(sent) < MaxSends
    /\ p # Owner => held[p] > 0
    /\ LET r == IF p = Owner THEN Latest ELSE log[held[p]]
       IN  sent' = sent \cup {[id |-> Cardinality(sent) + 1, from |-> p,
                               mode |-> r.mode, epoch |-> r.epoch]}
    /\ UNCHANGED <<log, held, myVars>>

----------------------------------------------------------------------------
(* My handlers. *)

\* applyChannelRoot, then replayBufferedChannelMessages, under the record r.
InstallRoot(r) ==
    /\ live' = SeedChannelRoot(live, r)
    /\ store' = store \cup Replayed(buffer, r, live')
    /\ buffer' = Remaining(buffer, r)
    /\ keyed' = keyed \cup {live'.epoch}

\* sync.update's revision gate.
Fresh(r) == r > rec.rev

\* sync.update from the owner: any update addressed to me, late or early.
ReceiveUpdate(r) ==
    /\ r \in Rev /\ Me \in log[r].members /\ Fresh(r)
    /\ rec' = Stored(r)
    /\ InstallRoot(Stored(r))
    /\ UNCHANGED <<log, held, sent, reply, heard, unheard, evicted>>

\* handleChatSend: decode and store, or hold a future epoch, or drop.
ReceiveChat(m) ==
    LET listed == m.from \in rec.members
        decoded == Decodes(m, rec, live)
        hold == ~decoded /\ WorthHolding(m, rec) /\ m.id \notin Ids(buffer)
    IN  /\ live' = Seeded(m, rec, live)
        /\ store' = IF decoded /\ listed THEN store \cup {m.id} ELSE store
        /\ buffer' = IF hold THEN Push(buffer, m) ELSE buffer
        /\ evicted' = evicted \cup
               (IF hold THEN (Ids(buffer) \cup {m.id}) \ Ids(buffer') ELSE {})
        /\ heard' = IF listed THEN heard \cup {m.id} ELSE heard
        /\ unheard' = IF listed THEN unheard ELSE unheard \cup {m.id}
        /\ keyed' = keyed \cup ({live'.epoch} \ {-1})
        /\ UNCHANGED <<log, held, sent, rec, reply>>

\* reconcileJoinedServers remembers the epoch it had before it awaits the owner.
Ask ==
    /\ reply = NoReply
    /\ reply' = [prior |-> rec.epoch, rev |-> 0]
    /\ UNCHANGED <<log, held, sent, rec, live, buffer, store, heard, unheard, evicted, keyed>>

Answer ==
    /\ reply.rev = 0
    /\ reply' = [reply EXCEPT !.rev = Len(log)]
    /\ UNCHANGED <<log, held, sent, rec, live, buffer, store, heard, unheard, evicted, keyed>>

LoseReply ==
    /\ reply # NoReply
    /\ reply' = NoReply
    /\ UNCHANGED <<log, held, sent, rec, live, buffer, store, heard, unheard, evicted, keyed>>

AdvancedNever(epoch) == FALSE
\* The comparison the client makes after the await, with the epoch from before it.
Advanced(epoch) == epoch > reply.prior

\* applyJoinedServer replaces the whole record, then the new root is installed.
TakeReply ==
    /\ reply.rev > 0
    /\ rec' = Stored(reply.rev)
    /\ IF Advanced(rec'.epoch)
       THEN InstallRoot(rec')
       ELSE UNCHANGED <<live, store, buffer, keyed>>
    /\ reply' = NoReply
    /\ UNCHANGED <<log, held, sent, heard, unheard, evicted>>

\* The client is closed and reopened: only the record and the messages are stored.
Restart ==
    /\ live' = NoGroup /\ buffer' = <<>> /\ reply' = NoReply
    /\ heard' = heard \cap store /\ unheard' = {} /\ evicted' = {} /\ keyed' = {}
    /\ UNCHANGED <<log, held, sent, rec, store>>

Next ==
    \/ \E p \in Others : Admit(p) \/ Drop(p) \/ Hears(p)
    \/ Edit
    \/ \E p \in Others \cup {Owner} : Send(p)
    \/ \E r \in Rev : ReceiveUpdate(r)
    \/ \E m \in sent : ReceiveChat(m)
    \/ Ask \/ Answer \/ LoseReply \/ TakeReply
    \/ Restart

Spec == Init /\ [][Next]_vars
\* A re-pull is started each time the transport comes up, which it does again and
\* again; the owner answers some, and of the answers not all are lost.
FairSpec == Spec /\ WF_vars(Ask) /\ SF_vars(Answer) /\ SF_vars(TakeReply)

----------------------------------------------------------------------------
(* Properties. *)

Message == [id : 1..MaxSends, from : Peers, mode : Modes, epoch : 0..MaxRev]
RingEntry == [epoch : 0..MaxRev, root : 0..MaxRev]
Group == [mode : Modes \cup {"none"}, epoch : -1..MaxRev, ring : [Modes -> Seq(RingEntry)]]
Record == [rev : 1..MaxRev, epoch : 0..MaxRev, mode : Modes, members : SUBSET Peers]

\* Types; a buffer never outgrows its cap and a ring never its legacy window.
TypeOK ==
    /\ log \in Seq([epoch : 0..MaxRev, mode : Modes, members : SUBSET Peers])
    /\ Len(log) \in 1..MaxRev
    /\ held \in [Others -> 0..MaxRev]
    /\ sent \subseteq Message
    /\ rec \in Record /\ rec.rev \in Rev
    /\ live \in Group
    /\ \A m \in Modes : Len(live.ring[m]) <= Window(m) + 1
    /\ buffer \in Seq(Message) /\ Len(buffer) <= MaxBuffered
    /\ reply \in [prior : -1..MaxRev, rev : -1..MaxRev]
    /\ store \cup heard \cup unheard \cup evicted \subseteq 1..MaxSends
    /\ keyed \subseteq 0..MaxRev

\* The author of m was removed by a later rotation.
RemovedSince(m) == \E r \in Rev : log[r].epoch > m.epoch /\ m.from \notin log[r].members
\* The root of m's epoch never was, or no longer is, within reach.
OutOfReach(m) ==
    LET front == IF live.epoch > rec.epoch THEN live.epoch ELSE rec.epoch
    IN  \/ m.epoch \notin keyed /\ m.epoch < front
        \/ m.epoch < front - Window(m.mode)
        \/ {m.mode} # {rec.mode, live.mode} /\ m.epoch < front - 1

\* A message that reached me from an author my record lists is stored, or waits for
\* a root that can still come; it is lost on this path only to the buffer's cap, to
\* an epoch I skipped or left behind, or because its author was removed.
LossIsExplained ==
    \A m \in sent : m.id \in heard =>
        \/ m.id \in store \cup evicted
        \/ m.id \in Ids(buffer) /\ m.epoch > rec.epoch
        \/ RemovedSince(m)
        \/ OutOfReach(m)

\* The live epoch never moves back, and what it is at an epoch never changes mode,
\* whatever order updates and re-pull answers arrive in, until the client restarts.
LiveNeverRollsBack ==
    [][live'.mode # "none" =>
         /\ live'.epoch >= live.epoch
         /\ live'.epoch = live.epoch => live' = live]_live

\* "hold it briefly and replay it once the matching root installs" (inbound.ts,
\* FUTURE_EPOCH_BUFFER: "After a kick/join the owner rotates the epoch"): a message of
\* a current member that raced ahead of its root is kept.  The code refuses it when
\* the author is the one who just joined, for my record does not list it yet.
RacingMessagesAreHeld ==
    \A m \in sent :
        (m.id \in unheard /\ m.epoch > rec.epoch /\ m.from \in Latest.members
          /\ ~RemovedSince(m))
        => m.id \in store \cup Ids(buffer) \cup evicted

\* "crowd_epoch is monotonic ... or the store would regress to an obsolete key"
\* (inbound.ts, sync.update): the stored epoch never moves back.  The answer to a
\* re-pull replaces the record whatever was applied while it was awaited.
StoredEpochIsMonotonic == [][rec'.epoch >= rec.epoch]_rec

\* Updates alone may all be lost; re-pulls that succeed now and then still bring the
\* record to the owner's, and what is held does not stay held: it is replayed or pushed
\* out, though the re-pull replays by comparing with the epoch from before its await.
CatchesUp ==
    /\ <>[](rec.rev = Len(log))
    /\ \A i \in 1..MaxSends : i \in Ids(buffer) ~> i \notin Ids(buffer)
=============================================================================
