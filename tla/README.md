# Harmolyn: a verification project

Harmolyn is a browser and desktop client of the Xorein peer-to-peer network. There is no
server of record: direct messages, spaces, their history and attachments live with the
participants, and relays, mailboxes and other nodes are untrusted. The hard part of the program
is therefore in `src/src/native/`: end-to-end sessions, group keys that change with membership,
records, requests and packets that travel over streams which lose, repeat and reorder them, and
local work that is cut off, cancelled or restarted between two awaits.

This project models that part in TLA+ and checks it with TLC. With TLAPS it proves, for every
value of the constants, the safety properties of direct messages (ratchet, sessions, inboxes), of
the channel keys, records, roots and history of a space, of friend requests, of the network
(pooled streams, routed requests, the relay connection), and of attachments and their store.

Paths below are relative to `src/src/native/` unless they start with `docs/` or `src/`.

## Inventory

| Part | State it keeps | Operations | Hard behaviour | What makes it correct |
|---|---|---|---|---|
| Seal ratchet `seal/ratchet.ts` | root, two chains, counters, skipped keys | encrypt, decrypt, DH step, skip, prune | loss, repetition, reordering, key budget and age | a ciphertext opens at most once; genuine traffic keeps opening; opened keys are gone |
| Seal sessions `seal/session.ts`, `seal/bundle.ts` | sessions per peer (current and one predecessor), prekey bundle, consumed slots, a retired bundle | encrypt (awaits a bundle), serve, decrypt, bootstrap, rotate, restart | crossed first contact, an await in the middle of an update, rotation under an init's feet | one-time prekeys are one-time; replay resets nothing |
| Channel keys `crowd/channel.ts`, `crowd/crowd.ts`, `tree/tree.ts` | mode, epoch, ring of roots per algorithm | setRoot, encrypt, decrypt | roots that come late, early, twice or compete | epochs never go back; one root per epoch |
| Mode policy `security/channelMode.ts` | none | selection with hysteresis | thresholds | rotations select the mode the roster calls for |
| Space handlers `sync/inbound.ts`, `sync/secureEnvelope.ts` | records, messages, buffer of future-epoch messages | chat.send, sync.update, join, admit, leave, remove | messages race roots, updates race updates | nothing is lost without a named cause; what is stored together was signed together |
| Records and invites `sync/signedServer.ts`, `sync/invite.ts` | proofs and capabilities | sign, verify, mint, open | a link is a transition any member may enact, later, in parallel with the owner | a kick revokes; a joiner learns no past |
| Mutations `state/mutations.ts` | drives the store | spaces, messages, friends; the outbox | order of steps within one mutation, awaits, retries | what is shown as queued is queued; what was decided reaches the other side |
| Engine `engine/engine.ts` | timers, the node | join, reconcile (re-pull), paging, repair | awaits between reading and replacing | a re-pull brings a member up to date |
| Store `state/store.ts` | everything persisted | apply, update, merge, enqueue | caps, dedup, tombstones | no duplicate, no regression, what ended stays ended |
| History `sync/signedHistory.ts`, `sync/swarmHistory.ts`, `sync/replica.ts` | versions of messages; pages being put together | sign, verify, page, audit, repair | copies at several revisions from several holders that are behind | versions only advance; a page is as current as its holders; a joiner's boundary |
| Recipient inbox `delivery/recipientInbox.ts`, holders `delivery/peerMailbox.ts` | sealed packets at up to three holders, receipts, quotas | deposit, drain, mark, delete, expire | lost answers, overlapping drains, crash between effect and receipt | what was reported sent is in custody until applied, and applied once |
| Routed requests `sync/routedRequest.ts`, `sync/peersync.ts` | claimed ids | forward, perform, answer | floods with loops, retries, expiry, restarts | performed once; no false "no route"; every search ends |
| Pooled streams `families/peerstream.ts`, `families/streammux.ts`, `families/frames.ts` | one pooled channel per peer and protocol, pending calls, a drain gate | call, timeout, death, retirement, fallback | back-pressure, deaths and late answers at any await | no one waits at a dead stream; answers reach their own call |
| Transport `transport/manager.ts`, `transport/relays.ts` | node, relay list, active reservation, timers | connect, reselect, discover, reconnect, stop | overlapping attempts, losses noticed in the middle of one | the latest selection is used; a working reservation survives; it reconnects |
| Attachments `blobs/*` | local fragments with quotas and a write queue; uploads, downloads, repairs; provider health | upload, cancel, seed, open, audit, repair | cancellation and eviction at any await, peers that are silent, forget or lie | the books are exact; a cancelled upload leaves nothing; only liars are distrusted; every task ends |
| Voice `voice/*` | peers, signalling | join, stop, renegotiate | stop racing start | not modelled |
| Recovery, custody, identity, capability map, UI, runtime facade, desktop shell, website, scripts | — | packet formats, presentation, platform, tooling | — | not modelled |

The parts meet as follows. The transport manager keeps the client reachable; operations arrive on
and leave by pooled streams (`families/`), directly or as routed requests. The engine hands
them to the handlers of `sync/inbound.ts`, which read and write the store synchronously, and call
the Seal sessions for direct messages and ChannelCrypto for channel messages. What cannot be
delivered goes to the outbox, which retries, and to recipient inboxes at holders. History and
attachments are pulled from whichever members have them and are repaired in the background.
JavaScript runs each handler to its next `await`, so in the models **an action is the code between
two awaits**; where an operation awaits (a bundle, a delivery, an answer, a transaction), it is
split there and any other action may happen in between.

## Modules

| Module | Models | State and actions |
|---|---|---|
| `OnceChannel` | the promise to the application: each ciphertext is new, each is opened at most once, in any order | `Send`, `Open` |
| `SealParties` | the two peers of a direct message, shared by `SealRatchet` and `SealSessions` | |
| `SealRatchet` | one ratchet session over a lossy network | `ratchet[p]` is RatchetState field by field; `Send` is ratchetEncrypt and the persist that prunes; `ReceiveFiled`, `ReceiveInChain`, `ReceiveNewChain` are the three ways ratchetDecrypt finds a key, each including the commit; `Tick` is the clock |
| `SealSessions`, `MCSealSessions` | first contact and session lists of two peers | `BeginEncrypt`/`ServeBundle`/`FinishEncrypt`/`FailEncrypt` are encrypt around its await; `Encrypt` is encrypt on a session; `Decrypt` and `Bootstrap` are decrypt with and without a matching session; `Stranger` is another peer's first contact; `Restart` is serialise and restore |
| `ChannelCrypto` | the pure operators of the channel keys, shared by two modules | |
| `ChannelDelivery` | one member, the owner's history and the messages of the others | `ReceiveUpdate`, `ReceiveChat`, `Ask`/`Answer`/`TakeReply`/`LoseReply` (the re-pull), `Restart`; owner and others: `Admit`, `Drop`, `Edit`, `Hears`, `Send` |
| `SpaceSync` | owner, members and joiners, records, proofs, links | owner: `Kick`, `CloseInvites`, `Edit`, `MintInvite`, `TakeLeave`, `JoinByOldLink`; members: `ReceiveUpdate`, `ReceiveAdmit`, `Leave`, `TakeRemove`, `Announce`; joiners: `Join`, `Repull`, `TakeReply`, `LoseReply` |
| `SpaceKeys` | the live keys of the clients of `SpaceSync` | `SyncStep` (a step of `SpaceSync` and what it installs), `UseChannel`, `Restart` |
| `FriendRequests`, `MCFriendRequests` | two stores, their friend requests and the durable outbox between them | user: `AddRequest`, `Retry`, accept, cancel, decline, block, `RemoveFriend`, `QueueChat`; their deliveries: `RequestReturns`, `ActionReturns`; outbox: `RequestDrain` and `EntryReturns`, one entry per await; other side: `Receive`; `Expire`, `Restart` |
| `RecipientInbox`, `MCRecipientInbox` | sender, holders and recipient of sealed packets over days | sender: `Begin`, `Attempt`; recipient: `Drain`, `Fetch`, `NextPacket`, `Mark`, `Finish`, `Settle`; holder: `Read` and `Delete`, the two transactions of an acknowledgement; `NextDay`, `Crash`, `SenderCrash`, `Reset` |
| `SignedHistory`, `MCSignedHistory` | versions of the messages of one channel at every client and a storage node | `Post`, `EditMessage`, `DeleteMessage`, `Receive`; `Join`, `LearnJoin`, `Repull`; paging: `StartPage`, `Fetch`, `Retry`, `Audit`, `Merge`, `MergeFromOwner`; `Repair`, `Reload` |
| `TransportManager`, `MCTransportManager` | connection attempts of one client, its relay list and timers | connectOnce at its awaits: `Resolved`, `Created`/`CreateFails`, `Dialled`, `HungUp`, `Reserved`/`NoneReserved`; `TimerFires`, `Select`, `Discover`, `PathChange`, `Stop`/`Stopped`; environment: `Change` |
| `PeerStream` | calls of one client to one peer on one protocol, and the serving loop at the peer | `Ask`, `OpenSucceeds`/`OpenFails`, `Resume`, `Wake`, `RequestTimesOut`, `Settle`, the single-shot fallback, `DirectOpens`, `Retire`; streams: `Drain`, `StreamEnds`; peer: `Serve` |
| `RoutedRequest`, `MCRoutedRequest` | one routed request over a graph of connections | `Route`, `Answered`, `Timeout` at who waits; `Receive` and `Performed` at who is asked; `Restart` |
| `BlobStore` | the local fragment store and its write queue | `Enqueue`; an operation of the queue at its transactions (begin, refuse, cancel, evict, write, discard); `Fire` (abort), `Restarted` |
| `Attachments`, `MCAttachments` | uploads, downloads and repairs over that store and the peers | `Attach`, `Repair`, `Open`, then per task rounds of requests, answers, commit and publication, or abort and unwinding, auditing, gathering and reading back; `Abort`, `Audit`, `Recover`; others: `Asks4Room`, `Forget`; `Crash` |
| `DirectMessageProofs` | theorems about `SealRatchet`, `SealSessions` and `RecipientInbox` | |
| `SpaceProofs` | theorems about `SpaceSync` and `SpaceKeys` | |
| `NetworkProofs` | theorems about `PeerStream`, `RoutedRequest` and `TransportManager` | |
| `ChannelCryptoProofs`, `ChannelDeliveryProofs`, `FriendRequestsProofs`, `SignedHistoryProofs`, `AttachmentsProofs` | theorems about the module of that name | |

Composition and refinement:

* `SealRatchet` and `SealSessions` each implement `OnceChannel`; both refinements are proved.
* `ChannelDelivery` composes the buffer, the record and `ChannelCrypto`; `SpaceKeys` composes
  `SpaceSync` with `ChannelCrypto`.
* `BlobStore` is a specification of its own (`StoreSpec`), in which anything may be queued at any
  time. `Attachments` extends it with the tasks that use it, and each of their steps is a step of
  the store or leaves it alone (theorem `StoreIsUsedAsSpecified`).

### Abstractions

* **Cryptography is symbolic and ideal.** In `SealRatchet` a root key is the sequence of DH
  outputs folded into it and a chain key is that derivation with a step number, so two keys are
  equal exactly when the code derives the same bytes. In the channel models a root is the number
  of its minting. A tag verifies iff the keys are equal. Signatures are the fields they cover
  (`Struct`), a version of a message is one its author made, and a fragment is recognised by its
  hash.
* **A lossy network is a set.** What was sent stays in a set and each delivery is a step that
  does not remove it: loss is never delivering, duplication is delivering again, and any order is
  possible.
* **Contents are opaque.** Names, channels and roles of a record are its revision number;
  `updated_at` is kept apart (`stamp`) because the proof covers it and a handler drops it. Every
  packet of an inbox has size one and every fragment one byte. Each deposit of a packet, a retry
  included, seals it anew, so holders may keep several copies of one operation (`copy`), which a
  drain meets one after the other.
* **In `SealSessions` a ratchet session is a number** that opens each wire once; `SealRatchet`
  is what justifies it. The slot an initiator picks is always the smallest open one: which slot a
  hash picks does not matter to the properties, only that a retry against the same bundle picks
  the same one. Inits without a one-time prekey (index -1) cannot be produced here, because a
  served bundle always has an open slot after rotation.
* **In `SignedHistory` every join begins an epoch of its own**, and an update that others overtake
  is one that was lost. Keys are opened by epoch only: who has the key of a packet's or a replica's
  epoch reads it.
* **A throwing decrypt is no step.** It leaves the state as it was.
* **Clocks.** The inbox counts days. In `RoutedRequest` only whether the request has expired
  matters, and it may expire at each peer on its own (`expired`). Timers of the transport and of
  streams fire whenever they are set: lengths of backoffs and timeouts are not modelled.
* **Copies of a routed request differ in their trail**, the path they took, and in nothing else.
* **What the code leaves to chance stays open**: which fragments of one instant are evicted first,
  in which order providers with equal scores are asked. In `Attachments` a blob has one task at a
  time, and a batch stays below the limits of a round, so that its requests leave together. A peer
  that lies may list or acknowledge any part of what it was asked for, and mix wrong fragments with
  right ones.
* **Worlds.** Six modules have a constant `Worlds` (`Scenarios` in `TransportManager`). A behaviour begins by choosing one of them,
  and it says which faults may occur and how often. Faults of one kind then combine freely within
  a world, and the product of all of them need not be explored. The proofs hold for any set of
  worlds.
* **History variables** record what the properties speak of, and no guard of the code's actions
  reads them: `known`, `barred`, `kick` (`SpaceSync`); `heard`, `unheard`, `evicted`, `keyed`
  (`ChannelDelivery`); `owed`, `acted`, `cut` (`FriendRequests`); `owed`, `missed`, `excused`, `spurned`
  (`RecipientInbox`); `forgot`, `exposed` (`SignedHistory`); `good`, `working`
  (`TransportManager`); `served` (`PeerStream`), `ran`, `disturbed`, `spoilt` (`RoutedRequest`);
  `steady` in the tasks of `Attachments`, the dependable peers that could serve all along.

## Runs

| Run | States | What it shows |
|---|---|---|
| `seal_ratchet` | 199 000 | `ImplementsOnceChannel`: a ciphertext is neither emitted nor opened twice. `GenuineTrafficOpens`: traffic of the last two chains that fits the budget opens. `OpenedKeysAreGone`: forward secrecy of opened keys, on both sides. `BudgetRecovers`: a full budget heals after one lifetime |
| `seal_sessions` | 1 148 000 | `PrekeysAreOneTime`: a one-time prekey never backs two sessions, with two concurrent fetches per peer, rotations and strangers. `SessionsImplementOnceChannel`: no wire opens twice |
| `channel_delivery` | 62 000 | `LossIsExplained`: every message lost has a named cause. `LiveNeverRollsBack`. `CatchesUp`: a held message is eventually decided and the record is eventually the owner's, though every update may be lost |
| `space_sync` | 614 000 | `KickRevokes`, for the owner and all who are past the kick; `JoinersLearnNoPast`: no root of an epoch before a peer's admission, unless an admission to another cohort had given it that root; `TupleIsSigned`: stored key tuples were signed as a whole; `OnlyRepullsGoBack` |
| `space_keys` | 418 000 | `RootIsImmutable`: one root per epoch in memory, never backwards, though links and the owner claim the same epoch |
| `friend_requests` | 471 000 | `PromisesAreBacked`: what is shown as queued is queued, and an accept, decline or cancel that the other side needs is on its way or durably queued, unless it expired, a restart cut its delivery or a full outbox pushed it out. `TombstonesAreFinal`: what ended stays ended. `FriendsByConsent`. `RequestsAreHonoured`: a drain asked for during a drain is not forgotten |
| `recipient_inbox` | 1 335 000 | `SentIsInCustody`: what was reported sent stays where the recipient will look until it took effect, unless the recipient refused one copy of it and then met another in the same drain. `AppliedOnce`. `FullWindowIsScanned`: coalescing loses no full scan, unless it was asked for when the drain at work had left its loop and was not yet forgotten. `NoPhantomUsage`: a holder's quota does not leak |
| `signed_history` | 323 000 | `VersionsOnlyAdvance`: no older or competing version replaces a newer one, and deletions are final. `PageIsCurrent`: a page settles for nothing older than a provider advertised. `JoinBoundary`: by default a newcomer holds nothing from before its boundary that was not signed or encrypted anew |
| `transport_manager` | 368 000 | `SelectedIsUsed`: the user's last choice wins over attempts under way. `WorkingReservationSurvives`: trying another relay costs nothing. `Reconnects`: once a configured relay stays in order the client ends up connected for good |
| `peer_stream` | 410 000 | `PoolIsSound`: the pool holds exactly the live channel. `NobodySleepsThrough`: nobody waits at a dead stream. `AnswersAreOwn`: though responses may lack a request id. `EveryCallSettles` |
| `routed_request` | 602 000 | `HandledOnce`: one life of the target performs the request once. `NullMeansNoRoute`: an undisturbed search that finds nothing proves that there is no path, or that the target was reached and had no answer the origin can use. `EveryRouteEnds` |
| `attachments` | 307 000 | `StoreIsAccounted`: the books are exact and quotas kept. `CancelledLeavesNothing`. `HonestKeepTrust`: only liars are distrusted for good. `SteadyPeersAreUsed`: nobody gives up while a steady peer could serve. `EveryTaskEnds` |

Every module also states its types (`TypeOK`, `StreamsTypeOK`, `ManagerTypeOK`); they hold in these instances, are part of the
inductive invariants where something is proved, and are left out of the runs.

No run checks for deadlock: every model is bounded and stops when its bounds are used up, and
the system itself may rest with nothing to do. Where getting stuck would be wrong, a liveness
property says so (`CatchesUp`, `Reconnects`, `EveryCallSettles`, `EveryRouteEnds`,
`EveryTaskEnds`).

### Bounds

* `seal_ratchet`: a budget of two skipped keys, a lifetime that ends with the next tick, five
  messages per party. Five make four changes of direction, so a third DH step purges chains; two
  skipped keys are exhausted by a gap in two chains at once, and the tick lets them expire.
* `seal_sessions`: two slots with watermark 0 make rotation happen after two consumptions or by
  expiry; two bundles and one retained reach a retired candidate; one stranger competes for a
  slot; three wires are an init, its replay partner and an answer. `SYMMETRY` over the concurrent
  fetches, which no action or property tells apart; the run checks no liveness.
* `channel_delivery`: the Tree limit is 2 instead of 50 so that one admission changes the mode;
  the buffer holds 1 so that a second message evicts; windows of 1 so that three epochs leave
  one behind.
* `space_sync`: one owner and two peers. Every hazard here is between the owner's line of
  decisions, a member that lags or enacts a link, and a peer that joins or was kicked; two
  issued revisions (and one more through a link) are enough for a lagging member, a fork and a link
  from before a kick. `space_keys` adds the live keys, with legacy windows of 0 (older epochs are
  the subject of `channel_delivery`) and one issued revision: with the link's that makes two
  decisions at one epoch. `MaxRoots` bounds minted roots, hence links.
* `friend_requests`: an outbox of one entry, so that any second entry meets the cap; two attempts,
  so that one failure retries and two give up; three worlds: a network that fails, with other
  traffic in the queue; the same with a restart and for as long as expiry takes; several requests,
  also crossing ones, whose packets repeat and overtake.
* `recipient_inbox`: two holders, of which one may be unknown to the recipient, two overlapping
  drains, a retention one day longer than a packet lives, one entry of total quota, one receipt
  kept. Six worlds: closed tabs; an undiscovered holder over three days; a restart under a drain;
  an operation accepted only after another; a busy holder; an operation that is refused and
  delivered again by way of another holder.
* `signed_history`: two messages and two revisions, owner, member and a third client. Six worlds:
  live traffic, one author on two devices, paging with reloads, a message revised during paging,
  replicas at a storage node, a newcomer.
* `transport_manager`: two configured relays and one to discover, of which one is remembered; six
  timers are never all in use. Four worlds: relays that change twice and one discovered, two
  selections with one change, one selection with two, a stop.
* `peer_stream`: three calls, so that one can hold the gate, one wait and one come later, and
  three pooled streams, one for each.
* `routed_request`: four peers and six networks: a ring with two faults, the ring with a rung so
  that routers ask each other (all at once, or one at a time), a line too long for the hop limit,
  a line that fits it, an unreachable target.
* `attachments`: one blob to upload and one to open, two fragments each, an honest peer and one
  that may lie, room for three fragments (so that the two blobs contend) and for one of a
  sponsor's, two failures before a pause. Six worlds: three of contention with a crash, a
  lying peer with faults and audits, repairs with faults, an upload and a download that share the
  health of the peers; in half of them one peer is a support node, which every seeding asks first.

### Fairness

* `ChannelDelivery`. `reconcileJoinedServers` runs each time the transport comes up
  (`engine/engine.ts:538`) and nowhere else. `Ask` is weakly fair: the assumption about the
  environment is that a client's transport keeps coming up again. The owner may be away and the
  answer may be lost again and again (`LoseReply` is not fair): `Answer` and `TakeReply` are
  strongly fair, which says that of infinitely many re-pulls some succeed. Updates and messages
  have no fairness: each is sent once and may be lost.
* `TransportManager`. Every await of an attempt has a timeout, timers fire, and libp2p delivers
  its events. Relays owe nothing: `Reconnects` assumes of them only that some configured one stays
  in order from some time on.
* `PeerStream`. An await that has settled resumes, a request's timer fires, a dial ends by its
  signal, and a stream whose buffer is full drains or ends (at the latest by the inactivity abort).
  The peer owes nothing, and reads or answers when it likes.
* `RoutedRequest`. Only the timers: each attempt of a hop has REQUEST_TIMEOUT_MS. No peer need
  receive or answer anything.
* `Attachments`. The promise chain of the store runs on, and every request ends in an answer or
  a timeout; what a peer answers is its own affair.

## What the code does not guarantee

Some statements in the repository's comments and documents go further than the code. Each of the
following is defined in its module with the line it comes from, holds in no run, and is refuted by
TLC when it takes the place of the properties of that module's run (the number of states of the
shortest behaviour in brackets).

| Property | Module | What is said | What the code does |
|---|---|---|---|
| `RacingMessagesAreHeld` (4) | `ChannelDelivery` | "hold it briefly and replay it once the matching root installs", `sync/inbound.ts:70-74` | a joiner's message is refused a place: its author must already be listed, `sync/inbound.ts:92` |
| `StoredEpochIsMonotonic` (6) | `ChannelDelivery` | "crowd_epoch is monotonic", `sync/inbound.ts:857-860` | a re-pull answer replaces the record whatever was applied meanwhile, `engine/engine.ts:1015` |
| `MembersCanEnact` (4) | `SpaceSync` | "an existing member can verify and enact the" transition, `docs/PEER_OWNED_NETWORK.md:97` | `sync.update` stores the proof but not the `updated_at` it covers, `sync/inbound.ts:891`, `sync/signedServer.ts:72` |
| `AgreementIsReadable` (7) | `SpaceKeys` | a re-pull "reconciles the root/epoch" (`reconcileJoinedServers`), so a client that holds the owner's record can read the owner | `setRoot` ignores a second root at an epoch, `crowd/channel.ts:88-92`, so after a fork and a re-pull it cannot until it restarts |
| `NeverBothWedged` (8, without `SYMMETRY`) | `SealSessions` | "converges on one shared session instead of wedging forever", `seal/session.ts:182-186` | concurrent first contacts overwrite a list read before the await, `seal/session.ts:356` |
| `NotReplayedAfterSent` (8) | `FriendRequests` | "so it cannot be replayed after the user saw "sent"", `state/mutations.ts:1404-1406` | a drain that awaits the queued copy puts it back, `state/mutations.ts:1213` |
| `EveryFullWindowIsScanned` (6) | `RecipientInbox` | "`fullWindow` scans the seven-day reconnect window", `delivery/recipientInbox.ts:564` | a drain leaves its loop at `:619` and is forgotten by a later microtask at `:623`; a full request in between joins it (`:573`) and sets a flag that nobody reads and the next drain clears (`:581`) |
| `QuotaHolds` (20) | `RecipientInbox` | "so parallel streams cannot all validate against the same stale totals", `delivery/peerMailbox.ts:206-208` | an acknowledgement reads and deletes in two transactions, `delivery/peerMailbox.ts:293-310`; two of them subtract one entry twice |
| `RefusedStaysInCustody` (16) | `RecipientInbox` | "Do not record or acknowledge a receipt: every provider keeps the packet so a transient local failure can retry safely", `delivery/recipientInbox.ts:609-611` | the operation was noted as seen in this drain before it was applied (`:596`), so a second copy of it in the same drain is acknowledged |
| `JoinersReadTheirWindow` (8) | `SignedHistory` | "Re-encrypt only the pre-join window the newest member is entitled to", `engine/engine.ts:893-895` | the update that announces a newcomer carries no `member_since`, `state/mutations.ts:758`, so a member re-encrypts everything |
| `AtMostTheWindow` (10, one founder and one joiner, a window of 1, two messages) | `SignedHistory` | "A member gets at most `join_history_messages` (default 0) of pre-join history", `sync/inbound.ts:1055-1058` | each member counts the window in the history it holds itself (`sync/inbound.ts:1077-1080`), so members with gaps together serve more; with the default window it holds (`JoinBoundary`) |
| `TombstonesApply` (5) | `SignedHistory` | a tombstone is broadcast so that an older copy cannot return, `state/mutations.ts:525-526` | a deletion is refused where the edit before it is missing, `sync/inbound.ts:564` |
| `ConnectedIsReal` (10) | `TransportManager` | "Preserve the working reservation and report the real state", `transport/manager.ts:274` | the previous relay may have dropped during the dial |
| `StoppedStaysDown` (5) | `TransportManager` | "Stop the manager and disconnect", `transport/manager.ts:89` | a node created across the stop stays |

Also met while modelling:

* `rotateChannelEpoch` keeps Crowd mode whenever it is in force (`state/mutations.ts:84`), while
  `docs/PEER_OWNED_NETWORK.md:89` says that Crowd returns to Tree at 40 or fewer members.
* A full outbox can push a lifecycle action out for another (`state/store.ts:680-709`):
  `PromisesAreBacked` excepts it by name.
* A peer that an admission to another cohort had given a root may know it although it is older
  than the epoch it is later admitted to: links of one base admit to different successors.
* An attachment that was gathered and filed can be evicted by another operation before it is read
  back, and its opening ends as unreadable (`blobs/swarm.ts:1215-1217`); a published upload's own
  source can be evicted (against "retain a complete local source", `blobs/swarm.ts:4`); a crash
  after the commit of an upload and before its publication leaves the fragments behind.
* A deletion is not final if its own author forgets it: a device that reloads and pages an older copy
  of the message back revises that copy, at revisions beyond the deletion's, and every reader
  follows. `VersionsOnlyAdvance` therefore speaks of authors that have what they wrote
  (`SolelyBy`).
* A handler at a peer may run twice for one call: once for the pooled attempt that died, once for
  the single shot after it; likewise an operation that is tried directly and then routed
  (`sync/peersync.ts:1015-1033`). The handlers' own deduplication is what makes this harmless.

## Proofs

| Theorem | Module | States |
|---|---|---|
| `TypesHold`, `NoDoubleOpen`, `Refinement`, `OpenedKeysStayGone`, `BudgetAlwaysRecovers`, `GenuineAlwaysOpens` | `DirectMessageProofs` | `TypeOK`, `AtMostOnce`, `ImplementsOnceChannel`, `OpenedKeysAreGone`, `BudgetRecovers` and `GenuineTrafficOpens` of `SealRatchet` |
| `PrekeysServeOnce`, `SessionsOpenOnce` | `DirectMessageProofs` | `PrekeysAreOneTime` and `SessionsImplementOnceChannel` of `SealSessions` |
| `SentStaysInCustody`, `EffectsAreNotRepeated`, `FullWindowsAreScanned`, `QuotaIsNotLost` | `DirectMessageProofs` | `SentIsInCustody`, `AppliedOnce`, `FullWindowIsScanned` and `NoPhantomUsage` of `RecipientInbox` |
| `KeysNeverRollBack`, `LossesAreExplained` | `ChannelDeliveryProofs` | `LiveNeverRollsBack` and `LossIsExplained` of `ChannelDelivery` |
| `TuplesAreSigned`, `GoesBackByRepull`, `KickedStayOut`, `NoPastLearned` | `SpaceProofs` | `TupleIsSigned`, `OnlyRepullsGoBack`, `KickRevokes` and `JoinersLearnNoPast` of `SpaceSync` |
| `RootsAreImmutable` | `SpaceProofs` | `RootIsImmutable` of `SpaceKeys` |
| `TypesHold`, `TombstonesStayFinal`, `FriendsConsented`, `RequestsHonoured`, `PromisesBacked` | `FriendRequestsProofs` | `TypeOK`, `TombstonesAreFinal`, `FriendsByConsent`, `RequestsAreHonoured` and `PromisesAreBacked` of `FriendRequests` |
| `TypesHold`, `VersionsAdvance`, `PagesAreCurrent`, `JoinersKeepOut` | `SignedHistoryProofs` | `TypeOK`, `VersionsOnlyAdvance`, `PageIsCurrent` and `JoinBoundary` of `SignedHistory` |
| `PoolStaysSound`, `NobodyIsLeftAsleep`, `AnswersBelong` | `NetworkProofs` | `PoolIsSound`, `NobodySleepsThrough` and `AnswersAreOwn` of `PeerStream` |
| `PerformedOnce`, `NoFalseNull` | `NetworkProofs` | `HandledOnce` and `NullMeansNoRoute` of `RoutedRequest` |
| `ChoicesWin`, `ReservationsSurvive` | `NetworkProofs` | `SelectedIsUsed` and `WorkingReservationSurvives` of `TransportManager` |
| `StoreIsUsedAsSpecified`, `UsageIsExact`, `OnlyLiarsAreDistrusted`, `CancelledUploadsVanish`, `SteadyPeersServe` | `AttachmentsProofs` | that `Attachments` implements `StoreSpec` of `BlobStore`; `StoreIsAccounted`, `HonestKeepTrust`, `CancelledLeavesNothing` and `SteadyPeersAreUsed` of `Attachments` |

Every theorem holds for all sets of worlds, all bounds and all faults the model allows; assumed is
only what the modules name where they declare their constants: distinct parties, peers and ends
(`PartiesDiffer`, `PeersDiffer`, `TwoPeers`, `EndsDiffer`, `OwnerIsNoPeer`, `SelfIsNoPeer`),
founders that are peers and include the owner (`OwnerIsAClient`, `WorldsOK`), a relay list that is
never empty (`BuiltIn`: resolveRelayList falls back to the built-in relays), sizes and limits in
Nat, sentinels that are no value (`NoCallIsNotACall`, `NoneIsNoRelay`, `NoneIsNoId`, `RequestIds`), finite slots with more of them than the watermark (`SlotsAreNat`;
the watermark is 5, `seal/session.ts:23`), a retention longer than a packet lives
(`RetentionOutlivesPackets`), `FragmentsAreFinite`, and enough numbers for entries of an outbox
(`UidsSuffice`).

Each property needs more than itself to be inductive. What follows says what, per system.

### The ratchet

`AtMostOnce` counts plaintexts: one must know that a decrypt which succeeds is of a ciphertext
not opened before. The inductive invariant `IInv` adds

* `Sane` of each state: chain steps equal counters, the receive chain is no longer a derivation
  than the root, and a skipped key filed under the current remote key is behind the counter;
* `Spent`: every accepted ciphertext's key is out of reach — not filed, and behind the counter if
  it is of the current chain; its derivation is no longer than the root, so the chain of a later
  DH step cannot be its chain;
* `SentInv` and `PairsMinted`: every ciphertext carries a pair its sender minted, those under the
  current pair are behind the send counter (hence a new ciphertext is new, which the refinement
  needs), and the chain key recorded with it is the one that counter determines.

Each of the three receive actions has a lemma (`FiledKeeps`, `InChainKeeps`, `NewChainKeeps`) that
the message was not accepted before and that `Sane` and `Spent` are kept; they rest on lemmas
about `Prune`, `SkipMessages`, `DhRatchetStep` and `TakeChainKey`. The refinement then maps `Send`
to `Send`, the three receive actions to `Open`, and `Tick` to a stutter.

Nothing in that relates the two ends. That genuine traffic opens, that a budget recovers and that
opened keys are gone *on both sides* need `InStep`: the two derivations are at most one DH step
apart and agree on all they share (`Lockstep`, `Ahead`), the messages of a chain are sent without
gaps (`SendHalf`), and each receiver has, of every chain it knows, exactly the keys it passed and
did not use (`ReadHalf`, `KeptFrom`). From it follow who can derive a key (`OpenedKeysStayGone`),
that a DH step offered by a genuine message always matches (`GenuineAlwaysOpens`), and that after
one lifetime the budget is free (`BudgetAlwaysRecovers`).

### Sessions and prekeys

A prekey could back two sessions if its slot were open again: in the current bundle, in a retired
one, or after a session that took it was dropped from its list. `SessionsInv` follows the uses:
each use of a session a peer was opened with is marked consumed in every retained bundle of its
generation, and generations are told apart and only grow (`BundlesHold`); an entry of a list knows
every wire of its session that was opened, a session the other peer initiated is listed only if a
wire of it was opened, and a pending one stands alone (`ListsHold`). `FirstContactIsNew` then says that a bootstrap which succeeds is
of a session never opened before; `TurningOver` that rotation and expiry keep the cover;
`RestartLosesNothing` that what a restart forgets was not needed.

### Recipient inboxes

The invariant `InboxInv` has one part per property. `Custody` ties a deposit reported sent to an
entry at a holder the recipient knows, under the token of the very day it was born, which
`RetentionOutlivesPackets` and the scan of a full window reach. `Acknowledged` says that what a
drain, a request under way or a holder between its two transactions is about to delete has taken
effect (or was `spurned`). `Receipted` and `OneDrain` say that an effect has its receipt or is
about to have it, and that only one drain works, from which an effect is not repeated. `Requested`
says that a scan which is owed was handed to a drain that has yet to look at the flag; one asked
for after that look is `missed`, and nothing is proved of it (the table above has it as
`EveryFullWindowIsScanned`). `DropsOnly` disposes of the expiry that every access to a mailbox
begins with.

### Channel keys and messages

`setRoot` refuses an older epoch, but "refuses" reads the head of the current mode's ring, and
`installEpochRoot` refuses on its own account by the head of its ring. That the two guards agree
is not evident: the current ring could be empty or headed by another epoch, and then a root could
be accepted and not installed. `ChannelCryptoProofs` isolates the invariant, `GroupOK`: the ring of
the current mode is headed by the current epoch, the other ring is empty or headed by that epoch
or the one before. `SetRootKeeps` proves, for any windows (`WindowsAreNat`) and any root offered,
that `setRoot` keeps it, never moves the epoch back, and at the epoch it already has changes
nothing; it rests on `InstallKeeps` and `CutKeepsNewest`.

Three proofs use it. In `ChannelDeliveryProofs` the inductive invariant `IInv` adds that
every record of the owner, the stored one and the one an answer points to name an epoch and a
mode; then each step keeps the live keys, forgets them or sets a root (`LiveMoves`). In
`SpaceProofs` the same holds per client (`KeyMoves`), with `SpaceSync`'s invariant for the
records; there the owner's decision and a link it signed really compete for one epoch, and roots
are not determined by it.

`LossIsExplained` needs to follow each message heard: it is stored, evicted, buffered, its author
was removed, or its key is gone, now or whenever it will be looked for (`Accounted`, `Gone`). For that `CInv`
knows that epochs of the log only grow and determine the mode (`EpochsOK`), that the buffer holds
only messages ahead of the record (`BufOK`), which epochs the rings contain and which they were
given and lost (`KeysOK`), and that neither the record nor an answer under way is ahead of or
behind the live keys by more than a restart explains (`AskOK`).

### Records and roots of a space

The inductive invariant of the records, `SInv`, follows a record wherever it can be: stored
at a client, in an update or as the answer to a join or re-pull under way. Such a record is `Good`:
its (epoch, root, mode) is the tuple of some update, of some minted capability or of the founding
record, and the capability it carries was minted; so are the capabilities of admissions under way.
`TupleIsSigned` alone is not inductive, for a re-pull stores what was put under way steps before,
and a capability enacted at a client comes from a record or an admission. What a step may do to
each record (`RecMoves`: keep, forget, or replace by a good record whose revision is not lower
unless it is the answer to a request) is proved once per action (`KickKeeps` to `AnswerKeeps`).

`KickRevokes` and `JoinersLearnNoPast` speak of the roots a peer can compute: those it knows,
closed under the links. `RootInv` looks at the system through `View`: the owner's record, what it
sent, every record anywhere, the links, and the admissions under way. Records are on the owner's line or one
enacted link beyond it (`LinkOK`, `Sourced`), roots and epochs together only grow along that line and a link leads from
the root it was minted at to a fresh one (`CapsOK`, `MarksOK`). A kick splits the records and the
links in those up to it and those past it, and nothing a kicked peer holds or is offered lies past
it (`KickHolds`); an admission splits them likewise by epoch (`BarHolds`). Every action does one
of five things to the view (`Issue`, `Mint`, `Fewer`, `Update`, `Admission`), and each of the five keeps
the invariant.

### Friend requests

`IInv` describes one store (`GoodStore`: no row or friend under a tombstone, what is shown as
queued is queued, an entry of the outbox belongs to something the user did), one pass over it
(`GoodPass`, `Honoured`: what is still to be examined), what is on the wire (`Meant`) and, for
`PromisesAreBacked`, that an action the other side has yet to apply is carried by something
(`Backed`). The store's own operations have lemmas of their own (`Enqueued`, `Replaced`, `Pares`,
`Buried`, `Removed`), and the actions fall in three kinds: those of the wire (`PeerMoves`), those that change a store
(`StoreMoves`), and those that carry a pass to its next await (`ProceedKeeps`).
`UidsSuffice` gives the numbers of entries room to be fresh.

The outbox is filtered in the module with `PickedAt`, a function of the positions kept, and not with
`SelectSeq`, whose recursion no installed prover can reason about.

### Signed history

One fact carries the versions: nothing but an author makes one. Every step other than a post, an
edit or a deletion copies versions that are already somewhere, at a client, in a packet, at the
storage node or in a page (`Seen`, `Copying`), so what holds of all versions of a message together is
kept. That is `Latest`: where one device writes and has what it wrote, a version after a deletion is a
deletion (`Lasting`), and the device holds the newest (`Leads`). `Numbered` says that the next message
has no version yet.

`PageIsCurrent` is inductive with the types. A page accepts a copy only if it is not older than what
was advertised, replaces it only by a higher revision, and what was advertised does not change after
the first round.

`JoinBoundary` is about keys. A joiner gets the keys of its own epoch and of later ones, so it reads a
packet or a replica only if whoever encrypted it was at that epoch or past it. `Bounded` says that
everything encrypted at such an epoch, and everything the joiner holds or has paged, lies past its
boundary or was signed or encrypted anew. It rests on `Informed`, who has the keys of an epoch knows
everyone who had joined by then, and on `Joined`, that what a client knows of a boundary is the
owner's or nothing: so a member that serves a joiner either knows the joiner's boundary or serves
its window, which by default is empty, and what it encrypts in ignorance of the boundary is recorded
in `exposed`.

### Pooled streams

`PoolIsSound` and `NobodySleepsThrough` speak of the client alone, and are inductive together with
the types: each death of a channel must release whoever waits at its gate, reject whatever is
pending on it and forget it in the pool, in one step, whichever of its causes (timeout, end,
condemnation, retirement) it has.

`AnswersAreOwn` needs the wire. A peer may omit the request id, and the client then gives the
response to the only call that is pending on the stream, if there is exactly one. That is right
only because of an invariant, `Wired`: what an open stream still owes is, for calls pending on it
and for no others, at most one unread request or one response each. A late response to a call that
timed out would break it; it cannot come, because one silent request condemns the whole channel.
`UndisturbedKeepsWired` disposes of the actions
that leave pending calls and wire as they are; one lemma per action does the rest.

### Routed requests

`HandledOnce` counts performances at the target. That the claim of an id is made once is not enough:
the cache forgets a claim when the id has expired, and the same copy or another may be on its way to
the claim at that moment. The inductive invariant `Guarded` says that a performed id is claimed
or has expired by the target's clock; the second reading of that clock, in `openRoutedRequest`
after the claim, then refuses every copy that passes a forgotten claim. A restart of the target
forgets its claims and begins a new life. All this holds in any graph and with any limits and
faults.

`NullMeansNoRoute` is about a flood. `routeRequest` returns the same null when the target was
reached and answered `route_decrypt_failed`, `handler_error` or `route_response_failed`, or sealed
an answer the origin cannot open; the history variable `spoilt` says that this happened, and the
property excepts it. `Searched` says of a search that is neither disturbed nor spoilt (`Calm`) that
until the target is reached everything under way is awaited all along its trail back to the origin
(`Unfound`, `Chain`), that from then on its answer is (`Found`), and that the neighbours of a peer
that was reached were reached or have a copy on its way (`Closed`). When the origin gives up nothing is under
way, so the peers reached are closed under the graph and the target is not among them.

### The relay connection

An attempt that replaces the relay gives the old one up before it has the new one. `ReservationKept`
follows the reservation it began with: through resolving and dialling it is the active one and none
of its events is under way; from the hang-up on its relay is on the list of the attempt (which is
what the fallback is for), and the node is there, so the list cannot run out. `ChoiceIsAhead` follows
the selection: either the attempt at work asked for the relay selected last, and has it at the head of its list,
or another attempt is queued, and `Finish` begins it before anybody sees the end of this one. Both need
that nothing starts an attempt without replacing while a reservation is active (`IdleIsSettled`) and
that the node exists from creation to stop (`NodeIsThere`). All hold while the manager runs; of what
is left over after a stop the invariant says only that it is typed (see `StoppedStaysDown` above).

The relay list keeps the first occurrence of each relay; `Distinct` is written as a function of
those positions, for the reason given for `PickedAt` (Friend requests), and `DistinctFacts` proves what is needed of it.

### Attachments and their store

`StoreIsUsedAsSpecified` maps each step of a task to a step of the store's specification, which
allows anyone to queue anything, or to a stutter. Hence what is proved of the store alone holds of
every use of it. `StoreInv` is that proof's invariant: only the head of the queue has begun; what a
begun operation read at its beginning (the usage record and the fragments it has chosen to evict)
is still what the database says, because nobody else writes until it ends; and the usage record
equals the fragments present. Its lemmas are about finite sets and cardinalities.

`HonestKeepTrust` follows from an invariant of the health records (`HealthInv`): failures of an
honest peer lead to pauses, never to distrust.

`CancelledLeavesNothing` needs to follow an upload through all its phases. `UploadInv` joins to
`StoreInv`: a manifest's blob is covered by its fragments (`Covered`), a discard in the queue is of
the whole blob (`DiscardsAreWhole`), and for each phase which operations of the blob may be in the
queue, in which order, and whether the store may hold anything of it (`Safe`). The cases that make
it necessary are an abort while the write waits in the queue, during its evictions, and between
its commit and the return of the promise. Of the peers it assumes what the guard of `Asks4Room`
says: a peer asks to have a blob stored here only if it is the peer's own or was published to it
before. `handleBlobSyncRequest` itself accepts fragments of any manifest of the scope
(`blobs/swarm.ts:991-1035`), so a peer that knew the descriptor of a cancelled upload could store it
here again.

`SteadyPeersAreUsed` follows a task through its rounds: of each steady peer and each fragment still
missing, the task has not tried it yet or awaits its answer (`Placed`, `Listing`, `Collected` in
`SteadyInv`), so a task that has nothing left to ask has used them all.

### What only TLC shows

Every safety property, action property and refinement that a run checks is also proved. Liveness
under fairness is outside the prover's reach and stays with TLC: `CatchesUp`, `Reconnects`,
`EveryCallSettles`, `EveryRouteEnds` and `EveryTaskEnds`. So do the refutations listed above.

## Hazards beyond the list

`PROJECT.json` lists the hazards that matter most and the properties about them. These were met on
the way and are not in it:

* Sessions. Only the current session's pending init is serialised (`seal/session.ts:257`). Writes
  of the session state are best effort (`seal/persist.ts:121`), so a crash may resume an older
  ratchet; a crash between that write and the storing of the message loses the plaintext
  (`seal/session.ts:392`). One retired bundle is kept (`seal/session.ts:27`), and two strangers may
  pick one slot (`seal/bundle.ts:196`): the loser's first contact is refused.
* Spaces. Delayed `sync.remove` and `sync.leave` undo a membership renewed in between
  (`sync/inbound.ts:953`); a lost leave leaves a ghost member (`:941`); after a fork of one epoch the
  owner's next update at that epoch is refused (`:884`); a fresh join neither replays the buffer
  nor installs a root at once (`engine/engine.ts:1259`); an envelope's mode is judged by the
  record and its key by the live keys (`sync/inbound.ts:310`, covered by `LossIsExplained`).
* Friends. A cancel that crosses an accept leaves one side with a friend (`sync/inbound.ts:1349`);
  two peers that request each other ignore each other's request until both expire (`:1302`); a
  request cut by a restart stays pending until it is retried (`state/mutations.ts:1460`).
* Inbox. One day of clock skew makes a holder refuse a drain (`delivery/inboxToken.ts:70`); a drain
  returns the oldest entries first, so packets that cannot be opened hide newer ones
  (`delivery/peerMailbox.ts:300`); an edit that was already applied is retried until it expires
  (`sync/inbound.ts:609`).
* History. A missed edit is never recovered, for paging asks only for what is older
  (`engine/engine.ts:1290`); a trimmed tombstone is forgotten (`state/store.ts:410`; the
  exception `forgot` of `VersionsOnlyAdvance`); an edit under an epoch not yet installed is dropped,
  where a message would be held (`sync/inbound.ts:513`).

## Plan

Written in this order, the most important behaviour first:

1. Direct messages: `OnceChannel`, `SealRatchet`, its proofs, `SealSessions`. *Done.*
2. Spaces: `ChannelCrypto`, `ChannelDelivery`, `SpaceSync`, `SpaceKeys`, their proofs. *Done.*
3. Outbound delivery and the friend requests that use it: `FriendRequests`. *Done.*
4. Recipient inbox and its holders: `RecipientInbox`. *Done.*
5. Signed history: `SignedHistory`. *Done.*
6. Requests: `PeerStream`, `RoutedRequest`, their proofs. *Done.*
7. Transport manager: `TransportManager`. *Done.*
8. Attachments and their store: `BlobStore`, `Attachments`, their proofs. *Done.*

What would come next: an abstract once-only register that `RecipientInbox` and
`FriendRequests` implement; a model of the browser's RTCPeerConnection, and on it the voice
session.

## Not modelled

* **Voice** (`voice/*`). Negotiation happens inside the browser's RTCPeerConnection, whose state
  machine would have to be modelled first. Reading shows that connections and roster entries can be
  made after a stop or after a peer has left, so properties of this code alone would consist of
  exceptions.
* **Recovery and custody** (`recovery/*`): packet formats, key derivation and hashing around one
  bounded map with expiry.
* **Legacy mailbox and HTTP upload**: HTTP clients used as a last fallback, with no state of their
  own. **The stores in memory** for browsers without IndexedDB follow the rules of the ones that
  are modelled, in one step each.
* **Identity, capability map, runtime facade, user interface, browser helpers, desktop shell,
  website, scripts**: presentation, platform and tooling.
* Within the modelled parts: reactions, polls, pins and presence; role permissions; deletion of a
  space; direct messages beyond their sessions; expiry of links and the legacy token formats other
  than admission by the owner's secret; peer exchange and discovery; several routed requests at once;
  the codec, and the cap on requests in flight at a serving peer; the order of eviction and of
  providers; size limits and input validation; lengths of backoffs; a persist that fails
  (`seal/persist.ts` is best effort, the models assume the last write succeeded). `PROJECT.json`
  names them per component.
