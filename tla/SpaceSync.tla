----------------------------- MODULE SpaceSync -----------------------------
(***************************************************************************)
(* How one space's structural record, membership and channel epoch spread  *)
(* between its owner and its members: the sync.* handlers of               *)
(* native/sync/inbound.ts, the owner's mutations of                        *)
(* native/state/mutations.ts, the portable invites of                      *)
(* native/sync/invite.ts, and the client's half of joins and re-pulls in   *)
(* native/engine/engine.ts.                                                *)
(*                                                                         *)
(* The owner issues revisions; every rotation mints a fresh root under the *)
(* next epoch.  An invite link carries a capability: one exact next        *)
(* revision, signed by the owner and encrypted under the current root, that*)
(* any member can enact while the owner is away.  Updates and admissions   *)
(* are sent once, on independent streams: they may be lost, late, repeated *)
(* or overtaken, so what was sent stays in updates and admits and each     *)
(* receipt of it is a separate step.                                       *)
(*                                                                         *)
(* A root is the number of its minting.  stamp stands for updated_at, and  *)
(* the other contents of a record (channels, roles, names) for its         *)
(* revision, which changes with them.                                      *)
(***************************************************************************)
EXTENDS Integers, FiniteSets

CONSTANTS
    Owner, Peers,        \* the owner and the other clients
    Founders,            \* the peers that are members at the start
    TreeMax,             \* TREE_MAX_MEMBERS
    MaxRev,              \* bound: revisions the owner issues
    MaxRoots             \* bound: roots the owner mints

ASSUME OwnerIsNoPeer == Owner \notin Peers
ASSUME FoundersArePeers == Founders \subseteq Peers
ASSUME TreeMaxIsNat == TreeMax \in Nat
ASSUME MaxRootsIsNat == MaxRoots \in Nat

Clients == {Owner} \cup Peers

VARIABLES
    rec,        \* rec[x]: the server record x stores; rec[Owner] is the authority
    secret,     \* the owner's invite_secret: "founding", "fresh" or "none"
    roots,      \* how many roots the owner has minted
    updates,    \* every sync.update record the owner has broadcast
    admits,     \* every sync.admit that was sent
    caps,       \* every capability the owner has minted: what links carry
    removes,    \* peers a sync.remove is under way to
    leaves,     \* peers whose sync.leave is under way to the owner
    reply,      \* reply[p]: the answer p's outstanding join or re-pull got
    known,      \* known[p]: the roots p can compute
    barred,     \* barred[p]: roots of epochs before p's admission, without p
    kick        \* kick[p]: the kick p is under, if any

vars == <<rec, secret, roots, updates, admits, caps, removes, leaves, reply,
          known, barred, kick>>

----------------------------------------------------------------------------
(* Records, proofs and capabilities. *)

NoRec == [rev |-> -1]
NoCap == [gen |-> -1]
NoReply == [kind |-> "none"]
NoKick == [rev |-> -1]

\* serverRecordV1: what the owner's proof covers.  Members are deliberately outside.
Struct(r) == [rev |-> r.rev, epoch |-> r.epoch, root |-> r.root, mode |-> r.mode,
              gen |-> r.gen, stamp |-> r.stamp]
RecordProof(r) == [kind |-> "record", of |-> Struct(r)]
TransitionProof(c) == [kind |-> "transition", of |-> c.next]
\* verifyServerRecord: the proof matches the record it is stored with.
Verifies(r) == r.proof.of = Struct(r)

\* What leaves the client: invite_secret and admission_capability are stripped.
Stripped(r) == [r EXCEPT !.cap = NoCap]
With(r, s) == [r EXCEPT !.rev = s.rev, !.epoch = s.epoch, !.root = s.root,
                        !.mode = s.mode, !.gen = s.gen, !.stamp = s.stamp]

SelectMode(count) == IF count > TreeMax THEN "crowd" ELSE "tree"
\* rotateChannelEpoch.
Rotated(r) ==
    [r EXCEPT !.root = roots + 1, !.epoch = @ + 1,
              !.mode = IF @ = "crowd" THEN "crowd" ELSE SelectMode(Cardinality(r.members))]
\* broadcastServerUpdate: the next revision, signed.
Issued(r) ==
    LET next == [r EXCEPT !.rev = @ + 1]
    IN  [next EXCEPT !.proof = RecordProof(next)]

\* createForwardSecureInviteCapability over the record r: the one next record it allows.
Capability(r) ==
    [gen |-> r.gen, base |-> r.root,
     next |-> [rev |-> r.rev + 1, epoch |-> r.epoch + 1, root |-> roots + 1,
               mode |-> "crowd", gen |-> r.gen + 1, stamp |-> r.stamp + 1]]

\* openForwardSecureInviteTransition: exactly one step on from a record that verifies.
OpensTransition(r, c) ==
    /\ Verifies(r) /\ c.gen = r.gen /\ c.base = r.root
    /\ c.next.epoch = r.epoch + 1 /\ c.next.rev = r.rev + 1 /\ c.next.gen = r.gen + 1
\* isForwardSecureInviteTransitionRecord: the cohort is installed already.
IsTransitionRecord(r, c) ==
    r.gen = c.gen + 1 /\ r.proof = TransitionProof(c) /\ Verifies(r)

\* resolvePortableInvite.
Resolves(r, c) ==
    /\ c # NoCap
    /\ IF c.gen = r.gen THEN OpensTransition(r, c) ELSE IsTransitionRecord(r, c)
AuthorizedCurrent(r, c) == Struct(r)
Authorized(r, c) == IF c.gen = r.gen THEN c.next ELSE Struct(r)
\* applyForwardSecureAdmission.
Admitted(r, c, p) ==
    [With(r, Authorized(r, c)) EXCEPT
        !.members = @ \cup {p},
        !.proof = IF c.gen = r.gen THEN TransitionProof(c) ELSE @]

Own == rec[Owner]
Holds(x) == rec[x] # NoRec

Init ==
    /\ LET members == Founders \cup {Owner}
           struct == [rev |-> 0, epoch |-> 0, root |-> 0, gen |-> 1, stamp |-> 0,
                      mode |-> SelectMode(Cardinality(members))]
           first == [rev |-> 0, epoch |-> 0, root |-> 0, gen |-> 1, stamp |-> 0,
                     mode |-> struct.mode, members |-> members, cap |-> NoCap,
                     proof |-> [kind |-> "record", of |-> struct]]
       IN  rec = [x \in Clients |-> IF x \in members THEN first ELSE NoRec]
    /\ secret = "founding"
    /\ roots = 0
    /\ updates = {} /\ admits = {} /\ caps = {} /\ removes = {} /\ leaves = {}
    /\ reply = [p \in Peers |-> NoReply]
    /\ known = [p \in Peers |-> IF p \in Founders THEN {0} ELSE {}]
    /\ barred = [p \in Peers |-> {}]
    /\ kick = [p \in Peers |-> NoKick]

----------------------------------------------------------------------------
(* The owner's decisions. *)

\* Store the owner's new record, sign it as the next revision and send it to members.
Broadcast(record) ==
    /\ record.rev < MaxRev
    /\ rec' = [rec EXCEPT ![Owner] = Issued(record)]
    /\ updates' = updates \cup {Stripped(Issued(record))}
    /\ roots' = IF record.root > roots THEN record.root ELSE roots
    /\ roots' <= MaxRoots

InvitesClosed(r) == [r EXCEPT !.gen = @ + 1, !.cap = NoCap, !.stamp = @ + 1]

KickedWithoutRotation(p) == InvitesClosed([Own EXCEPT !.members = @ \ {p}])
Kicked(p) == Rotated(InvitesClosed([Own EXCEPT !.members = @ \ {p}]))

\* nativeRemoveMember.
Kick(p) ==
    /\ p \in Own.members
    /\ Broadcast(Kicked(p))
    /\ secret' = "fresh"
    /\ removes' = removes \cup {p}
    /\ kick' = [kick EXCEPT ![p] = [rev |-> Own.rev + 1, roots |-> roots]]
    /\ UNCHANGED <<admits, caps, leaves, reply, known, barred>>

\* nativeRotateInvite and nativeRevokeInvite.
CloseInvites(kept) ==
    /\ Broadcast(InvitesClosed(Own))
    /\ secret' = kept
    /\ UNCHANGED <<admits, caps, removes, leaves, reply, known, barred, kick>>

\* nativeUpdateServerMeta moves updated_at; a channel or role edit does not.
Edit(moved) ==
    /\ Broadcast([Own EXCEPT !.stamp = @ + moved])
    /\ UNCHANGED <<secret, admits, caps, removes, leaves, reply, known, barred, kick>>

\* nativeInviteLink when no cached capability is usable: sign the record if its proof
\* does not match, then mint the next cohort's capability and cache it.
MintInvite ==
    /\ secret # "none" /\ roots < MaxRoots
    /\ ~Resolves(Own, Own.cap)
    /\ LET signed == IF Verifies(Own) THEN Own ELSE [Own EXCEPT !.proof = RecordProof(Own)]
           c == Capability(signed)
       IN  /\ rec' = [rec EXCEPT ![Owner] = [signed EXCEPT !.cap = c]]
           /\ caps' = caps \cup {c}
    /\ roots' = roots + 1
    /\ UNCHANGED <<secret, updates, admits, removes, leaves, reply, known, barred, kick>>

\* sync.leave at the owner.
TakeLeave(p) ==
    /\ p \in leaves
    /\ leaves' = leaves \ {p}
    /\ IF p \in Own.members
       THEN Broadcast(Rotated([Own EXCEPT !.members = @ \ {p}]))
       ELSE UNCHANGED <<rec, updates, roots>>
    /\ UNCHANGED <<secret, admits, caps, removes, reply, known, barred, kick>>

----------------------------------------------------------------------------
(* A member's handlers. *)

\* nativeLeaveServer: the live keys are not erased with the record.
Leave(p) ==
    /\ Holds(p)
    /\ rec' = [rec EXCEPT ![p] = NoRec]
    /\ leaves' = leaves \cup {p}
    /\ UNCHANGED <<secret, roots, updates, admits, caps, removes, reply, known, barred, kick>>

\* sync.remove from the owner.
TakeRemove(p) ==
    /\ p \in removes
    /\ removes' = removes \ {p}
    /\ rec' = [rec EXCEPT ![p] = NoRec]
    /\ UNCHANGED <<secret, roots, updates, admits, caps, leaves, reply, known, barred, kick>>

Reuses(r, u) == u.epoch = r.epoch /\ (u.mode # r.mode \/ u.root # r.root)

UpdatedModeAlways(r, u) ==
    [r EXCEPT !.rev = u.rev, !.gen = u.gen, !.members = u.members, !.proof = u.proof,
              !.epoch = IF u.epoch >= r.epoch THEN u.epoch ELSE @,
              !.root = IF u.epoch >= r.epoch THEN u.root ELSE @,
              !.mode = u.mode]
\* What sync.update stores: the key tuple only if the epoch does not go back, and
\* everything else but updated_at.
Updated(r, u) ==
    LET applyChannel == u.epoch >= r.epoch
    IN  [r EXCEPT !.rev = u.rev, !.gen = u.gen, !.members = u.members, !.proof = u.proof,
                  !.epoch = IF applyChannel THEN u.epoch ELSE @,
                  !.root = IF applyChannel THEN u.root ELSE @,
                  !.mode = IF applyChannel THEN u.mode ELSE @]

AppliesAnyRevision(r, u) == ~Reuses(r, u)
\* A stale revision and a reused epoch change nothing.
Applies(r, u) == u.rev > r.rev /\ ~Reuses(r, u)

\* sync.update from the owner.
ReceiveUpdate(q, u) ==
    /\ Holds(q) /\ u \in updates /\ q \in u.members
    /\ IF Applies(rec[q], u)
       THEN /\ rec' = [rec EXCEPT ![q] = Updated(@, u)]
            /\ known' = [known EXCEPT ![q] = @ \cup {u.root}]
       ELSE UNCHANGED <<rec, known>>
    /\ UNCHANGED <<secret, roots, updates, admits, caps, removes, leaves, reply, barred, kick>>

\* What x must tell the members it knew before it admitted p (broadcastPortableAdmission).
Announced(x, p, c) ==
    {[from |-> x, to |-> q, who |-> p, cap |-> c] : q \in rec[x].members \ {x, p}}

\* x enacts capability c for p: its record and keys, and the members it tells.
Enact(x, p, c) ==
    /\ rec' = [rec EXCEPT ![x] = Admitted(@, c, p)]
    /\ known' = [q \in Peers |-> IF q = x THEN known[q] \cup {rec'[x].root} ELSE known[q]]
    /\ admits' = admits \cup (IF p \in rec[x].members THEN {} ELSE Announced(x, p, c))

\* sync.admit: the sender must be a member, the capability must open here.
ReceiveAdmit(a) ==
    /\ a \in admits /\ Holds(a.to)
    /\ a.from \in rec[a.to].members
    /\ Resolves(rec[a.to], a.cap)
    /\ Enact(a.to, a.who, a.cap)
    /\ UNCHANGED <<secret, roots, updates, caps, removes, leaves, reply, barred, kick>>

----------------------------------------------------------------------------
(* Joining by link, and re-pulling the owner's record. *)

\* What links lead to: the roots known, and from the base of a link its next root.
Reach(ks) ==
    {r \in 0..MaxRoots : \A S \in SUBSET (0..MaxRoots) :
        (ks \subseteq S /\ \A c \in caps : c.base \in S => c.next.root \in S) => r \in S}
\* The roots p can compute, from those it was given and every link.
Knows(p) == Reach(known[p])

\* Every record a client stores, or is about to get in an answer.
Records ==
    {rec[x] : x \in {z \in Clients : Holds(z)}}
      \cup {reply[q].record : q \in {z \in Peers : reply[z] # NoReply /\ reply[z].ok}}

\* The roots p has been offered: in a record that lists it, whoever has it, or by the
\* link it was admitted with.
Offered(p) ==
    known[p] \cup {r.root : r \in {s \in Records \cup updates : p \in s.members}}
      \cup {a.cap.next.root : a \in {b \in admits : b.who = p}}

\* Roots in use, by clients that do not list p, under an epoch older than the one p
\* is admitted to, unless p had been offered them before.
OlderRoots(p, epoch) ==
    {rec[y].root : y \in {z \in Clients : /\ Holds(z) /\ rec[z].epoch < epoch
                                          /\ p \notin rec[z].members}} \ Reach(Offered(p))

\* p is admitted to an epoch: bookkeeping only.  A link minted after a kick lifts it.
NoteAdmission(p, epoch, minted) ==
    /\ barred' = [barred EXCEPT ![p] = OlderRoots(p, epoch)]
    /\ kick' = IF kick[p] # NoKick /\ minted > kick[p].roots
               THEN [kick EXCEPT ![p] = NoKick] ELSE kick

\* sync.join at x with capability c.
ServeJoin(x, p, c) ==
    IF p \notin rec[x].members /\ Resolves(rec[x], c)
    THEN Enact(x, p, c) /\ NoteAdmission(p, c.next.epoch, c.next.root)
    ELSE UNCHANGED <<rec, known, admits, barred, kick>>

\* The record x answers with, or a rejection; a joiner keeps the link a seed honoured.
AnswerOf(x, p, c, kind) ==
    IF p \notin rec'[x].members THEN [kind |-> kind, ok |-> FALSE]
    ELSE [kind |-> kind, ok |-> TRUE, prior |-> IF Holds(p) THEN rec[p].epoch ELSE -1,
          record |-> [rec'[x] EXCEPT !.cap = IF x = Owner THEN NoCap ELSE c]]

\* engine.joinServer with an invite link, at the owner or at a seed member.
Join(p, x, c) ==
    /\ ~Holds(p) /\ reply[p] = NoReply /\ Holds(x) /\ c \in caps
    /\ ServeJoin(x, p, c)
    /\ reply' = [reply EXCEPT ![p] = AnswerOf(x, p, c, "join")]
    /\ UNCHANGED <<secret, roots, updates, caps, removes, leaves>>

\* The same with a link of an older client: only the owner's invite_secret honours
\* it, and the owner adds, rotates and broadcasts at once.
JoinByOldLink(p) ==
    /\ ~Holds(p) /\ reply[p] = NoReply /\ secret = "founding"
    /\ p \notin Own.members
    /\ Broadcast(Rotated([Own EXCEPT !.members = @ \cup {p}]))
    /\ NoteAdmission(p, Own.epoch + 1, roots')
    /\ reply' = [reply EXCEPT ![p] = AnswerOf(Owner, p, NoCap, "join")]
    /\ UNCHANGED <<secret, admits, caps, removes, leaves, known>>

\* reconcileJoinedServers asks the owner, presenting the link it was admitted by.
Repull(p) ==
    /\ Holds(p) /\ reply[p] = NoReply /\ p \in rec[p].members
    /\ ServeJoin(Owner, p, rec[p].cap)
    /\ reply' = [reply EXCEPT ![p] = AnswerOf(Owner, p, rec[p].cap, "repull")]
    /\ UNCHANGED <<secret, roots, updates, caps, removes, leaves>>

\* propagatePortableAdmission: p presents its link to a member, ignoring the answer.
Announce(p, x) ==
    /\ Holds(p) /\ Holds(x) /\ x \in rec[p].members \ {p} /\ p \notin rec[x].members
    /\ ServeJoin(x, p, rec[p].cap)
    /\ UNCHANGED <<secret, roots, updates, caps, removes, leaves, reply>>

\* isAuthoritativeJoinRecord, and the owner's proof where a seed answered.
Authoritative(p) == p \in reply[p].record.members /\ Verifies(reply[p].record)

\* The answer replaces the whole record, whatever happened while it was awaited.
TakeReply(p) ==
    /\ reply[p] # NoReply
    /\ reply' = [reply EXCEPT ![p] = NoReply]
    /\ IF ~reply[p].ok
       THEN /\ rec' = IF reply[p].kind = "repull" THEN [rec EXCEPT ![p] = NoRec] ELSE rec
            /\ UNCHANGED known
       ELSE /\ known' = [known EXCEPT ![p] = @ \cup {reply[p].record.root}]
            /\ IF ~Authoritative(p)
               THEN UNCHANGED rec
               ELSE rec' = [rec EXCEPT ![p] = reply[p].record]
    /\ UNCHANGED <<secret, roots, updates, admits, caps, removes, leaves, barred, kick>>

\* The answer is lost, or the client restarts while it waits.
LoseReply(p) ==
    /\ reply[p] # NoReply
    /\ reply' = [reply EXCEPT ![p] = NoReply]
    /\ UNCHANGED <<rec, secret, roots, updates, admits, caps, removes, leaves,
                   known, barred, kick>>

Next ==
    \/ \E p \in Peers : Kick(p) \/ TakeLeave(p) \/ JoinByOldLink(p)
    \/ \E kept \in {"fresh", "none"} : CloseInvites(kept)
    \/ \E moved \in 0..1 : Edit(moved)
    \/ MintInvite
    \/ \E p \in Peers : Leave(p) \/ TakeRemove(p)
    \/ \E q \in Peers : \E u \in updates : ReceiveUpdate(q, u)
    \/ \E a \in admits : ReceiveAdmit(a)
    \/ \E p \in Peers : \E x \in Clients \ {p} : \E c \in caps : Join(p, x, c)
    \/ \E p \in Peers : Repull(p) \/ TakeReply(p) \/ LoseReply(p)
    \/ \E p \in Peers : \E x \in Clients : Announce(p, x)

Spec == Init /\ [][Next]_vars

----------------------------------------------------------------------------
(* Properties. *)

SecurityModes == {"tree", "crowd"}
Structs == [rev : 0..MaxRev + 1, epoch : 0..MaxRev + 1, root : 0..MaxRoots, mode : SecurityModes,
            gen : 1..MaxRev + 2, stamp : 0..MaxRev + 1]
Capabilities == [gen : 1..MaxRev + 1, base : 0..MaxRoots, next : Structs]
Proofs == [kind : {"record", "transition"}, of : Structs]
IsRecord(r) ==
    /\ Struct(r) \in Structs /\ r.proof \in Proofs
    /\ r.members \subseteq Clients /\ r.cap \in Capabilities \cup {NoCap}

\* Types; the authority never loses its record, and it stays a member of its space.
TypeOK ==
    /\ \A x \in Clients : Holds(x) => IsRecord(rec[x])
    /\ Holds(Owner) /\ Owner \in Own.members
    /\ secret \in {"founding", "fresh", "none"} /\ roots \in 0..MaxRoots
    /\ \A u \in updates : IsRecord(u) /\ u.cap = NoCap
    /\ caps \subseteq Capabilities
    /\ \A a \in admits : {a.from, a.to, a.who} \subseteq Clients /\ a.cap \in caps
    /\ removes \cup leaves \subseteq Peers
    /\ \A p \in Peers :
         /\ reply[p].kind # "none" /\ reply[p].ok => IsRecord(reply[p].record)
         /\ known[p] \cup barred[p] \subseteq 0..MaxRoots
         /\ kick[p] # NoKick => kick[p].rev \in 1..MaxRev /\ kick[p].roots \in 0..MaxRoots

\* "real, cryptographic revocation" (mutations.ts, nativeRemoveMember): until it is
\* let in again by a link minted after the kick, a kicked peer can compute neither
\* the owner's root nor that of any client whose record is past the kick -- though
\* it keeps its roots, every link it has seen, and the ear of members who lag.
KickRevokes ==
    \A p \in Peers : kick[p] # NoKick =>
        \A q \in Clients \ {p} :
            (Holds(q) /\ (q = Owner \/ rec[q].rev > kick[p].rev)) => rec[q].root \notin Knows(p)

\* "so they cannot derive the previous epoch's sender keys" (inbound.ts, sync.join):
\* whoever admits a peer, the owner or a member with a link, the peer never learns a
\* root that was in use, among clients that did not list it, under an epoch older than
\* the one it was admitted to -- other than by an admission, to another cohort, that
\* it had already been given.
JoinersLearnNoPast == \A p \in Peers : Knows(p) \cap barred[p] = {}

Tuple(r) == <<r.epoch, r.root, r.mode>>
\* However updates, admissions and re-pulls interleave, the epoch, root and mode a
\* client stores together are ones the owner signed together.
TupleIsSigned ==
    \A x \in Peers : Holds(x) =>
        Tuple(rec[x]) \in {Tuple(u) : u \in updates} \cup {Tuple(c.next) : c \in caps}
                           \cup {<<0, 0, SelectMode(Cardinality(Founders \cup {Owner}))>>}

\* Only the answer to a re-pull can set a stored revision back.
OnlyRepullsGoBack ==
    [][\A p \in Peers : (rec[p] # NoRec /\ rec'[p] # NoRec /\ rec'[p].rev < rec[p].rev)
         => reply[p] # NoReply /\ reply'[p] = NoReply]_vars

\* "an existing member can verify and enact the pre-authorized transition while the
\* owner is offline" (docs/PEER_OWNED_NETWORK.md): a member whose record is at the
\* owner's revision, epoch and root can open the link the owner gives out.  The code
\* does not store updated_at from an update, so the proof stored with it fails.
MembersCanEnact ==
    \A x \in Peers :
        (/\ Holds(x) /\ x \in Own.members /\ Own.cap # NoCap /\ Resolves(Own, Own.cap)
         /\ rec[x].rev = Own.rev /\ rec[x].epoch = Own.epoch /\ rec[x].root = Own.root)
        => Resolves(rec[x], Own.cap)
=============================================================================
