---------------------------- MODULE SealSessions ----------------------------
(***************************************************************************)
(* First contact and session bookkeeping between two peers of a direct     *)
(* message: SealSessions of native/seal/session.ts over X3DH of            *)
(* native/seal/bundle.ts.  Each side may open a session with the other,    *)
(* both at once; each keeps at most its current session and one            *)
(* predecessor.  Fetching the other's prekey bundle is the one await: any  *)
(* handler may run, and any other encryption start, while it is pending.   *)
(*                                                                         *)
(* A session stands for the ratchet SealRatchet models: what one side      *)
(* seals under it the other side's copy opens, once.  Wires may be lost,   *)
(* late, repeated or reordered: what was sent stays in wires.              *)
(***************************************************************************)
EXTENDS SealParties, Integers, Sequences, FiniteSets

CONSTANTS
    Slots,                 \* indices of one-time prekeys in a bundle
    LowWatermark,          \* OPK_LOW_WATERMARK
    Grace,                 \* RETIRED_GRACE
    MaxSessions,           \* MAX_SESSIONS_PER_PEER
    Fetches,               \* bound: encryptions of one peer that may wait at once
    MaxBundles,            \* bound: bundles a peer publishes
    MaxStrangers,          \* bound: other peers' first contacts with one peer
    MaxWires               \* bound: messages sealed

ASSUME SlotsAreNat == Slots \subseteq Nat /\ IsFiniteSet(Slots) /\ Cardinality(Slots) > LowWatermark
ASSUME LimitsAreNat == LowWatermark \in Nat /\ Grace \in Nat /\ MaxSessions \in Nat \ {0}

Other(p) == CHOOSE q \in Party : q # p

VARIABLES
    sessions,   \* sessions[p]: p's sessions with the other peer, current first
    bundle,     \* bundle[p]: the number of p's published bundle and its consumed slots
    retired,    \* retired[p]: the bundles p published before, newest first
    fetching,   \* fetching[p][f]: what p's encryption f awaits, or got
    inits,      \* inits[n]: the X3DH init of the n-th session ever initiated
    wires,      \* every wire handed to the network
    opened,     \* opened[p]: wires p has opened
    plaintexts, \* plaintexts[p]: how many plaintexts p has handed on
    strangers   \* strangers[p]: first contacts of other peers p has answered

sessionsVars == <<sessions, bundle, retired, fetching, inits, wires, opened, plaintexts, strangers>>

Idle == [stage |-> "idle"]
Asked == [stage |-> "asked"]

----------------------------------------------------------------------------
(* What the methods compute. *)

Open(b) == Slots \ b.consumed
\* x3dhInitiate's choice is a function of the initiator and the bundle: a retry
\* against the same bundle takes the same slot.
Pick(open) == CHOOSE s \in open : \A t \in open : s <= t

Low(b) == Cardinality(Open(b)) <= LowWatermark
\* maybeRotateBundle, given whether the published bundle has expired: the bundle to
\* publish and the ones retained.
Rotates(b, expired) == expired \/ Low(b)
NextBundle(b, expired) ==
    IF Rotates(b, expired) THEN [gen |-> b.gen + 1, consumed |-> {}] ELSE b
NextRetired(b, old, expired) ==
    IF Rotates(b, expired)
    THEN LET all == <<b>> \o old
         IN  SubSeq(all, 1, IF Len(all) < Grace THEN Len(all) ELSE Grace)
    ELSE old

Current(p) == sessions[p][1]
Without(list, i) == SubSeq(list, 1, i - 1) \o SubSeq(list, i + 1, Len(list))
BoundedToOne(list) == SubSeq(list, 1, 1)
Bounded(list) == SubSeq(list, 1, IF Len(list) < MaxSessions THEN Len(list) ELSE MaxSessions)
Entry(n, pending, spent) == [id |-> n, pending |-> pending, spent |-> spent]

\* The entry of p's list that opens wire w: ratchetDecrypt accepts it once.
OpenedBy(p, w) == {i \in 1..Len(sessions[p]) :
                      sessions[p][i].id = w.session /\ w \notin sessions[p][i].spent}

\* bootstrapFromInit: the candidates among p's bundles an init was built against.
BuiltAgainstAnySlot(b, init) == b.gen = init.gen
BuiltAgainst(b, init) == b.gen = init.gen /\ init.opk \notin b.consumed
Candidates(p, init) == (IF BuiltAgainst(bundle[p], init) THEN {0} ELSE {})
                        \cup {i \in 1..Len(retired[p]) : BuiltAgainst(retired[p][i], init)}
\* consumeOpkIn.
ConsumedNothing(b, slot) == b
Consumed(b, slot) == [b EXCEPT !.consumed = @ \cup {slot}]

SessionsInit ==
    /\ sessions = [p \in Party |-> <<>>]
    /\ bundle = [p \in Party |-> [gen |-> 0, consumed |-> {}]]
    /\ retired = [p \in Party |-> <<>>]
    /\ fetching = [p \in Party |-> [f \in Fetches |-> Idle]]
    /\ inits = <<>>
    /\ wires = {}
    /\ opened = [p \in Party |-> {}]
    /\ plaintexts = [p \in Party |-> 0]
    /\ strangers = [p \in Party |-> 0]

----------------------------------------------------------------------------
(* Sealing. *)

Sealed(p, n, withInit) ==
    wires' = wires \cup {[no |-> Cardinality(wires) + 1, from |-> p, session |-> n,
                          init |-> withInit]}

\* encrypt with a session: the init rides along until the session is confirmed.
Encrypt(p) ==
    /\ Cardinality(wires) < MaxWires
    /\ sessions[p] # <<>>
    /\ Sealed(p, Current(p).id, Current(p).pending)
    /\ UNCHANGED <<sessions, bundle, retired, fetching, inits, opened, plaintexts, strangers>>

\* encrypt without one: ask for the other's bundle.
BeginEncrypt(p, f) ==
    /\ Cardinality(wires) < MaxWires
    /\ sessions[p] = <<>> /\ fetching[p][f] = Idle
    /\ fetching' = [fetching EXCEPT ![p][f] = Asked]
    /\ UNCHANGED <<sessions, bundle, retired, inits, wires, opened, plaintexts, strangers>>

\* serveBundle at the other peer.
ServeBundle(p, f, expired) ==
    LET q == Other(p)
    IN  /\ fetching[p][f] = Asked
        /\ bundle' = [bundle EXCEPT ![q] = NextBundle(@, expired)]
        /\ bundle'[q].gen < MaxBundles
        /\ retired' = [retired EXCEPT ![q] = NextRetired(bundle[q], @, expired)]
        /\ fetching' = [fetching EXCEPT ![p][f] =
                           [stage |-> "served", gen |-> bundle'[q].gen, open |-> Open(bundle'[q])]]
        /\ UNCHANGED <<sessions, inits, wires, opened, plaintexts, strangers>>

\* The await ends: initiate, and replace whatever the list holds by now.
FinishEncrypt(p, f) ==
    LET b == fetching[p][f]
        n == Len(inits) + 1
    IN  /\ b.stage = "served"
        /\ Cardinality(wires) < MaxWires
        /\ fetching' = [fetching EXCEPT ![p][f] = Idle]
        /\ inits' = Append(inits, [from |-> p, gen |-> b.gen, opk |-> Pick(b.open)])
        /\ sessions' = [sessions EXCEPT ![p] = <<Entry(n, TRUE, {})>>]
        /\ Sealed(p, n, TRUE)
        /\ UNCHANGED <<bundle, retired, opened, plaintexts, strangers>>

\* The other peer is unreachable: encrypt throws and the message stays local.
FailEncrypt(p, f) ==
    /\ fetching[p][f] # Idle
    /\ fetching' = [fetching EXCEPT ![p][f] = Idle]
    /\ UNCHANGED <<sessions, bundle, retired, inits, wires, opened, plaintexts, strangers>>

----------------------------------------------------------------------------
(* Opening. *)

InboundWires(p) == {w \in wires : w.from # p}

Accept(p, w) ==
    /\ opened' = [opened EXCEPT ![p] = @ \cup {w}]
    /\ plaintexts' = [plaintexts EXCEPT ![p] = @ + 1]

\* decrypt under a retained session, which becomes the confirmed current one.
Decrypt(p, w) ==
    /\ \E i \in OpenedBy(p, w) :
         LET entry == Entry(w.session, FALSE, sessions[p][i].spent \cup {w})
         IN  sessions' = [sessions EXCEPT ![p] = <<entry>> \o Without(@, i)]
    /\ Accept(p, w)
    /\ UNCHANGED <<bundle, retired, fetching, inits, wires, strangers>>

\* An archived session's init never rides again.
Archived(list) == [i \in 1..Len(list) |-> [list[i] EXCEPT !.pending = FALSE]]

\* decrypt under no session, but with an init: bootstrapFromInit.
Bootstrap(p, w, expired) ==
    LET init == inits[w.session]
        at == CHOOSE i \in Candidates(p, init) : \A j \in Candidates(p, init) : i <= j
        current == IF at = 0 THEN Consumed(bundle[p], init.opk) ELSE bundle[p]
        old == IF at = 0 THEN retired[p]
               ELSE [retired[p] EXCEPT ![at] = Consumed(@, init.opk)]
    IN  /\ OpenedBy(p, w) = {} /\ w.init
        /\ Candidates(p, init) # {}
        /\ sessions' = [sessions EXCEPT ![p] =
                           Bounded(<<Entry(w.session, FALSE, {w})>> \o Archived(@))]
        /\ bundle' = [bundle EXCEPT ![p] = NextBundle(current, expired)]
        /\ bundle'[p].gen < MaxBundles
        /\ retired' = [retired EXCEPT ![p] = NextRetired(current, old, expired)]
        /\ Accept(p, w)
        /\ UNCHANGED <<fetching, inits, wires, strangers>>

\* Another peer's first contact takes any slot left in the bundle it was served.
Stranger(p, slot, expired) ==
    /\ strangers[p] < MaxStrangers
    /\ slot \in Open(bundle[p])
    /\ LET current == Consumed(bundle[p], slot)
       IN  /\ bundle' = [bundle EXCEPT ![p] = NextBundle(current, expired)]
           /\ bundle'[p].gen < MaxBundles
           /\ retired' = [retired EXCEPT ![p] = NextRetired(current, @, expired)]
    /\ strangers' = [strangers EXCEPT ![p] = @ + 1]
    /\ UNCHANGED <<sessions, fetching, inits, wires, opened, plaintexts>>

\* Closed and reopened: serialize keeps a pending init for the current session only.
Restart(p) ==
    /\ fetching' = [fetching EXCEPT ![p] = [f \in Fetches |-> Idle]]
    /\ sessions' = [sessions EXCEPT ![p] =
                       [i \in 1..Len(@) |-> IF i = 1 THEN @[i] ELSE Archived(@)[i]]]
    /\ UNCHANGED <<bundle, retired, inits, wires, opened, plaintexts, strangers>>

SessionsNext ==
    \/ \E p \in Party : Encrypt(p) \/ Restart(p)
    \/ \E p \in Party : \E f \in Fetches : BeginEncrypt(p, f) \/ FinishEncrypt(p, f) \/ FailEncrypt(p, f)
    \/ \E p \in Party : \E f \in Fetches : \E expired \in BOOLEAN : ServeBundle(p, f, expired)
    \/ \E p \in Party : \E w \in InboundWires(p) : Decrypt(p, w)
    \/ \E p \in Party : \E w \in InboundWires(p) : \E expired \in BOOLEAN : Bootstrap(p, w, expired)
    \/ \E p \in Party : \E slot \in Slots : \E expired \in BOOLEAN : Stranger(p, slot, expired)

SessionsSpec == SessionsInit /\ [][SessionsNext]_sessionsVars

----------------------------------------------------------------------------
(* Properties. *)

Sessions == 1..Len(inits)
EntryOK(e) == e.id \in Sessions /\ e.pending \in BOOLEAN /\ e.spent \subseteq wires
BundleOK(b) == b.gen \in 0..MaxBundles /\ b.consumed \subseteq Slots

\* Types and limits: a session pending its first answer is the peer's own, is the
\* current one, and stands alone, so a restart (which keeps one init) loses nothing.
SessionsTypeOK ==
    /\ \A p \in Party :
         /\ Len(sessions[p]) <= MaxSessions /\ Len(retired[p]) <= Grace
         /\ \A i \in 1..Len(sessions[p]) :
              /\ EntryOK(sessions[p][i])
              /\ sessions[p][i].pending => i = 1 /\ inits[sessions[p][i].id].from = p
         /\ BundleOK(bundle[p]) /\ \A i \in 1..Len(retired[p]) : BundleOK(retired[p][i])
         /\ opened[p] \subseteq InboundWires(p)
    /\ \A n \in Sessions : inits[n].from \in Party /\ inits[n].opk \in Slots
    /\ \A w \in wires : w.session \in Sessions

\* "A consumed OPK must never back a second session" (bootstrapFromInit): of the
\* sessions initiated with the same one-time prekey of a peer, that peer has opened
\* wires of its initiator under at most one -- whatever rotated, was overwritten or
\* came again in between.
Backed(p) == {w.session : w \in {v \in opened[p] : inits[v.session].from # p}}
PrekeysAreOneTime ==
    \A p \in Party : \A n, k \in Backed(p) :
        (inits[n].gen = inits[k].gen /\ inits[n].opk = inits[k].opk) => n = k

\* "a recorded first-contact wire cannot be replayed later to reset a session"
\* (decrypt): a wire that was opened before changes no session list again, so the
\* peers together implement the channel of OnceChannel.
SessionsChannel == INSTANCE OnceChannel WITH sent <- wires, accepted <- opened, opens <- plaintexts
SessionsImplementOnceChannel == SessionsChannel!Spec

\* A peer that has a session can be read: the wire it would seal now is one the
\* other can open, under a session it keeps or from the init the wire carries.
Readable(p) ==
    \/ \E i \in 1..Len(sessions[Other(p)]) : sessions[Other(p)][i].id = Current(p).id
    \/ Current(p).pending /\ Candidates(Other(p), inits[Current(p).id]) # {}

\* "a crossed first-contact (both sides initiate simultaneously) or a rejected
\* handshake converges on one shared session instead of wedging forever"
\* (MAX_SESSIONS_PER_PEER): the two peers are never both unreadable to each other.
NeverBothWedged ==
    (\A p \in Party : sessions[p] # <<>>) => \E p \in Party : Readable(p)
=============================================================================
