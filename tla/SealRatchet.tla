---------------------------- MODULE SealRatchet ----------------------------
(***************************************************************************)
(* The Seal Double Ratchet between the initiator and the responder of one  *)
(* direct-message session (native/seal/ratchet.ts, driven by encrypt and   *)
(* decrypt of native/seal/session.ts), over a network of mailboxes and     *)
(* relays that may lose, repeat, delay and reorder ciphertexts.            *)
(*                                                                         *)
(* Keys are symbolic.  A root key is the sequence of Diffie-Hellman        *)
(* outputs folded into the hybrid master secret, a DH output the set of    *)
(* the two key pairs it comes from, and a chain key the root derivation    *)
(* that created the chain with the number of times it was advanced.  An    *)
(* AEAD opens exactly when both sides derived the same message key.        *)
(***************************************************************************)
EXTENDS SealParties, Integers, Sequences, FiniteSets

CONSTANTS
    MaxSkipped,      \* MAX_SKIPPED: skipped message keys a session may retain
    SkippedKeyTtl,   \* SKIPPED_KEY_TTL_MS, in ticks of now
    MaxSends,        \* bound: messages each party sends
    MaxTime          \* bound: ticks of the clock

ASSUME BudgetIsNat == MaxSkipped \in Nat
ASSUME TtlIsNat == SkippedKeyTtl \in Nat

VARIABLES
    ratchet,       \* ratchet[p]: p's RatchetState
    established,   \* the parties whose SealSessions map holds the session
    minted,        \* minted[p]: key pairs p has generated
    sent,          \* every ciphertext ever handed to the network
    accepted,      \* accepted[p]: ciphertexts p has opened
    opens,         \* opens[p]: how many plaintexts p has handed to the application
    now

vars == <<ratchet, established, minted, sent, accepted, opens, now>>

----------------------------------------------------------------------------
(* Symbolic key material. *)

KeyPair  == Party \X Nat
DhOutput(a, b) == {a, b}
ChainKey == [dh : Seq(SUBSET KeyPair), step : Nat]
ZeroChain == [dh |-> <<{}>>, step |-> 0]     \* new Uint8Array(32), derived by nobody
ChainFrom(root) == [dh |-> root, step |-> 0]
Advance(chain, n) == [chain EXCEPT !.step = @ + n]

SkipEntry == [pub : KeyPair, counter : Nat, key : ChainKey, addedAt : Nat]
RatchetState ==
    [root : Seq(SUBSET KeyPair), sendChain : ChainKey, recvChain : ChainKey,
     sendCounter : Nat, recvCounter : Nat, prevSendChainLen : Nat,
     sendPub : KeyPair, remotePub : KeyPair, skipList : SUBSET SkipEntry]
Message ==
    [from : Party, pub : KeyPair, counter : Nat, prevChainLen : Nat, key : ChainKey]

EK   == <<Initiator, 0>>      \* the initiator's X3DH ephemeral
SPK  == <<Responder, 0>>      \* the responder's signed prekey
Boot == <<Responder, 1>>      \* the pair the responder mints when it bootstraps

InitiatorState ==
    [root |-> <<>>, sendChain |-> ChainFrom(<<>>), recvChain |-> ZeroChain,
     sendCounter |-> 0, recvCounter |-> 0, prevSendChainLen |-> 0,
     sendPub |-> EK, remotePub |-> SPK, skipList |-> {}]

\* The responder mints a send pair of its own at once and mixes it with EK.
ResponderState ==
    LET root == <<DhOutput(Boot, EK)>>
    IN  [root |-> root, sendChain |-> ChainFrom(root), recvChain |-> ChainFrom(<<>>),
         sendCounter |-> 0, recvCounter |-> 0, prevSendChainLen |-> 0,
         sendPub |-> Boot, remotePub |-> EK, skipList |-> {}]

----------------------------------------------------------------------------
(* The pure steps of ratchet.ts. *)

\* Faulty forms, seeded to show that the properties notice them, carry the name of
\* what they break and stand before the definition they replace.
PruneNothing(s, t) == s
Prune(s, t) == [s EXCEPT !.skipList = {e \in @ : t - e.addedAt <= SkippedKeyTtl}]

CanSkip(s, target) == Cardinality(s.skipList) + (target - s.recvCounter) <= MaxSkipped

\* The keys from recvCounter to target - 1, filed under pub as Map.set does.
Skipped(s, pub, target, t) ==
    {[pub |-> pub, counter |-> c, key |-> Advance(s.recvChain, c - s.recvCounter),
      addedAt |-> t] : c \in s.recvCounter .. (target - 1)}

SkipMessages(s, pub, target, t) ==
    IF s.recvCounter >= target THEN s
    ELSE [s EXCEPT
            !.skipList = {e \in @ : ~(e.pub = pub /\ e.counter \in s.recvCounter .. (target - 1))}
                           \cup Skipped(s, pub, target, t),
            !.recvChain = Advance(@, target - s.recvCounter),
            !.recvCounter = target]

\* The root carried forward through the receive half only.
DhRatchetStepHalfRoot(s, pub, pair) ==
    LET recvRoot == Append(s.root, DhOutput(s.sendPub, pub))
        sendRoot == Append(recvRoot, DhOutput(pair, pub))
    IN  [root |-> recvRoot,
         sendChain |-> ChainFrom(sendRoot), recvChain |-> ChainFrom(recvRoot),
         sendCounter |-> 0, recvCounter |-> 0, prevSendChainLen |-> s.sendCounter,
         sendPub |-> pair, remotePub |-> pub,
         skipList |-> {e \in s.skipList : e.pub = s.remotePub}]

\* keepPrefix: only keys of the chain being left survive the step.
DhRatchetStep(s, pub, pair) ==
    LET recvRoot == Append(s.root, DhOutput(s.sendPub, pub))
        sendRoot == Append(recvRoot, DhOutput(pair, pub))
    IN  [root |-> sendRoot,
         sendChain |-> ChainFrom(sendRoot), recvChain |-> ChainFrom(recvRoot),
         sendCounter |-> 0, recvCounter |-> 0, prevSendChainLen |-> s.sendCounter,
         sendPub |-> pair, remotePub |-> pub,
         skipList |-> {e \in s.skipList : e.pub = s.remotePub}]

TakeChainKeyAgain(s) == s

\* What is committed once the tag verified on the receive chain.
TakeChainKey(s) == [s EXCEPT !.recvChain = Advance(@, 1), !.recvCounter = @ + 1]

\* ratchetDecrypt: the working copy w, and the three ways a key is found for m.
Filed(w, m) == {e \in w.skipList : e.pub = m.pub /\ e.counter = m.counter}

OpensFiled(w, m) == \E e \in Filed(w, m) : e.key = m.key
AfterFiled(w, m) == [w EXCEPT !.skipList = @ \ Filed(w, m)]

Caught(w, m, t) == SkipMessages(w, m.pub, m.counter, t)
OpensInChain(w, m, t) ==
    /\ Filed(w, m) = {}
    /\ m.pub = w.remotePub
    /\ CanSkip(w, m.counter)
    /\ Caught(w, m, t).recvChain = m.key
AfterInChain(w, m, t) == TakeChainKey(Caught(w, m, t))

Stepped(w, m, pair, t) ==
    DhRatchetStep(SkipMessages(w, w.remotePub, m.prevChainLen, t), m.pub, pair)
OpensNewChain(w, m, pair, t) ==
    /\ Filed(w, m) = {}
    /\ m.pub # w.remotePub
    /\ CanSkip(w, m.prevChainLen)
    /\ CanSkip(Stepped(w, m, pair, t), m.counter)
    /\ Caught(Stepped(w, m, pair, t), m, t).recvChain = m.key
AfterNewChain(w, m, pair, t) == TakeChainKey(Caught(Stepped(w, m, pair, t), m, t))

----------------------------------------------------------------------------
Init ==
    /\ ratchet = [p \in Party |-> IF p = Initiator THEN InitiatorState ELSE ResponderState]
    /\ established = {Initiator}
    /\ minted = [p \in Party |-> IF p = Initiator THEN 1 ELSE 2]
    /\ sent = {}
    /\ accepted = [p \in Party |-> {}]
    /\ opens = [p \in Party |-> 0]
    /\ now = 0

Outgoing(p) ==
    LET s == ratchet[p]
    IN  [from |-> p, pub |-> s.sendPub, counter |-> s.sendCounter,
         prevChainLen |-> s.prevSendChainLen, key |-> s.sendChain]

AfterSendSameKey(s) == [s EXCEPT !.sendCounter = @ + 1]
AfterSend(s) == [s EXCEPT !.sendCounter = @ + 1, !.sendChain = Advance(@, 1)]

\* SealSessions.encrypt on an existing session: ratchetEncrypt, then persist,
\* whose serializeRatchet drops the expired skipped keys.
Send(p) ==
    /\ p \in established
    /\ Cardinality({m \in sent : m.from = p}) < MaxSends
    /\ sent' = sent \cup {Outgoing(p)}
    /\ ratchet' = [ratchet EXCEPT ![p] = Prune(AfterSend(@), now)]
    /\ UNCHANGED <<established, minted, accepted, opens, now>>

FreshPair(p) == <<p, minted[p]>>

\* The commit after a verified tag, and SealSessions.decrypt handing the
\* plaintext on.  The responder's first open is also what installs its session.
Commit(p, m, s) ==
    /\ ratchet' = [ratchet EXCEPT ![p] = s]
    /\ established' = established \cup {p}
    /\ accepted' = [accepted EXCEPT ![p] = @ \cup {m}]
    /\ opens' = [opens EXCEPT ![p] = @ + 1]
    /\ UNCHANGED <<sent, now>>

\* A ciphertext for which no key is found, or whose tag does not verify, throws
\* before the commit: the state is unchanged, so it is no step of its own.
ReceiveFiled(p, m) ==
    LET w == Prune(ratchet[p], now)
    IN  /\ OpensFiled(w, m)
        /\ Commit(p, m, AfterFiled(w, m))
        /\ UNCHANGED minted

ReceiveInChain(p, m) ==
    LET w == Prune(ratchet[p], now)
    IN  /\ OpensInChain(w, m, now)
        /\ Commit(p, m, AfterInChain(w, m, now))
        /\ UNCHANGED minted

ReceiveNewChain(p, m) ==
    LET w == Prune(ratchet[p], now)
    IN  /\ OpensNewChain(w, m, FreshPair(p), now)
        /\ Commit(p, m, AfterNewChain(w, m, FreshPair(p), now))
        /\ minted' = [minted EXCEPT ![p] = @ + 1]

\* The network: any ciphertext ever sent may reach its addressee, any number of
\* times, in any order, or never.
Inbound(p) == {m \in sent : m.from # p}

Tick ==
    /\ now < MaxTime
    /\ now' = now + 1
    /\ UNCHANGED <<ratchet, established, minted, sent, accepted, opens>>

Next ==
    \/ \E p \in Party : Send(p)
    \/ \E p \in Party : \E m \in Inbound(p) : ReceiveFiled(p, m)
    \/ \E p \in Party : \E m \in Inbound(p) : ReceiveInChain(p, m)
    \/ \E p \in Party : \E m \in Inbound(p) : ReceiveNewChain(p, m)
    \/ Tick

Spec == Init /\ [][Next]_vars

----------------------------------------------------------------------------
(* Properties. *)

\* Every variable keeps the shape the TypeScript types give it.
TypeOK ==
    /\ ratchet \in [Party -> RatchetState]
    /\ established \subseteq Party
    /\ minted \in [Party -> Nat]
    /\ sent \subseteq Message
    /\ accepted \in [Party -> SUBSET Message]
    /\ \A p \in Party : IsFiniteSet(accepted[p])
    /\ opens \in [Party -> Nat]
    /\ now \in Nat

\* A ciphertext that is served again (a mailbox re-serving a blob, an outbox
\* retry) is never opened a second time: the plaintexts handed to the
\* application are as many as the distinct ciphertexts opened.
AtMostOnce == \A p \in Party : opens[p] = Cardinality(accepted[p])

\* The session implements the abstract channel of OnceChannel: no ciphertext is
\* ever emitted twice (a counter, hence a message key, is never used for two
\* messages) and none is opened twice.
Channel == INSTANCE OnceChannel
ImplementsOnceChannel == Channel!Spec

\* Whether p would open m at time t.
CanOpenAt(p, m, t) ==
    LET w == Prune(ratchet[p], t)
    IN  \/ OpensFiled(w, m)
        \/ OpensInChain(w, m, t)
        \/ OpensNewChain(w, m, FreshPair(p), t)

Pending(p) == Inbound(p) \ accepted[p]

\* "the session keeps decrypting genuine traffic" (ratchetDecrypt): whatever was
\* lost, repeated or reordered before, p can open every message it has not opened
\* yet of its peer's newest chain and of the chain before that one, as long as those
\* it has not opened fit the budget and none of their keys had time to expire.  Only
\* chains retired by two later ones are given up (keepPrefix).
GenuineTrafficOpens ==
    \A p \in Party : \A m \in Pending(p) :
        /\ Len(m.key.dh) >= Len(ratchet[p].recvChain.dh) - 2
        /\ Cardinality(Pending(p) \ {m}) <= MaxSkipped
        /\ now <= SkippedKeyTtl
        => CanOpenAt(p, m, now)

\* Forward secrecy of what has been read: once a message is opened, neither the
\* chains nor the skipped keys of either party can derive its key again.
Derives(s, k) ==
    \/ \E e \in s.skipList : e.key = k
    \/ \E c \in {s.recvChain, s.sendChain} : c.dh = k.dh /\ c.step <= k.step
OpenedKeysAreGone ==
    \A p, q \in Party : \A m \in accepted[p] : ~Derives(ratchet[q], m.key)

\* "stale entries cannot permanently exhaust the MAX_SKIPPED budget and wedge
\* the session" (SKIPPED_KEY_TTL_MS): one TTL from now, a message of the current
\* chain whose own gap fits the budget opens, whatever is filed at present.
BudgetRecovers ==
    \A p \in Party : \A m \in Pending(p) :
        /\ m.pub = ratchet[p].remotePub
        /\ m.counter >= ratchet[p].recvCounter
        /\ m.counter - ratchet[p].recvCounter <= MaxSkipped
        => CanOpenAt(p, m, now + SkippedKeyTtl + 1)
============================================================================
