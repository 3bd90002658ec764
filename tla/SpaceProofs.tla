---------------------------- MODULE SpaceProofs ----------------------------
(***************************************************************************)
(* What holds of a space's records and of its keys for any owner, peers,   *)
(* thresholds and bounds, however updates, admissions, joins and re-pulls  *)
(* interleave.  Of the records (SpaceSync): which epoch, root and mode a   *)
(* client can come to store together, how a stored revision can move, and  *)
(* which roots a kicked peer and a newcomer can compute.  Of the keys      *)
(* (SpaceKeys): whatever records and links with competing claims to an     *)
(* epoch reach a client, its live keys keep the root they have there and   *)
(* never go back.                                                          *)
(*                                                                         *)
(* The part on roots sees the space through its cores (revision, epoch,    *)
(* root and members of a record): View.  The five kinds of step a view can *)
(* take keep the invariant once and for all; each action is then one of    *)
(* them.                                                                   *)
(***************************************************************************)
EXTENDS SpaceKeys, ChannelCryptoProofs


StructType == [rev : Nat, epoch : Nat, root : Nat, mode : SecurityModes,
               gen : Int, stamp : Int]
ProofType == [kind : {"record", "transition"}, of : StructType]
CapType == [gen : Int, base : Nat, next : StructType]
RecType == [rev : Nat, epoch : Nat, root : Nat, mode : SecurityModes,
            gen : Int, stamp : Int, members : SUBSET Clients,
            cap : CapType \cup {NoCap}, proof : ProofType]

\* The tuples signed by the updates us and the capabilities cs, and the founding one.
SignedBy(us, cs) == {Tuple(u) : u \in us} \cup {Tuple(c.next) : c \in cs}
                      \cup {<<0, 0, SelectMode(Cardinality(Founders \cup {Owner}))>>}

\* A record whose tuple was signed, with a capability that was minted, if any.
Good(r, us, cs) ==
    r \in RecType /\ Tuple(r) \in SignedBy(us, cs) /\ r.cap \in cs \cup {NoCap}

\* The inductive invariant: what is stored, and what is on its way, is good.
BaseOK == roots \in Nat /\ updates \subseteq RecType /\ caps \subseteq CapType
RecsOK ==
    /\ rec \in [Clients -> RecType \cup {NoRec}]
    /\ rec[Owner] # NoRec
    /\ \A x \in Clients : rec[x] # NoRec => Good(rec[x], updates, caps)
AdmitsOK == \A a \in admits : a.to \in Clients /\ a.who \in Clients /\ a.cap \in caps
RepliesOK ==
    /\ reply = [p \in Peers |-> reply[p]]
    /\ \A p \in Peers : (reply[p] # NoReply /\ reply[p].ok) => Good(reply[p].record, updates, caps)
SInv == BaseOK /\ RecsOK /\ AdmitsOK /\ RepliesOK

----------------------------------------------------------------------------
(* The operators on records. *)

LEMMA SelectModeIsMode == \A n : SelectMode(n) \in SecurityModes
BY DEF SelectMode, SecurityModes

\* A record is never the absent one.
LEMMA RecIsHeld == \A r \in RecType : r # NoRec
BY DEF RecType, NoRec

LEMMA StructTyped == ASSUME NEW r \in RecType PROVE Struct(r) \in StructType
BY DEF RecType, Struct, StructType

LEMMA SignedGrows ==
    ASSUME NEW us, NEW us2, NEW cs, NEW cs2, us \subseteq us2, cs \subseteq cs2,
           NEW r, Good(r, us, cs)
    PROVE  Good(r, us2, cs2)
BY DEF Good, SignedBy

\* Every change of the owner keeps a record a record.
LEMMA ChangesTyped ==
    ASSUME NEW r \in RecType, roots \in Nat
    PROVE  /\ Rotated(r) \in RecType /\ InvitesClosed(r) \in RecType
           /\ Issued(r) \in RecType /\ Stripped(r) \in RecType
           /\ \A ms \in SUBSET Clients : [r EXCEPT !.members = ms] \in RecType
<1>1. Rotated(r) \in RecType
  <2> DEFINE n == roots + 1
             e == r.epoch + 1
             m == IF r.mode = "crowd" THEN "crowd" ELSE SelectMode(Cardinality(r.members))
  <2>1. n \in Nat /\ e \in Nat /\ m \in SecurityModes
    BY SelectModeIsMode DEF RecType, SecurityModes
  <2>2. Rotated(r) = [r EXCEPT !.root = n, !.epoch = e, !.mode = m]
    BY DEF Rotated
  <2> HIDE DEF n, e, m
  <2>3. QED
    BY <2>1, <2>2 DEF RecType
<1>2. InvitesClosed(r) \in RecType
  <2> DEFINE g == r.gen + 1
             s == r.stamp + 1
  <2>1. g \in Int /\ s \in Int
    BY DEF RecType
  <2>2. InvitesClosed(r) = [r EXCEPT !.gen = g, !.cap = NoCap, !.stamp = s]
    BY DEF InvitesClosed
  <2> HIDE DEF g, s
  <2>3. QED
    BY <2>1, <2>2 DEF RecType
<1>3. Issued(r) \in RecType
  <2> DEFINE next == [r EXCEPT !.rev = @ + 1]
  <2>1. next \in RecType
    BY DEF RecType
  <2>2. RecordProof(next) \in ProofType
    BY <2>1, StructTyped DEF RecordProof, ProofType
  <2>3. Issued(r) = [next EXCEPT !.proof = RecordProof(next)]
    BY DEF Issued
  <2> HIDE DEF next
  <2>4. QED
    BY <2>1, <2>2, <2>3 DEF RecType
<1>4. Stripped(r) \in RecType
  BY DEF Stripped, RecType
<1>5. \A ms \in SUBSET Clients : [r EXCEPT !.members = ms] \in RecType
  BY DEF RecType
<1>6. QED
  BY <1>1, <1>2, <1>3, <1>4, <1>5

\* Signing, stripping and rotating keep what the invariant looks at.
LEMMA ChangesKeep ==
    ASSUME NEW r \in RecType, roots \in Nat
    PROVE  /\ Tuple(Issued(r)) = Tuple(r) /\ Tuple(Stripped(r)) = Tuple(r)
           /\ Issued(r).cap = r.cap /\ Rotated(r).cap = r.cap
           /\ InvitesClosed(r).cap = NoCap
           /\ \A ms \in SUBSET Clients : [r EXCEPT !.members = ms].cap = r.cap
<1>1. Tuple(Issued(r)) = Tuple(r) /\ Issued(r).cap = r.cap
  BY DEF Issued, Tuple, RecType
<1>2. Tuple(Stripped(r)) = Tuple(r)
  BY DEF Stripped, Tuple, RecType
<1>3. Rotated(r).cap = r.cap
  BY DEF Rotated, RecType
<1>4. InvitesClosed(r).cap = NoCap
  BY DEF InvitesClosed, RecType
<1>5. \A ms \in SUBSET Clients : [r EXCEPT !.members = ms].cap = r.cap
  BY DEF RecType
<1>6. QED
  BY <1>1, <1>2, <1>3, <1>4, <1>5

\* The capability made of a good record is a capability.
LEMMA CapabilityTyped ==
    ASSUME NEW r \in RecType, roots \in Nat
    PROVE  Capability(r) \in CapType
BY DEF Capability, CapType, StructType, RecType, SecurityModes

\* What an update leaves behind, and what an admission does.
UpdateFacts(r, u, h, us, cs) == Good(h, us, cs) /\ h.rev = u.rev

LEMMA UpdatedGood ==
    ASSUME NEW us, NEW cs, NEW r, Good(r, us, cs), NEW u \in us, u \in RecType
    PROVE  UpdateFacts(r, u, Updated(r, u), us, cs)
<1> DEFINE h == Updated(r, u)
<1>1. h \in RecType /\ h.rev = u.rev /\ h.cap = r.cap
  BY DEF Updated, Good, RecType
<1>2. Tuple(h) = Tuple(u) \/ Tuple(h) = Tuple(r)
  BY DEF Updated, Good, RecType, Tuple
<1> HIDE DEF h
<1>3. Tuple(h) \in SignedBy(us, cs)
  BY <1>2 DEF Good, SignedBy
<1>4. QED
  BY <1>1, <1>3 DEF UpdateFacts, Good, h

AdmissionFacts(r, h, us, cs) == Good(h, us, cs) /\ h.rev >= r.rev

LEMMA AdmittedGood ==
    ASSUME NEW us, NEW cs, cs \subseteq CapType, NEW r, Good(r, us, cs), NEW c \in cs,
           NEW p \in Clients, Resolves(r, c)
    PROVE  AdmissionFacts(r, Admitted(r, c, p), us, cs)
<1> DEFINE s == Authorized(r, c)
           w == With(r, s)
           h == Admitted(r, c, p)
<1>0. r \in RecType /\ c \in CapType /\ c.next \in StructType
  BY DEF Good, CapType
<1>1. s \in StructType
  BY <1>0, StructTyped DEF Authorized
<1>2. s.rev >= r.rev
  <2>1. CASE c.gen = r.gen
    <3>1. c.next.rev = r.rev + 1
      BY <2>1 DEF Resolves, OpensTransition
    <3>2. QED
      BY <1>0, <2>1, <3>1 DEF Authorized, RecType
  <2>2. CASE c.gen # r.gen
    BY <1>0, <2>2 DEF Authorized, Struct, RecType
  <2>3. QED
    BY <2>1, <2>2
<1>3. <<s.epoch, s.root, s.mode>> \in SignedBy(us, cs)
  <2>1. CASE c.gen = r.gen
    BY <2>1 DEF Authorized, SignedBy, Tuple
  <2>2. CASE c.gen # r.gen
    <3>1. <<s.epoch, s.root, s.mode>> = Tuple(r)
      BY <2>2 DEF Authorized, Struct, Tuple
    <3>2. QED
      BY <3>1 DEF Good
  <2>3. QED
    BY <2>1, <2>2
<1> HIDE DEF s
<1>4. /\ w \in RecType /\ w.rev = s.rev /\ w.cap = r.cap
      /\ w.epoch = s.epoch /\ w.root = s.root /\ w.mode = s.mode
  BY <1>0, <1>1 DEF With, RecType, StructType
<1>5. TransitionProof(c) \in ProofType
  BY <1>0 DEF TransitionProof, ProofType
<1>6. h = [w EXCEPT !.members = @ \cup {p},
                    !.proof = IF c.gen = r.gen THEN TransitionProof(c) ELSE @]
  BY DEF Admitted, s
<1> HIDE DEF w, h
<1>7. /\ h \in RecType /\ h.rev = w.rev /\ h.cap = w.cap
      /\ h.epoch = w.epoch /\ h.root = w.root /\ h.mode = w.mode
  BY <1>4, <1>5, <1>6 DEF RecType
<1>8. Good(h, us, cs) /\ h.rev >= r.rev
  BY <1>2, <1>3, <1>4, <1>7 DEF Good, Tuple
<1>9. QED
  BY <1>8 DEF AdmissionFacts, h

----------------------------------------------------------------------------
(* What a step may do to each record, and to each answer under way. *)

RecMoves(x) ==
    \/ rec'[x] = rec[x]
    \/ rec'[x] = NoRec
    \/ /\ Good(rec'[x], updates', caps')
       /\ \/ x = Owner
          \/ rec'[x].rev >= rec[x].rev
          \/ reply[x] # NoReply /\ reply'[x] = NoReply
RecsMove ==
    /\ rec' \in [Clients -> RecType \cup {NoRec}]
    /\ rec'[Owner] # NoRec
    /\ \A x \in Clients : RecMoves(x)
RepliesMove ==
    /\ reply' = [p \in Peers |-> reply'[p]]
    /\ \A p \in Peers : \/ reply'[p] = reply[p]
                        \/ reply'[p] = NoReply
                        \/ ~reply'[p].ok
                        \/ Good(reply'[p].record, updates', caps')
AdmitsMove == \A a \in admits' : a \in admits \/ (a.to \in Clients /\ a.who \in Clients /\ a.cap \in caps)
Grows == updates \subseteq updates' /\ caps \subseteq caps'

LEMMA MovesKeepInv ==
    ASSUME SInv, Grows, BaseOK', RecsMove, AdmitsMove, RepliesMove
    PROVE  SInv'
<1>1. \A r : Good(r, updates, caps) => Good(r, updates', caps')
  BY SignedGrows DEF Grows
<1>2. RecsOK'
  <2>1. ASSUME NEW x \in Clients, rec'[x] # NoRec PROVE Good(rec'[x], updates', caps')
    BY <1>1, <2>1 DEF SInv, RecsOK, RecsMove, RecMoves
  <2>2. QED
    BY <2>1 DEF RecsMove, RecsOK
<1>3. AdmitsOK'
  BY DEF SInv, AdmitsOK, AdmitsMove, Grows
<1>4. RepliesOK'
  <2>1. ASSUME NEW p \in Peers, reply'[p] # NoReply, reply'[p].ok
        PROVE  Good(reply'[p].record, updates', caps')
    BY <1>1, <2>1 DEF SInv, RepliesOK, RepliesMove
  <2>2. QED
    BY <2>1 DEF RepliesMove, RepliesOK
<1>5. QED
  BY <1>2, <1>3, <1>4 DEF SInv

\* The owner stores and sends a record of its own.
LEMMA BroadcastMoves ==
    ASSUME SInv, NEW record \in RecType, record.cap \in caps \cup {NoCap},
           Broadcast(record), caps' = caps
    PROVE  Grows /\ BaseOK' /\ RecsMove
<1> DEFINE next == Issued(record)
<1>1. roots \in Nat /\ updates \subseteq RecType /\ caps \subseteq CapType
  BY DEF SInv, BaseOK
<1>2. /\ next \in RecType /\ Stripped(next) \in RecType
      /\ next.cap = record.cap /\ Tuple(Stripped(next)) = Tuple(next)
  BY <1>1, ChangesTyped, ChangesKeep
<1>3. updates' = updates \cup {Stripped(next)} /\ rec' = [rec EXCEPT ![Owner] = next]
  BY DEF Broadcast
<1>4. roots' \in Nat
  BY <1>1 DEF Broadcast, RecType
<1> HIDE DEF next
<1>5. Good(next, updates', caps')
  BY <1>2, <1>3 DEF Good, SignedBy
<1>6. rec \in [Clients -> RecType \cup {NoRec}] /\ Owner \in Clients
  BY DEF SInv, RecsOK, Clients
<1>7. rec'[Owner] = next /\ \A x \in Clients \ {Owner} : rec'[x] = rec[x]
  BY <1>3, <1>6
<1>8. RecsMove
  <2>1. rec' \in [Clients -> RecType \cup {NoRec}]
    BY <1>2, <1>3, <1>6
  <2>2. rec'[Owner] # NoRec
    BY <1>2, <1>7, RecIsHeld
  <2>3. ASSUME NEW x \in Clients PROVE RecMoves(x)
    BY <1>5, <1>7 DEF RecMoves
  <2>4. QED
    BY <2>1, <2>2, <2>3 DEF RecsMove
<1>9. Grows /\ BaseOK'
  BY <1>1, <1>2, <1>3, <1>4 DEF Grows, BaseOK
<1>10. QED
  BY <1>8, <1>9

\* A client enacts a capability that resolves against its record.
LEMMA EnactMoves ==
    ASSUME SInv, NEW x \in Clients, NEW p \in Clients, NEW c \in caps,
           rec[x] # NoRec, Resolves(rec[x], c), Enact(x, p, c),
           updates' = updates, caps' = caps, roots' = roots
    PROVE  Grows /\ BaseOK' /\ RecsMove /\ AdmitsMove /\ rec'[x] # NoRec
<1> DEFINE h == Admitted(rec[x], c, p)
<1>1. Good(rec[x], updates, caps) /\ caps \subseteq CapType
  BY DEF SInv, RecsOK, BaseOK
<1>2. AdmissionFacts(rec[x], h, updates, caps)
  BY <1>1, AdmittedGood
<1>3. rec' = [rec EXCEPT ![x] = h] /\ rec \in [Clients -> RecType \cup {NoRec}]
  BY DEF Enact, SInv, RecsOK
<1> HIDE DEF h
<1>4. Good(h, updates', caps') /\ h \in RecType /\ h.rev >= rec[x].rev
  BY <1>2 DEF AdmissionFacts, Good
<1>5. rec'[x] = h /\ \A y \in Clients \ {x} : rec'[y] = rec[y]
  BY <1>3
<1>6. RecsMove
  <2>1. rec' \in [Clients -> RecType \cup {NoRec}]
    BY <1>3, <1>4
  <2>2. rec'[Owner] # NoRec
    <3>1. h # NoRec /\ rec[Owner] # NoRec /\ Owner \in Clients
      BY <1>4, RecIsHeld DEF SInv, RecsOK, Clients
    <3>2. QED
      BY <1>5, <3>1
  <2>3. ASSUME NEW y \in Clients PROVE RecMoves(y)
    BY <1>4, <1>5 DEF RecMoves
  <2>4. QED
    BY <2>1, <2>2, <2>3 DEF RecsMove
<1>7. AdmitsMove
  <2>1. rec[x].members \subseteq Clients
    BY <1>1 DEF Good, RecType
  <2>2. admits' \subseteq admits \cup Announced(x, p, c)
    BY DEF Enact
  <2>3. \A a \in Announced(x, p, c) : a.to \in Clients /\ a.who \in Clients /\ a.cap \in caps
    BY <2>1 DEF Announced
  <2>4. QED
    BY <2>2, <2>3 DEF AdmitsMove
<1>8. Grows /\ BaseOK'
  BY DEF Grows, BaseOK, SInv
<1>9. rec'[x] # NoRec
  BY <1>4, <1>5, RecIsHeld
<1>10. QED
  BY <1>6, <1>7, <1>8, <1>9

\* Presenting a capability, or the lack of one, at x.
LEMMA ServeMoves ==
    ASSUME SInv, NEW x \in Clients, rec[x] # NoRec, NEW p \in Clients,
           NEW c \in caps \cup {NoCap}, ServeJoin(x, p, c),
           updates' = updates, caps' = caps, roots' = roots
    PROVE  Grows /\ BaseOK' /\ RecsMove /\ AdmitsMove /\ rec'[x] # NoRec
<1>1. CASE p \notin rec[x].members /\ Resolves(rec[x], c)
  <2>1. c \in caps
    BY <1>1 DEF Resolves
  <2>2. Enact(x, p, c)
    BY <1>1 DEF ServeJoin
  <2>3. QED
    BY <1>1, <2>1, <2>2, EnactMoves
<1>2. CASE ~(p \notin rec[x].members /\ Resolves(rec[x], c))
  <2>1. rec' = rec /\ admits' = admits
    BY <1>2 DEF ServeJoin
  <2>2. QED
    BY <2>1 DEF SInv, RecsOK, BaseOK, Grows, RecsMove, RecMoves, AdmitsMove
<1>3. QED
  BY <1>1, <1>2

\* The answer is a rejection or a good record.
AnswerFacts(a, us, cs) == a.ok => Good(a.record, us, cs)

LEMMA AnswerGood ==
    ASSUME NEW x, NEW p, Good(rec'[x], updates', caps'), NEW c \in caps' \cup {NoCap},
           caps' \subseteq CapType, NEW kind
    PROVE  AnswerFacts(AnswerOf(x, p, c, kind), updates', caps')
<1> DEFINE r == rec'[x]
           h == [r EXCEPT !.cap = IF x = Owner THEN NoCap ELSE c]
           a == AnswerOf(x, p, c, kind)
<1>1. CASE p \notin r.members
  <2>1. a = [kind |-> kind, ok |-> FALSE]
    BY <1>1 DEF AnswerOf
  <2>2. QED
    BY <2>1 DEF AnswerFacts
<1>2. CASE p \in r.members
  <2>1. a.record = h
    BY <1>2 DEF AnswerOf
  <2> HIDE DEF r
  <2>2. r \in RecType /\ Tuple(r) \in SignedBy(updates', caps')
    BY DEF Good, r
  <2>3. h \in RecType /\ h.cap \in caps' \cup {NoCap}
    BY <2>2 DEF RecType
  <2>4. Tuple(h) = Tuple(r)
    BY <2>2 DEF RecType, Tuple
  <2>5. QED
    BY <2>1, <2>2, <2>3, <2>4 DEF AnswerFacts, Good
<1>3. QED
  BY <1>1, <1>2

\* One answer more, one answer less, or none touched.
LEMMA RepliesKept == ASSUME SInv, reply' = reply PROVE RepliesMove
BY DEF SInv, RepliesOK, RepliesMove

LEMMA ReplyDropped ==
    ASSUME SInv, NEW p \in Peers, reply' = [reply EXCEPT ![p] = NoReply]
    PROVE  RepliesMove /\ reply'[p] = NoReply
BY DEF SInv, RepliesOK, RepliesMove

LEMMA ReplyAdded ==
    ASSUME SInv, NEW p \in Peers, NEW a, AnswerFacts(a, updates', caps'),
           reply' = [reply EXCEPT ![p] = a]
    PROVE  RepliesMove
BY DEF SInv, RepliesOK, RepliesMove, AnswerFacts

----------------------------------------------------------------------------
(* One lemma per action. *)

Kept == SInv' /\ RecsMove

LEMMA KickKeeps == ASSUME SInv, NEW p \in Peers, Kick(p) PROVE Kept
<1>1. Own \in RecType /\ roots \in Nat
  BY DEF SInv, RecsOK, BaseOK, Good, Own, Clients
<1> DEFINE r == [Own EXCEPT !.members = @ \ {p}]
<1>2. r \in RecType
  BY <1>1 DEF RecType
<1> HIDE DEF r
<1>3. Kicked(p) \in RecType /\ Kicked(p).cap = NoCap
  <2>1. Kicked(p) = Rotated(InvitesClosed(r))
    BY DEF Kicked, r
  <2>2. InvitesClosed(r) \in RecType /\ InvitesClosed(r).cap = NoCap
    BY <1>1, <1>2, ChangesTyped, ChangesKeep
  <2>3. QED
    BY <1>1, <2>1, <2>2, ChangesTyped, ChangesKeep
<1>4. Broadcast(Kicked(p)) /\ caps' = caps /\ admits' = admits /\ reply' = reply
  BY DEF Kick
<1>5. Grows /\ BaseOK' /\ RecsMove
  BY <1>3, <1>4, BroadcastMoves
<1>6. AdmitsMove /\ RepliesMove
  BY <1>4, RepliesKept DEF AdmitsMove
<1>7. QED
  BY <1>5, <1>6, MovesKeepInv DEF Kept

LEMMA CloseKeeps == ASSUME SInv, NEW kept, CloseInvites(kept) PROVE Kept
<1>1. Own \in RecType /\ roots \in Nat
  BY DEF SInv, RecsOK, BaseOK, Good, Own, Clients
<1>2. InvitesClosed(Own) \in RecType /\ InvitesClosed(Own).cap = NoCap
  BY <1>1, ChangesTyped, ChangesKeep
<1>3. Broadcast(InvitesClosed(Own)) /\ caps' = caps /\ admits' = admits /\ reply' = reply
  BY DEF CloseInvites
<1>4. Grows /\ BaseOK' /\ RecsMove
  BY <1>2, <1>3, BroadcastMoves
<1>5. AdmitsMove /\ RepliesMove
  BY <1>3, RepliesKept DEF AdmitsMove
<1>6. QED
  BY <1>4, <1>5, MovesKeepInv DEF Kept

LEMMA EditKeeps == ASSUME SInv, NEW moved \in 0..1, Edit(moved) PROVE Kept
<1>1. Own \in RecType /\ roots \in Nat /\ Own.cap \in caps \cup {NoCap}
  BY DEF SInv, RecsOK, BaseOK, Good, Own, Clients
<1> DEFINE r == [Own EXCEPT !.stamp = @ + moved]
<1>2. r \in RecType /\ r.cap = Own.cap
  <2> DEFINE t == Own.stamp + moved
  <2>1. t \in Int
    BY <1>1 DEF RecType
  <2>2. r = [Own EXCEPT !.stamp = t]
    OBVIOUS
  <2> HIDE DEF t, r
  <2>3. QED
    BY <1>1, <2>1, <2>2 DEF RecType
<1>3. Broadcast(r) /\ caps' = caps /\ admits' = admits /\ reply' = reply
  BY DEF Edit
<1> HIDE DEF r
<1>4. Grows /\ BaseOK' /\ RecsMove
  BY <1>1, <1>2, <1>3, BroadcastMoves
<1>5. AdmitsMove /\ RepliesMove
  BY <1>3, RepliesKept DEF AdmitsMove
<1>6. QED
  BY <1>4, <1>5, MovesKeepInv DEF Kept

\* A peer put in or out of the members, under a new root.
LEMMA RotatedMembers ==
    ASSUME SInv, NEW ms \in SUBSET Clients
    PROVE  /\ Rotated([Own EXCEPT !.members = ms]) \in RecType
           /\ Rotated([Own EXCEPT !.members = ms]).cap \in caps \cup {NoCap}
<1>1. Own \in RecType /\ roots \in Nat /\ Own.cap \in caps \cup {NoCap}
  BY DEF SInv, RecsOK, BaseOK, Good, Own, Clients
<1> DEFINE r == [Own EXCEPT !.members = ms]
<1>2. r \in RecType /\ r.cap = Own.cap
  BY <1>1, ChangesTyped, ChangesKeep
<1> HIDE DEF r
<1>3. Rotated(r) \in RecType /\ Rotated(r).cap = r.cap
  BY <1>1, <1>2, ChangesTyped, ChangesKeep
<1>4. QED
  BY <1>1, <1>2, <1>3 DEF r

LEMMA TakeLeaveKeeps == ASSUME SInv, NEW p \in Peers, TakeLeave(p) PROVE Kept
<1> DEFINE ms == Own.members \ {p}
<1>1. ms \in SUBSET Clients
  BY DEF SInv, RecsOK, Good, Own, Clients, RecType
<1>2. caps' = caps /\ admits' = admits /\ reply' = reply
  BY DEF TakeLeave
<1>3. AdmitsMove /\ RepliesMove
  BY <1>2, RepliesKept DEF AdmitsMove
<1>4. CASE p \in Own.members
  <2>1. Broadcast(Rotated([Own EXCEPT !.members = ms]))
    BY <1>4 DEF TakeLeave
  <2> HIDE DEF ms
  <2>2. Grows /\ BaseOK' /\ RecsMove
    BY <1>1, <1>2, <2>1, RotatedMembers, BroadcastMoves
  <2>3. QED
    BY <1>3, <2>2, MovesKeepInv DEF Kept
<1>5. CASE p \notin Own.members
  <2>1. rec' = rec /\ updates' = updates /\ roots' = roots
    BY <1>5 DEF TakeLeave
  <2>2. Grows /\ BaseOK' /\ RecsMove
    BY <1>2, <2>1 DEF SInv, RecsOK, BaseOK, Grows, RecsMove, RecMoves
  <2>3. QED
    BY <1>3, <2>2, MovesKeepInv DEF Kept
<1>6. QED
  BY <1>4, <1>5

LEMMA JoinByOldLinkKeeps == ASSUME SInv, NEW p \in Peers, JoinByOldLink(p) PROVE Kept
<1> DEFINE ms == Own.members \cup {p}
<1>1. ms \in SUBSET Clients
  BY DEF SInv, RecsOK, Good, Own, Clients, RecType
<1>2. /\ Broadcast(Rotated([Own EXCEPT !.members = ms]))
      /\ caps' = caps /\ admits' = admits
      /\ reply' = [reply EXCEPT ![p] = AnswerOf(Owner, p, NoCap, "join")]
  BY DEF JoinByOldLink
<1> HIDE DEF ms
<1>3. Grows /\ BaseOK' /\ RecsMove
  BY <1>1, <1>2, RotatedMembers, BroadcastMoves
<1>4. AdmitsMove
  BY <1>2 DEF AdmitsMove
<1>5. Good(rec'[Owner], updates', caps') /\ caps' \subseteq CapType
  <2>1. \A r : Good(r, updates, caps) => Good(r, updates', caps')
    BY <1>3, SignedGrows DEF Grows
  <2>2. QED
    BY <1>3, <2>1 DEF RecsMove, RecMoves, SInv, RecsOK, BaseOK, Clients
<1>6. RepliesMove
  BY <1>2, <1>5, AnswerGood, ReplyAdded
<1>7. QED
  BY <1>3, <1>4, <1>6, MovesKeepInv DEF Kept

LEMMA MintKeeps == ASSUME SInv, MintInvite PROVE Kept
<1> DEFINE signed == IF Verifies(Own) THEN Own ELSE [Own EXCEPT !.proof = RecordProof(Own)]
           c == Capability(signed)
           h == [signed EXCEPT !.cap = c]
<1>1. /\ Good(Own, updates, caps) /\ Own \in RecType
      /\ rec \in [Clients -> RecType \cup {NoRec}] /\ Owner \in Clients
      /\ roots \in Nat /\ updates \subseteq RecType /\ caps \subseteq CapType
  BY DEF SInv, RecsOK, BaseOK, Good, Own, Clients
<1>2. /\ rec' = [rec EXCEPT ![Owner] = h] /\ caps' = caps \cup {c}
      /\ updates' = updates /\ admits' = admits /\ reply' = reply /\ roots' = roots + 1
  BY DEF MintInvite
<1>3. signed \in RecType /\ Tuple(signed) = Tuple(Own)
  <2>1. RecordProof(Own) \in ProofType
    BY <1>1, StructTyped DEF RecordProof, ProofType
  <2>2. QED
    BY <1>1, <2>1 DEF RecType, Tuple
<1> HIDE DEF signed
<1>4. c \in CapType
  BY <1>1, <1>3, CapabilityTyped
<1> HIDE DEF c
<1>5. h \in RecType /\ Tuple(h) = Tuple(Own) /\ h.cap = c
  BY <1>3, <1>4 DEF RecType, Tuple
<1> HIDE DEF h
<1>6. Good(h, updates', caps')
  BY <1>1, <1>2, <1>5 DEF Good, SignedBy
<1>7. rec'[Owner] = h /\ \A x \in Clients \ {Owner} : rec'[x] = rec[x]
  BY <1>1, <1>2
<1>8. RecsMove
  <2>1. rec' \in [Clients -> RecType \cup {NoRec}]
    BY <1>1, <1>2, <1>5
  <2>2. rec'[Owner] # NoRec
    BY <1>5, <1>7, RecIsHeld
  <2>3. ASSUME NEW x \in Clients PROVE RecMoves(x)
    BY <1>6, <1>7 DEF RecMoves
  <2>4. QED
    BY <2>1, <2>2, <2>3 DEF RecsMove
<1>9. Grows /\ BaseOK'
  BY <1>1, <1>2, <1>4 DEF Grows, BaseOK
<1>10. AdmitsMove /\ RepliesMove
  BY <1>2, RepliesKept DEF AdmitsMove
<1>11. QED
  BY <1>8, <1>9, <1>10, MovesKeepInv DEF Kept

\* A record forgotten or replaced at a peer, and nothing new signed.
LEMMA PeerMoves ==
    ASSUME SInv, NEW p \in Peers, NEW h, rec' = [rec EXCEPT ![p] = h],
           \/ h = NoRec
           \/ /\ Good(h, updates, caps)
              /\ h.rev >= rec[p].rev \/ (reply[p] # NoReply /\ reply'[p] = NoReply),
           updates' = updates, caps' = caps, roots' = roots
    PROVE  Grows /\ BaseOK' /\ RecsMove
<1>1. /\ rec \in [Clients -> RecType \cup {NoRec}] /\ p \in Clients /\ Owner \in Clients
      /\ p # Owner /\ rec[Owner] # NoRec
  BY OwnerIsNoPeer DEF SInv, RecsOK, Clients
<1>2. rec'[p] = h /\ \A x \in Clients \ {p} : rec'[x] = rec[x]
  BY <1>1
<1>3. rec' \in [Clients -> RecType \cup {NoRec}]
  BY <1>1 DEF Good
<1>4. ASSUME NEW x \in Clients PROVE RecMoves(x)
  BY <1>2 DEF RecMoves
<1>5. QED
  BY <1>1, <1>2, <1>3, <1>4 DEF RecsMove, Grows, BaseOK, SInv

LEMMA ForgetKeeps == ASSUME SInv, NEW p \in Peers, Leave(p) \/ TakeRemove(p) PROVE Kept
<1>1. /\ rec' = [rec EXCEPT ![p] = NoRec] /\ updates' = updates /\ caps' = caps
      /\ roots' = roots /\ admits' = admits /\ reply' = reply
  BY DEF Leave, TakeRemove
<1>2. Grows /\ BaseOK' /\ RecsMove
  BY <1>1, PeerMoves
<1>3. AdmitsMove /\ RepliesMove
  BY <1>1, RepliesKept DEF AdmitsMove
<1>4. QED
  BY <1>2, <1>3, MovesKeepInv DEF Kept

LEMMA UpdateKeeps ==
    ASSUME SInv, NEW q \in Peers, NEW u \in updates, ReceiveUpdate(q, u)
    PROVE  Kept
<1>1. /\ updates' = updates /\ caps' = caps /\ roots' = roots
      /\ admits' = admits /\ reply' = reply
  BY DEF ReceiveUpdate
<1>2. AdmitsMove /\ RepliesMove
  BY <1>1, RepliesKept DEF AdmitsMove
<1>3. CASE Applies(rec[q], u)
  <2> DEFINE h == Updated(rec[q], u)
  <2>1. rec' = [rec EXCEPT ![q] = h] /\ rec[q] # NoRec
    BY <1>3 DEF ReceiveUpdate, Holds
  <2>2. Good(rec[q], updates, caps) /\ u \in RecType
    BY <2>1 DEF SInv, RecsOK, BaseOK, Clients
  <2>3. UpdateFacts(rec[q], u, h, updates, caps)
    BY <2>2, UpdatedGood
  <2>4. u.rev > rec[q].rev /\ rec[q].rev \in Nat /\ u.rev \in Nat
    BY <1>3, <2>2 DEF Applies, Good, RecType
  <2> HIDE DEF h
  <2>5. Good(h, updates, caps) /\ h.rev >= rec[q].rev
    BY <2>3, <2>4 DEF UpdateFacts
  <2>6. Grows /\ BaseOK' /\ RecsMove
    BY <1>1, <2>1, <2>5, PeerMoves
  <2>7. QED
    BY <1>2, <2>6, MovesKeepInv DEF Kept
<1>4. CASE ~Applies(rec[q], u)
  <2>1. rec' = rec
    BY <1>4 DEF ReceiveUpdate
  <2>2. Grows /\ BaseOK' /\ RecsMove
    BY <1>1, <2>1 DEF SInv, RecsOK, BaseOK, Grows, RecsMove, RecMoves
  <2>3. QED
    BY <1>2, <2>2, MovesKeepInv DEF Kept
<1>5. QED
  BY <1>3, <1>4

LEMMA AdmitKeeps == ASSUME SInv, NEW a \in admits, ReceiveAdmit(a) PROVE Kept
<1>1. a.to \in Clients /\ a.who \in Clients /\ a.cap \in caps
  BY DEF SInv, AdmitsOK
<1>2. /\ updates' = updates /\ caps' = caps /\ roots' = roots /\ reply' = reply
      /\ rec[a.to] # NoRec /\ Resolves(rec[a.to], a.cap) /\ Enact(a.to, a.who, a.cap)
  BY DEF ReceiveAdmit, Holds
<1>3. Grows /\ BaseOK' /\ RecsMove /\ AdmitsMove
  BY <1>1, <1>2, EnactMoves
<1>4. RepliesMove
  BY <1>2, RepliesKept
<1>5. QED
  BY <1>3, <1>4, MovesKeepInv DEF Kept

\* A request served at x, and the answer put under way to p.
LEMMA AskedKeeps ==
    ASSUME SInv, NEW p \in Peers, NEW x \in Clients, rec[x] # NoRec,
           NEW c \in caps \cup {NoCap}, NEW kind, ServeJoin(x, p, c),
           updates' = updates, caps' = caps, roots' = roots,
           reply' = [reply EXCEPT ![p] = AnswerOf(x, p, c, kind)]
    PROVE  Kept
<1>1. p \in Clients
  BY DEF Clients
<1>2. Grows /\ BaseOK' /\ RecsMove /\ AdmitsMove /\ rec'[x] # NoRec
  BY <1>1, ServeMoves
<1>3. Good(rec'[x], updates', caps') /\ caps' \subseteq CapType
  BY <1>2 DEF RecsMove, RecMoves, SInv, RecsOK, BaseOK
<1>4. RepliesMove
  BY <1>3, AnswerGood, ReplyAdded
<1>5. QED
  BY <1>2, <1>4, MovesKeepInv DEF Kept

LEMMA JoinKeeps ==
    ASSUME SInv, NEW p \in Peers, NEW x \in Clients, NEW c \in caps, Join(p, x, c)
    PROVE  Kept
BY AskedKeeps DEF Join, Holds

LEMMA RepullKeeps == ASSUME SInv, NEW p \in Peers, Repull(p) PROVE Kept
<1>1. rec[p] # NoRec /\ rec[Owner] # NoRec /\ Owner \in Clients /\ p \in Clients
  BY DEF Repull, Holds, SInv, RecsOK, Clients
<1>2. rec[p].cap \in caps \cup {NoCap}
  BY <1>1 DEF SInv, RecsOK, Good
<1>3. QED
  BY <1>1, <1>2, AskedKeeps DEF Repull

LEMMA AnnounceKeeps ==
    ASSUME SInv, NEW p \in Peers, NEW x \in Clients, Announce(p, x)
    PROVE  Kept
<1>1. rec[p] # NoRec /\ rec[x] # NoRec /\ p \in Clients
  BY DEF Announce, Holds, Clients
<1>2. rec[p].cap \in caps \cup {NoCap}
  BY <1>1 DEF SInv, RecsOK, Good
<1>3. /\ ServeJoin(x, p, rec[p].cap) /\ updates' = updates /\ caps' = caps
      /\ roots' = roots /\ reply' = reply
  BY DEF Announce
<1>4. Grows /\ BaseOK' /\ RecsMove /\ AdmitsMove
  BY <1>1, <1>2, <1>3, ServeMoves
<1>5. RepliesMove
  BY <1>3, RepliesKept
<1>6. QED
  BY <1>4, <1>5, MovesKeepInv DEF Kept

LEMMA AnswerKeeps == ASSUME SInv, NEW p \in Peers, TakeReply(p) \/ LoseReply(p) PROVE Kept
<1>1. /\ updates' = updates /\ caps' = caps /\ roots' = roots /\ admits' = admits
      /\ reply[p] # NoReply /\ reply' = [reply EXCEPT ![p] = NoReply]
  BY DEF TakeReply, LoseReply
<1>2. AdmitsMove /\ RepliesMove /\ reply'[p] = NoReply
  BY <1>1, ReplyDropped DEF AdmitsMove
<1>3. Grows /\ BaseOK' /\ RecsMove
  <2>1. CASE rec' = rec
    BY <1>1, <2>1 DEF SInv, RecsOK, BaseOK, Grows, RecsMove, RecMoves
  <2>2. CASE rec' = [rec EXCEPT ![p] = NoRec]
    BY <1>1, <2>2, PeerMoves
  <2>3. CASE reply[p].ok /\ rec' = [rec EXCEPT ![p] = reply[p].record]
    <3>1. Good(reply[p].record, updates, caps)
      BY <1>1, <2>3 DEF SInv, RepliesOK
    <3>2. QED
      BY <1>1, <1>2, <2>3, <3>1, PeerMoves
  <2>4. QED
    BY <2>1, <2>2, <2>3 DEF TakeReply, LoseReply
<1>4. QED
  BY <1>2, <1>3, MovesKeepInv DEF Kept

LEMMA StepKeeps == SInv /\ [Next]_vars => Kept
<1> SUFFICES ASSUME SInv, [Next]_vars PROVE Kept
  OBVIOUS
<1>1. CASE UNCHANGED vars
  <2>1. RecsMove /\ AdmitsMove /\ RepliesMove /\ Grows /\ BaseOK'
    BY <1>1, RepliesKept
       DEF vars, SInv, RecsOK, BaseOK, RecsMove, RecMoves, AdmitsMove, Grows
  <2>2. QED
    BY <2>1, MovesKeepInv DEF Kept
<1>2. CASE Next
  <2>1. ASSUME NEW p \in Peers, Kick(p) \/ TakeLeave(p) \/ JoinByOldLink(p) PROVE Kept
    BY <2>1, KickKeeps, TakeLeaveKeeps, JoinByOldLinkKeeps
  <2>2. CASE \E kept \in {"fresh", "none"} : CloseInvites(kept)
    BY <2>2, CloseKeeps
  <2>3. CASE \E moved \in 0..1 : Edit(moved)
    BY <2>3, EditKeeps
  <2>4. CASE MintInvite
    BY <2>4, MintKeeps
  <2>5. ASSUME NEW p \in Peers, Leave(p) \/ TakeRemove(p) PROVE Kept
    BY <2>5, ForgetKeeps
  <2>6. ASSUME NEW q \in Peers, NEW u \in updates, ReceiveUpdate(q, u) PROVE Kept
    BY <2>6, UpdateKeeps
  <2>7. ASSUME NEW a \in admits, ReceiveAdmit(a) PROVE Kept
    BY <2>7, AdmitKeeps
  <2>8. ASSUME NEW p \in Peers, NEW x \in Clients, NEW c \in caps, Join(p, x, c) PROVE Kept
    BY <2>8, JoinKeeps
  <2>9. ASSUME NEW p \in Peers, Repull(p) \/ TakeReply(p) \/ LoseReply(p) PROVE Kept
    BY <2>9, RepullKeeps, AnswerKeeps
  <2>10. ASSUME NEW p \in Peers, NEW x \in Clients, Announce(p, x) PROVE Kept
    BY <2>10, AnnounceKeeps
  <2>11. QED
    BY <1>2, <2>1, <2>2, <2>3, <2>4, <2>5, <2>6, <2>7, <2>8, <2>9, <2>10 DEF Next
<1>3. QED
  BY <1>1, <1>2

LEMMA InitKeeps == Init => SInv
<1> SUFFICES ASSUME Init PROVE SInv
  OBVIOUS
<1> DEFINE members == Founders \cup {Owner}
           mode == SelectMode(Cardinality(members))
           struct == [rev |-> 0, epoch |-> 0, root |-> 0, gen |-> 1, stamp |-> 0,
                      mode |-> mode]
           first == [rev |-> 0, epoch |-> 0, root |-> 0, gen |-> 1, stamp |-> 0,
                     mode |-> mode, members |-> members, cap |-> NoCap,
                     proof |-> [kind |-> "record", of |-> struct]]
<1>1. /\ rec = [x \in Clients |-> IF x \in members THEN first ELSE NoRec]
      /\ updates = {} /\ caps = {} /\ admits = {} /\ roots = 0
      /\ reply = [p \in Peers |-> NoReply]
  BY DEF Init
<1>2. members \subseteq Clients /\ Owner \in members /\ Owner \in Clients
  BY FoundersArePeers DEF Clients
<1>3. mode \in SecurityModes
  BY SelectModeIsMode
<1>4. first.mode = SelectMode(Cardinality(Founders \cup {Owner}))
  OBVIOUS
<1> HIDE DEF mode
<1>5. struct \in StructType
  BY <1>3 DEF StructType
<1>6. first \in RecType
  <2>1. [kind |-> "record", of |-> struct] \in ProofType
    BY <1>5 DEF ProofType
  <2> HIDE DEF struct
  <2>2. QED
    BY <1>2, <1>3, <2>1 DEF RecType
<1>7. first.epoch = 0 /\ first.root = 0 /\ first.cap = NoCap
  OBVIOUS
<1> HIDE DEF first, members
<1>8. Good(first, updates, caps)
  BY <1>4, <1>6, <1>7 DEF Good, SignedBy, Tuple
<1>9. RecsOK
  <2>1. rec[Owner] = first
    BY <1>1, <1>2
  <2>2. QED
    BY <1>1, <1>6, <1>8, <2>1, RecIsHeld DEF RecsOK
<1>10. BaseOK /\ AdmitsOK /\ RepliesOK
  BY <1>1 DEF BaseOK, AdmitsOK, RepliesOK
<1>11. QED
  BY <1>9, <1>10 DEF SInv

LEMMA SpecKeeps == Spec => []SInv
<1>1. SInv /\ [Next]_vars => SInv'
  BY StepKeeps DEF Kept
<1>2. QED
  BY <1>1, InitKeeps, PTL DEF Spec

\* A client's epoch, root and mode were signed together by the owner, whichever of
\* updates, admissions by members, joins at seeds and re-pulls brought them there and
\* in whatever order (sync.update's applyChannel, applyForwardSecureAdmission).
THEOREM TuplesAreSigned == Spec => []TupleIsSigned
<1>1. SInv => TupleIsSigned
  BY DEF SInv, RecsOK, Good, SignedBy, TupleIsSigned, Holds, Clients
<1>2. QED
  BY <1>1, SpecKeeps, PTL

\* A stored revision goes back in one way only: the answer to a re-pull, which
\* replaces the record without looking at what was applied while it was awaited
\* (reconcileJoinedServers, engine.ts).
THEOREM GoesBackByRepull == Spec => OnlyRepullsGoBack
<1> DEFINE Back == \A p \in Peers : (rec[p] # NoRec /\ rec'[p] # NoRec /\ rec'[p].rev < rec[p].rev)
                     => reply[p] # NoReply /\ reply'[p] = NoReply
<1>1. SInv /\ [Next]_vars => [Back]_vars
  <2> SUFFICES ASSUME SInv, [Next]_vars, NEW p \in Peers,
                      rec[p] # NoRec, rec'[p] # NoRec, rec'[p].rev < rec[p].rev
               PROVE  reply[p] # NoReply /\ reply'[p] = NoReply
    OBVIOUS
  <2>1. RecMoves(p) /\ p # Owner /\ p \in Clients
    BY StepKeeps, OwnerIsNoPeer DEF Kept, RecsMove, Clients
  <2>2. rec[p].rev \in Nat
    BY <2>1 DEF SInv, RecsOK, Good, RecType
  <2>3. rec'[p] # rec[p]
    BY <2>2
  <2>4. Good(rec'[p], updates', caps')
    BY <2>1, <2>3 DEF RecMoves
  <2>5. rec'[p].rev \in Nat
    BY <2>4 DEF Good, RecType
  <2>6. ~(rec'[p].rev >= rec[p].rev)
    BY <2>2, <2>5
  <2>7. QED
    BY <2>1, <2>3, <2>6 DEF RecMoves
<1>2. QED
  BY <1>1, SpecKeeps, PTL DEF Spec, OnlyRepullsGoBack
----------------------------------------------------------------------------
(* The owner's line of records, the links minted along it, and the records  *)
(* made of them.  Of a record, only its core matters here.                  *)

CoreType == [rev : Nat, epoch : Nat, root : Nat, members : SUBSET Clients]
Core(r) == [rev |-> r.rev, epoch |-> r.epoch, root |-> r.root, members |-> r.members]

\* The epochs and roots signed together, by the sent cores U and the links cs.
Marks(U, cs) ==
    {<<u.epoch, u.root>> : u \in U} \cup {<<c.next.epoch, c.next.root>> : c \in cs} \cup {<<0, 0>>}

\* The owner is at core O, has sent U and minted n roots: its epoch never went back.
LineOK(O, U, n) ==
    /\ n <= MaxRoots
    /\ \A u \in U : u.rev <= O.rev /\ u.epoch <= O.epoch
    /\ \A u, v \in U : v.rev < u.rev => v.epoch <= u.epoch
\* A link is one step on from a core the owner had; the owner may have taken it.
CapsOK(O, cs) ==
    \A c \in cs : /\ c.base < c.next.root
                  /\ c.next.rev <= O.rev + 1 /\ c.next.epoch <= O.epoch + 1
                  /\ c.next.epoch = O.epoch + 1 => c.base = O.root
\* A later root is of no earlier epoch, a root is of one epoch.
MarksOK(O, U, cs, n) ==
    /\ <<O.epoch, O.root>> \in Marks(U, cs)
    /\ \A s \in Marks(U, cs) : s[2] <= n /\ s[1] <= O.epoch + 1
    /\ \A s, t \in Marks(U, cs) : s[2] < t[2] => s[1] <= t[1]
    /\ \A s, t \in Marks(U, cs) : s[2] = t[2] => s[1] = t[1]
    /\ \A s \in Marks(U, cs) : \A c \in cs : s[2] = c.base => c.next.epoch = s[1] + 1
\* Where the owner sent a later revision at an earlier epoch than a link's, it was
\* still at the root the link starts from.
LagOK(U, cs) ==
    \A u \in U : \A c \in cs : (u.rev >= c.next.rev /\ u.epoch < c.next.epoch) => u.root = c.base

\* Where the epoch and root of a core come from, no later than its revision.
Sourced(r, U, cs) ==
    \/ \E v \in U : v.epoch = r.epoch /\ v.root = r.root /\ v.rev <= r.rev
    \/ \E c \in cs : c.next.epoch = r.epoch /\ c.next.root = r.root /\ c.next.rev <= r.rev
    \/ r.epoch = 0 /\ r.root = 0
CoresOK(O, U, R, cs) == \A r \in R : r.rev <= O.rev + 1 /\ Sourced(r, U, cs)

LinkTypes(O, U, R, cs, n) ==
    O \in CoreType /\ U \subseteq CoreType /\ R \subseteq CoreType /\ cs \subseteq CapType /\ n \in Nat
LinkOK(O, U, R, cs, n) ==
    /\ LinkTypes(O, U, R, cs, n) /\ LineOK(O, U, n) /\ CapsOK(O, cs)
    /\ MarksOK(O, U, cs, n) /\ LagOK(U, cs) /\ CoresOK(O, U, R, cs) /\ O \in R

\* The owner's next revision, under its root or under the next one.
Follows(O, h, n, n2) ==
    /\ h \in CoreType /\ h.rev = O.rev + 1
    /\ \/ h.epoch = O.epoch /\ h.root = O.root /\ n2 = n
       \/ h.epoch = O.epoch + 1 /\ h.root = n + 1 /\ n2 = n + 1 /\ n2 <= MaxRoots

LEMMA MarkTyped ==
    ASSUME NEW O, NEW U, NEW R, NEW cs, NEW n, LinkTypes(O, U, R, cs, n)
    PROVE  \A s \in Marks(U, cs) : s[1] \in Nat /\ s[2] \in Nat
BY DEF LinkTypes, Marks, CoreType, CapType, StructType

LEMMA SourceIsMark ==
    ASSUME NEW r, NEW U, NEW cs, Sourced(r, U, cs)
    PROVE  <<r.epoch, r.root>> \in Marks(U, cs)
BY DEF Sourced, Marks

LEMMA SourcedGrows ==
    ASSUME NEW r, NEW U, NEW U2, NEW cs, NEW cs2, U \subseteq U2, cs \subseteq cs2,
           Sourced(r, U, cs)
    PROVE  Sourced(r, U2, cs2)
BY DEF Sourced

\* A new mark: the next epoch and a fresh root.
FreshMark(O, n) == <<O.epoch + 1, n + 1>>

MarksFit(M, cs, O, n) ==
    /\ \A s, t \in M : s[2] < t[2] => s[1] <= t[1]
    /\ \A s, t \in M : s[2] = t[2] => s[1] = t[1]
    /\ \A s \in M : \A c \in cs : s[2] = c.base => c.next.epoch = s[1] + 1
    /\ \A s \in M : s[2] <= n + 1 /\ s[1] <= O.epoch + 1

LEMMA FreshMarkFits ==
    ASSUME NEW O, NEW U, NEW R, NEW cs, NEW n, LinkTypes(O, U, R, cs, n),
           CapsOK(O, cs), MarksOK(O, U, cs, n), NEW M, M \subseteq Marks(U, cs) \cup {FreshMark(O, n)}
    PROVE  MarksFit(M, cs, O, n)
<1>1. \A s \in Marks(U, cs) : s[1] \in Nat /\ s[2] \in Nat
  BY MarkTyped
<1> DEFINE f == FreshMark(O, n)
<1>2. f[1] = O.epoch + 1 /\ f[2] = n + 1 /\ O.epoch \in Nat /\ n \in Nat
  BY DEF FreshMark, LinkTypes, CoreType
<1>3. \A c \in cs : c.base <= n
  <2> SUFFICES ASSUME NEW c \in cs PROVE c.base <= n
    OBVIOUS
  <2>1. <<c.next.epoch, c.next.root>> \in Marks(U, cs)
    BY DEF Marks
  <2>2. c.next.root <= n
    BY <2>1 DEF MarksOK
  <2>3. c.base \in Nat /\ c.next.root \in Nat
    BY DEF LinkTypes, CapType, StructType
  <2>4. c.base < c.next.root
    BY DEF CapsOK
  <2>5. QED
    BY <1>2, <2>2, <2>3, <2>4
<1> HIDE DEF f
<1>4. \A s \in M : s \in Marks(U, cs) \/ s = f
  BY DEF f
<1>5. \A c \in cs : c.base \in Nat
  BY DEF LinkTypes, CapType
<1>6. /\ \A s \in Marks(U, cs) : s[2] <= n /\ s[1] <= O.epoch + 1
      /\ \A s, t \in Marks(U, cs) : s[2] < t[2] => s[1] <= t[1]
      /\ \A s, t \in Marks(U, cs) : s[2] = t[2] => s[1] = t[1]
      /\ \A s \in Marks(U, cs) : \A c \in cs : s[2] = c.base => c.next.epoch = s[1] + 1
  BY DEF MarksOK
<1> DEFINE G == Marks(U, cs)
<1> HIDE DEF G
<1>7. ASSUME NEW s \in M, NEW t \in M PROVE (s[2] < t[2] => s[1] <= t[1]) /\ (s[2] = t[2] => s[1] = t[1])
  <2>1. CASE s \in G /\ t \in G
    BY <1>6, <2>1 DEF G
  <2>2. CASE s = f /\ t \in G
    BY <1>1, <1>2, <1>6, <2>2 DEF G
  <2>3. CASE s \in G /\ t = f
    BY <1>1, <1>2, <1>6, <2>3 DEF G
  <2>4. CASE s = f /\ t = f
    BY <1>2, <2>4
  <2>5. QED
    BY <1>4, <2>1, <2>2, <2>3, <2>4 DEF G
<1>8. ASSUME NEW s \in M
      PROVE  /\ s[2] <= n + 1 /\ s[1] <= O.epoch + 1
             /\ \A c \in cs : s[2] = c.base => c.next.epoch = s[1] + 1
  <2>1. CASE s \in G
    BY <1>1, <1>2, <1>6, <2>1 DEF G
  <2>2. CASE s = f
    BY <1>2, <1>3, <1>5, <2>2
  <2>3. QED
    BY <1>4, <2>1, <2>2 DEF G
<1>9. \A s, t \in M : s[2] < t[2] => s[1] <= t[1]
  BY <1>7
<1>10. \A s, t \in M : s[2] = t[2] => s[1] = t[1]
  BY <1>7
<1>11. \A s \in M : \A c \in cs : s[2] = c.base => c.next.epoch = s[1] + 1
  BY <1>8
<1>12. \A s \in M : s[2] <= n + 1 /\ s[1] <= O.epoch + 1
  BY <1>8
<1>13. QED
  BY <1>9, <1>10, <1>11, <1>12 DEF MarksFit

\* The owner signs and sends its next record.
LEMMA IssueLinks ==
    ASSUME NEW O, NEW U, NEW R, NEW cs, NEW n, LinkOK(O, U, R, cs, n),
           NEW h, NEW n2, Follows(O, h, n, n2)
    PROVE  LinkOK(h, U \cup {h}, R \cup {h}, cs, n2)
<1> DEFINE U2 == U \cup {h}
<1>0. LinkTypes(O, U, R, cs, n) /\ LineOK(O, U, n) /\ CapsOK(O, cs)
      /\ MarksOK(O, U, cs, n) /\ LagOK(U, cs) /\ CoresOK(O, U, R, cs) /\ O \in R
  BY DEF LinkOK
<1>t. /\ O.rev \in Nat /\ O.epoch \in Nat /\ O.root \in Nat /\ n \in Nat
      /\ h.rev \in Nat /\ h.epoch \in Nat /\ h.root \in Nat
      /\ \A u \in U : u.rev \in Nat /\ u.epoch \in Nat /\ u.root \in Nat
      /\ \A c \in cs : c.base \in Nat /\ c.next.rev \in Nat /\ c.next.epoch \in Nat /\ c.next.root \in Nat
      /\ \A r \in R : r.rev \in Nat
  BY <1>0 DEF LinkTypes, Follows, CoreType, CapType, StructType
<1>1. LinkTypes(h, U2, R \cup {h}, cs, n2)
  BY <1>0, <1>t DEF LinkTypes, Follows
<1>2. LineOK(h, U2, n2)
  BY <1>0, <1>t DEF LineOK, Follows
<1>3. CapsOK(h, cs)
  <2> SUFFICES ASSUME NEW c \in cs
               PROVE  /\ c.base < c.next.root
                      /\ c.next.rev <= h.rev + 1 /\ c.next.epoch <= h.epoch + 1
                      /\ c.next.epoch = h.epoch + 1 => c.base = h.root
    BY DEF CapsOK
  <2>1. /\ c.base < c.next.root /\ c.next.rev <= O.rev + 1 /\ c.next.epoch <= O.epoch + 1
        /\ c.next.epoch = O.epoch + 1 => c.base = O.root
    BY <1>0 DEF CapsOK
  <2>2. QED
    BY <1>t, <2>1 DEF Follows
<1>4. MarksOK(h, U2, cs, n2)
  <2>1. Marks(U2, cs) = Marks(U, cs) \cup {<<h.epoch, h.root>>}
    BY DEF Marks
  <2>2. CASE h.epoch = O.epoch /\ h.root = O.root /\ n2 = n
    <3>1. Marks(U2, cs) = Marks(U, cs)
      BY <1>0, <2>1, <2>2 DEF MarksOK
    <3>2. QED
      BY <1>0, <2>2, <3>1 DEF MarksOK
  <2>3. CASE h.epoch = O.epoch + 1 /\ h.root = n + 1 /\ n2 = n + 1
    <3>1. Marks(U2, cs) \subseteq Marks(U, cs) \cup {FreshMark(O, n)}
      BY <2>1, <2>3 DEF FreshMark
    <3> DEFINE M == Marks(U2, cs)
    <3>2. <<h.epoch, h.root>> \in M
      BY <2>1
    <3> HIDE DEF M
    <3>3. MarksFit(M, cs, O, n)
      BY <1>0, <3>1, FreshMarkFits DEF M
    <3>4. \A s \in M : s[1] \in Nat
      BY <1>1, MarkTyped DEF M
    <3>5. \A s \in M : s[2] <= n2 /\ s[1] <= h.epoch + 1
      BY <1>t, <2>3, <3>3, <3>4 DEF MarksFit
    <3>6. QED
      BY <3>2, <3>3, <3>5 DEF MarksOK, MarksFit, M
  <2>4. QED
    BY <2>2, <2>3 DEF Follows
<1>5. LagOK(U2, cs)
  <2> SUFFICES ASSUME NEW u \in U2, NEW c \in cs, u.rev >= c.next.rev, u.epoch < c.next.epoch
               PROVE  u.root = c.base
    BY DEF LagOK
  <2>1. CASE u \in U
    BY <1>0, <2>1 DEF LagOK
  <2>2. CASE u = h
    <3>1. c.next.epoch <= O.epoch + 1 /\ (c.next.epoch = O.epoch + 1 => c.base = O.root)
      BY <1>0 DEF CapsOK
    <3>2. QED
      BY <1>t, <2>2, <3>1 DEF Follows
  <2>3. QED
    BY <2>1, <2>2
<1>6. CoresOK(h, U2, R \cup {h}, cs)
  <2>1. ASSUME NEW r \in R PROVE r.rev <= h.rev + 1 /\ Sourced(r, U2, cs)
    <3>1. r.rev <= O.rev + 1 /\ Sourced(r, U, cs)
      BY <1>0 DEF CoresOK
    <3>2. Sourced(r, U2, cs)
      BY <3>1, SourcedGrows
    <3>3. QED
      BY <1>t, <3>1, <3>2 DEF Follows
  <2>2. h.rev <= h.rev + 1 /\ Sourced(h, U2, cs)
    BY <1>t DEF Sourced
  <2>3. QED
    BY <2>1, <2>2 DEF CoresOK
<1>7. QED
  BY <1>1, <1>2, <1>3, <1>4, <1>5, <1>6 DEF LinkOK

\* The owner signs a link.
Mints(O, c, n) ==
    /\ c \in CapType /\ c.base = O.root /\ c.next.rev = O.rev + 1
    /\ c.next.epoch = O.epoch + 1 /\ c.next.root = n + 1 /\ n + 1 <= MaxRoots

LEMMA MintLinks ==
    ASSUME NEW O, NEW U, NEW R, NEW cs, NEW n, LinkOK(O, U, R, cs, n), NEW c, Mints(O, c, n)
    PROVE  LinkOK(O, U, R, cs \cup {c}, n + 1)
<1> DEFINE cs2 == cs \cup {c}
<1>0. LinkTypes(O, U, R, cs, n) /\ LineOK(O, U, n) /\ CapsOK(O, cs)
      /\ MarksOK(O, U, cs, n) /\ LagOK(U, cs) /\ CoresOK(O, U, R, cs) /\ O \in R
  BY DEF LinkOK
<1>t. /\ O.rev \in Nat /\ O.epoch \in Nat /\ O.root \in Nat /\ n \in Nat
      /\ \A u \in U : u.rev \in Nat /\ u.epoch \in Nat /\ u.root \in Nat
      /\ \A d \in cs2 : d.base \in Nat /\ d.next.rev \in Nat /\ d.next.epoch \in Nat /\ d.next.root \in Nat
  BY <1>0 DEF LinkTypes, Mints, CoreType, CapType, StructType
<1>1. LinkTypes(O, U, R, cs2, n + 1)
  BY <1>0, <1>t DEF LinkTypes, Mints
<1>2. LineOK(O, U, n + 1)
  BY <1>0, <1>t DEF LineOK, Mints
<1>o. O.root <= n
  BY <1>0, <1>t DEF MarksOK
<1>3. CapsOK(O, cs2)
  BY <1>0, <1>t, <1>o DEF CapsOK, Mints
<1>4. MarksOK(O, U, cs2, n + 1)
  <2> DEFINE M == Marks(U, cs2)
  <2>1. M = Marks(U, cs) \cup {<<c.next.epoch, c.next.root>>}
    BY DEF Marks
  <2>2. M \subseteq Marks(U, cs) \cup {FreshMark(O, n)}
    BY <2>1 DEF FreshMark, Mints
  <2>3. <<O.epoch, O.root>> \in M
    BY <1>0, <2>1 DEF MarksOK
  <2>4. \A s \in M : s[1] \in Nat /\ s[2] \in Nat
    BY <1>1, MarkTyped
  <2> HIDE DEF M
  <2>5. MarksFit(M, cs, O, n)
    BY <1>0, <2>2, FreshMarkFits
  <2>6. ASSUME NEW s \in M, NEW d \in cs2, s[2] = d.base PROVE d.next.epoch = s[1] + 1
    <3>1. CASE d \in cs
      BY <2>5, <2>6, <3>1 DEF MarksFit
    <3>2. CASE d = c
      <4>1. s[2] = O.root
        BY <2>6, <3>2 DEF Mints
      <4>2. s[1] = O.epoch
        BY <2>3, <2>5, <4>1 DEF MarksFit
      <4>3. QED
        BY <3>2, <4>2 DEF Mints
    <3>3. QED
      BY <3>1, <3>2
  <2>7. QED
    BY <2>3, <2>5, <2>6 DEF MarksOK, MarksFit, M
<1>5. LagOK(U, cs2)
  <2> SUFFICES ASSUME NEW u \in U, NEW d \in cs2, u.rev >= d.next.rev, u.epoch < d.next.epoch
               PROVE  u.root = d.base
    BY DEF LagOK
  <2>1. u.rev <= O.rev
    BY <1>0 DEF LineOK
  <2>2. d # c
    BY <1>t, <2>1 DEF Mints
  <2>3. QED
    BY <1>0, <2>2 DEF LagOK
<1>6. CoresOK(O, U, R, cs2)
  <2>1. ASSUME NEW r \in R PROVE r.rev <= O.rev + 1 /\ Sourced(r, U, cs2)
    <3>1. r.rev <= O.rev + 1 /\ Sourced(r, U, cs)
      BY <1>0 DEF CoresOK
    <3>2. Sourced(r, U, cs2)
      BY <3>1, SourcedGrows
    <3>3. QED
      BY <3>1, <3>2
  <2>2. QED
    BY <2>1 DEF CoresOK
<1>7. QED
  BY <1>0, <1>1, <1>2, <1>3, <1>4, <1>5, <1>6 DEF LinkOK

\* A record forgotten, a record that has the core of another.
LEMMA FewerLinks ==
    ASSUME NEW O, NEW U, NEW R, NEW cs, NEW n, LinkOK(O, U, R, cs, n),
           NEW R2, R2 \subseteq R, O \in R2
    PROVE  LinkOK(O, U, R2, cs, n)
BY DEF LinkOK, LinkTypes, CoresOK

\* The core an update u leaves of a core r.
Updates(r, u, h) ==
    /\ h \in CoreType /\ u.rev > r.rev /\ h.rev = u.rev /\ h.members = u.members
    /\ \/ u.epoch >= r.epoch /\ h.epoch = u.epoch /\ h.root = u.root
       \/ u.epoch < r.epoch /\ h.epoch = r.epoch /\ h.root = r.root

LEMMA UpdateLinks ==
    ASSUME NEW O, NEW U, NEW R, NEW cs, NEW n, LinkOK(O, U, R, cs, n),
           NEW r \in R, NEW u \in U, NEW h, Updates(r, u, h)
    PROVE  LinkOK(O, U, R \cup {h}, cs, n)
<1>1. /\ r.rev \in Nat /\ u.rev \in Nat /\ O.rev \in Nat
      /\ \A v \in U : v.rev \in Nat
      /\ \A c \in cs : c.next.rev \in Nat
  BY DEF LinkOK, LinkTypes, CoreType, CapType, StructType
<1>2. Sourced(r, U, cs)
  BY DEF LinkOK, CoresOK
<1>3. Sourced(h, U, cs)
  <2>1. CASE h.epoch = u.epoch /\ h.root = u.root
    BY <1>1, <2>1 DEF Sourced, Updates
  <2>2. CASE h.epoch = r.epoch /\ h.root = r.root
    <3>1. h.rev > r.rev /\ h.rev \in Nat
      BY <1>1 DEF Updates
    <3>2. QED
      BY <1>1, <1>2, <2>2, <3>1 DEF Sourced
  <2>3. QED
    BY <2>1, <2>2 DEF Updates
<1>4. u.rev <= O.rev
  BY DEF LinkOK, LineOK
<1>5. h.rev <= O.rev + 1
  BY <1>1, <1>4 DEF Updates
<1>6. QED
  BY <1>3, <1>5 DEF LinkOK, LinkTypes, CoresOK, Updates

\* The core that enacting a link c for p leaves of a core r.
Enacts(r, c, p, h) ==
    /\ h \in CoreType /\ h.members = r.members \cup {p}
    /\ \/ /\ c.base = r.root /\ c.next.rev = r.rev + 1 /\ c.next.epoch = r.epoch + 1
          /\ h.rev = c.next.rev /\ h.epoch = c.next.epoch /\ h.root = c.next.root
       \/ /\ c.next.root = r.root /\ c.next.epoch = r.epoch
          /\ h.rev = r.rev /\ h.epoch = r.epoch /\ h.root = r.root

LEMMA EnactLinks ==
    ASSUME NEW O, NEW U, NEW R, NEW cs, NEW n, LinkOK(O, U, R, cs, n),
           NEW r \in R, NEW c \in cs, NEW p, NEW h, Enacts(r, c, p, h)
    PROVE  LinkOK(O, U, R \cup {h}, cs, n)
<1>1. /\ r.rev \in Nat /\ O.rev \in Nat /\ c.next.rev \in Nat
  BY DEF LinkOK, LinkTypes, CoreType, CapType, StructType
<1>2. Sourced(r, U, cs) /\ r.rev <= O.rev + 1
  BY DEF LinkOK, CoresOK
<1>3. c.next.rev <= O.rev + 1
  BY DEF LinkOK, CapsOK
<1>4. Sourced(h, U, cs) /\ h.rev <= O.rev + 1
  <2>1. CASE h.rev = c.next.rev /\ h.epoch = c.next.epoch /\ h.root = c.next.root
    BY <1>1, <1>3, <2>1 DEF Sourced
  <2>2. CASE h.rev = r.rev /\ h.epoch = r.epoch /\ h.root = r.root
    BY <1>2, <2>2 DEF Sourced
  <2>3. QED
    BY <2>1, <2>2 DEF Enacts
<1>5. QED
  BY <1>4 DEF LinkOK, LinkTypes, CoresOK, Enacts

\* The same at the owner, whose line the link then extends.
LEMMA OwnerEnactLinks ==
    ASSUME NEW O, NEW U, NEW R, NEW cs, NEW n, LinkOK(O, U, R, cs, n),
           NEW c \in cs, NEW p, NEW h, Enacts(O, c, p, h)
    PROVE  LinkOK(h, U, R \cup {h}, cs, n)
<1>0. LinkTypes(O, U, R, cs, n) /\ LineOK(O, U, n) /\ CapsOK(O, cs)
      /\ MarksOK(O, U, cs, n) /\ LagOK(U, cs) /\ CoresOK(O, U, R, cs) /\ O \in R
  BY DEF LinkOK
<1>t. /\ O.rev \in Nat /\ O.epoch \in Nat /\ O.root \in Nat /\ n \in Nat
      /\ h.rev \in Nat /\ h.epoch \in Nat /\ h.root \in Nat
      /\ \A u \in U : u.rev \in Nat /\ u.epoch \in Nat /\ u.root \in Nat
      /\ \A d \in cs : d.base \in Nat /\ d.next.rev \in Nat /\ d.next.epoch \in Nat /\ d.next.root \in Nat
      /\ \A r \in R : r.rev \in Nat
  BY <1>0 DEF LinkTypes, Enacts, CoreType, CapType, StructType
<1>1. \/ h.rev = O.rev /\ h.epoch = O.epoch /\ h.root = O.root
      \/ /\ h.rev = O.rev + 1 /\ h.epoch = O.epoch + 1
         /\ h.rev = c.next.rev /\ h.epoch = c.next.epoch /\ h.root = c.next.root
  BY DEF Enacts
<1>2. LinkTypes(h, U, R \cup {h}, cs, n)
  BY <1>0 DEF LinkTypes, Enacts
<1>3. LineOK(h, U, n)
  BY <1>0, <1>1, <1>t DEF LineOK
<1>4. CapsOK(h, cs)
  <2>1. CASE h.rev = O.rev /\ h.epoch = O.epoch /\ h.root = O.root
    BY <1>0, <2>1 DEF CapsOK
  <2>2. CASE h.rev = O.rev + 1 /\ h.epoch = O.epoch + 1
    BY <1>0, <1>t, <2>2 DEF CapsOK
  <2>3. QED
    BY <1>1, <2>1, <2>2
<1>5. MarksOK(h, U, cs, n)
  <2>1. <<h.epoch, h.root>> \in Marks(U, cs)
    <3>1. CASE h.epoch = O.epoch /\ h.root = O.root
      BY <1>0, <3>1 DEF MarksOK
    <3>2. CASE h.epoch = c.next.epoch /\ h.root = c.next.root
      BY <3>2 DEF Marks
    <3>3. QED
      BY <1>1, <3>1, <3>2
  <2>2. \A s \in Marks(U, cs) : s[1] \in Nat /\ s[1] <= O.epoch + 1
    BY <1>0, MarkTyped DEF MarksOK
  <2>3. \A s \in Marks(U, cs) : s[1] <= h.epoch + 1
    BY <1>1, <1>t, <2>2
  <2>4. QED
    BY <1>0, <2>1, <2>3 DEF MarksOK
<1>6. CoresOK(h, U, R \cup {h}, cs)
  <2>1. \A r \in R : r.rev <= O.rev + 1 /\ Sourced(r, U, cs)
    BY <1>0 DEF CoresOK
  <2>2. \A r \in R : r.rev <= h.rev + 1
    BY <1>1, <1>t, <2>1
  <2>3. Sourced(h, U, cs)
    <3>1. CASE h.rev = c.next.rev /\ h.epoch = c.next.epoch /\ h.root = c.next.root
      BY <1>t, <3>1 DEF Sourced
    <3>2. CASE h.rev = O.rev /\ h.epoch = O.epoch /\ h.root = O.root
      BY <1>0, <2>1, <3>2 DEF Sourced
    <3>3. QED
      BY <1>1, <3>1, <3>2
  <2>4. h.rev <= h.rev + 1
    BY <1>t
  <2>5. QED
    BY <2>1, <2>2, <2>3, <2>4 DEF CoresOK
<1>7. QED
  BY <1>0, <1>2, <1>3, <1>4, <1>5, <1>6 DEF LinkOK

\* An update that keeps the stored root came while the owner was where the link to
\* that root starts.
LEMMA KeptRootIsAhead ==
    ASSUME NEW O, NEW U, NEW R, NEW cs, NEW n, LinkOK(O, U, R, cs, n),
           NEW r \in R, NEW u \in U, u.rev > r.rev, u.epoch < r.epoch
    PROVE  \E c \in cs : c.base = u.root /\ c.next.root = r.root
<1>t. /\ r.rev \in Nat /\ u.rev \in Nat /\ r.epoch \in Nat /\ u.epoch \in Nat
      /\ \A v \in U : v.rev \in Nat /\ v.epoch \in Nat
      /\ \A c \in cs : c.next.rev \in Nat /\ c.next.epoch \in Nat
  BY DEF LinkOK, LinkTypes, CoreType, CapType, StructType
<1>1. Sourced(r, U, cs)
  BY DEF LinkOK, CoresOK
<1>2. CASE \E v \in U : v.epoch = r.epoch /\ v.root = r.root /\ v.rev <= r.rev
  <2>1. PICK v \in U : v.epoch = r.epoch /\ v.rev <= r.rev
    BY <1>2
  <2>2. v.rev < u.rev
    BY <1>t, <2>1
  <2>3. v.epoch <= u.epoch
    BY <2>2 DEF LinkOK, LineOK
  <2>4. QED
    BY <1>t, <2>1, <2>3
<1>3. CASE \E c \in cs : c.next.epoch = r.epoch /\ c.next.root = r.root /\ c.next.rev <= r.rev
  <2>1. PICK c \in cs : c.next.epoch = r.epoch /\ c.next.root = r.root /\ c.next.rev <= r.rev
    BY <1>3
  <2>2. u.rev >= c.next.rev /\ u.epoch < c.next.epoch
    BY <1>t, <2>1
  <2>3. u.root = c.base
    BY <2>2 DEF LinkOK, LagOK
  <2>4. QED
    BY <2>1, <2>3
<1>4. CASE r.epoch = 0
  BY <1>t, <1>4
<1>5. QED
  BY <1>1, <1>2, <1>3, <1>4 DEF Sourced

----------------------------------------------------------------------------
(* A kick splits the roots: those minted before it and those after.         *)

KickType == [rev : Nat, roots : Nat]

\* A core is on one side of the kick K with its revision and its root; those that
\* still list p are before it.
Split(r, p, K) ==
    /\ r.rev > K.rev => r.root > K.roots
    /\ r.root > K.roots => r.rev >= K.rev
    /\ p \in r.members => r.root <= K.roots
\* No link leads from one side to the other.
LinkSplit(c, K) ==
    /\ c.next.root > K.roots <=> c.next.rev > K.rev
    /\ c.base > K.roots <=> c.next.root > K.roots

KickSplits(p, K, O, U, R, cs, n) ==
    /\ K \in KickType /\ K.roots <= n
    /\ O.rev >= K.rev /\ O.root > K.roots
    /\ \A r \in R \cup U : Split(r, p, K)
    /\ \A c \in cs : LinkSplit(c, K)

\* The roots of cores are minted, the bases of links too.
LEMMA RootsAreMinted ==
    ASSUME NEW O, NEW U, NEW R, NEW cs, NEW n, LinkOK(O, U, R, cs, n)
    PROVE  /\ \A r \in R \cup U : r.root \in 0..n /\ r.epoch <= O.epoch + 1
           /\ \A c \in cs : c.base \in 0..n /\ c.next.root \in 0..n
           /\ n \in 0..MaxRoots
<1>1. LinkTypes(O, U, R, cs, n) /\ CapsOK(O, cs) /\ MarksOK(O, U, cs, n) /\ CoresOK(O, U, R, cs)
      /\ n <= MaxRoots
  BY DEF LinkOK, LineOK
<1>2. \A s \in Marks(U, cs) : s[2] <= n /\ s[1] <= O.epoch + 1
  BY <1>1 DEF MarksOK
<1>3. \A r \in R \cup U : <<r.epoch, r.root>> \in Marks(U, cs)
  <2>1. \A r \in R : <<r.epoch, r.root>> \in Marks(U, cs)
    BY <1>1, SourceIsMark DEF CoresOK
  <2>2. \A r \in U : <<r.epoch, r.root>> \in Marks(U, cs)
    BY DEF Marks
  <2>3. QED
    BY <2>1, <2>2
<1>4. \A r \in R \cup U : r.root \in Nat /\ r.root <= n /\ r.epoch <= O.epoch + 1
  <2>1. \A r \in R \cup U : r.root \in Nat
    BY <1>1 DEF LinkTypes, CoreType
  <2>2. ASSUME NEW r \in R \cup U PROVE r.root <= n /\ r.epoch <= O.epoch + 1
    <3> DEFINE s == <<r.epoch, r.root>>
    <3>1. s \in Marks(U, cs) /\ s[1] = r.epoch /\ s[2] = r.root
      BY <1>3
    <3> HIDE DEF s
    <3>2. QED
      BY <1>2, <3>1
  <2>3. QED
    BY <2>1, <2>2
<1>5. ASSUME NEW c \in cs PROVE c.base \in 0..n /\ c.next.root \in 0..n
  <2> DEFINE s == <<c.next.epoch, c.next.root>>
  <2>1. s \in Marks(U, cs) /\ s[2] = c.next.root
    BY DEF Marks
  <2> HIDE DEF s
  <2>2. c.next.root <= n
    BY <1>2, <2>1
  <2>3. c.base \in Nat /\ c.next.root \in Nat /\ n \in Nat
    BY <1>1 DEF LinkTypes, CapType, StructType
  <2>4. c.base < c.next.root
    BY <1>1 DEF CapsOK
  <2>5. QED
    BY <2>2, <2>3, <2>4
<1>6. QED
  BY <1>1, <1>4, <1>5, MaxRootsIsNat DEF LinkTypes

\* The types the arithmetic below needs.
Numbers(O, U, R, cs, n) ==
    /\ O.rev \in Nat /\ O.epoch \in Nat /\ O.root \in Nat /\ n \in Nat
    /\ \A r \in R \cup U : r.rev \in Nat /\ r.epoch \in Nat /\ r.root \in Nat
    /\ \A c \in cs : c.base \in Nat /\ c.next.rev \in Nat /\ c.next.epoch \in Nat /\ c.next.root \in Nat

LEMMA LinkNumbers ==
    ASSUME NEW O, NEW U, NEW R, NEW cs, NEW n, LinkOK(O, U, R, cs, n)
    PROVE  Numbers(O, U, R, cs, n)
BY DEF LinkOK, LinkTypes, CoreType, CapType, StructType, Numbers

LEMMA KickStarts ==
    ASSUME NEW O, NEW U, NEW R, NEW cs, NEW n, LinkOK(O, U, R, cs, n),
           NEW p, NEW h, Follows(O, h, n, n + 1), h.root = n + 1, p \notin h.members,
           NEW K, K = [rev |-> O.rev + 1, roots |-> n]
    PROVE  KickSplits(p, K, h, U \cup {h}, R \cup {h}, cs, n + 1)
<1>t. Numbers(O, U, R, cs, n) /\ h.rev = O.rev + 1
  BY LinkNumbers DEF Follows
<1>1. K.rev = O.rev + 1 /\ K.roots = n /\ K \in KickType
  BY <1>t DEF KickType, Numbers
<1>2. /\ \A r \in R \cup U : r.root <= n
      /\ \A c \in cs : c.base <= n /\ c.next.root <= n
  BY <1>t, RootsAreMinted DEF Numbers
<1>3. \A r \in R \cup U : r.rev <= O.rev + 1
  <2>1. \A r \in R : r.rev <= O.rev + 1
    BY DEF LinkOK, CoresOK
  <2>2. \A r \in U : r.rev <= O.rev
    BY DEF LinkOK, LineOK
  <2>3. QED
    BY <1>t, <2>1, <2>2 DEF Numbers
<1>4. \A c \in cs : c.next.rev <= O.rev + 1
  BY DEF LinkOK, CapsOK
<1>5. \A r \in R \cup U : Split(r, p, K)
  BY <1>t, <1>1, <1>2, <1>3 DEF Numbers, Split
<1>6. \A c \in cs : LinkSplit(c, K)
  BY <1>t, <1>1, <1>2, <1>4 DEF Numbers, LinkSplit
<1>7. Split(h, p, K)
  BY <1>t, <1>1 DEF Numbers, Split
<1>8. QED
  BY <1>t, <1>1, <1>5, <1>6, <1>7 DEF Numbers, KickSplits

LEMMA IssueSplits ==
    ASSUME NEW O, NEW U, NEW R, NEW cs, NEW n, LinkOK(O, U, R, cs, n),
           NEW p, NEW K, KickSplits(p, K, O, U, R, cs, n),
           NEW h, NEW n2, Follows(O, h, n, n2), p \notin h.members
    PROVE  KickSplits(p, K, h, U \cup {h}, R \cup {h}, cs, n2)
<1>t. Numbers(O, U, R, cs, n) /\ K.rev \in Nat /\ K.roots \in Nat
  BY LinkNumbers DEF KickSplits, KickType
<1>1. K.roots <= n /\ O.rev >= K.rev /\ O.root > K.roots
  BY DEF KickSplits
<1>2. h.rev > K.rev /\ h.root > K.roots /\ K.roots <= n2 /\ h.rev \in Nat /\ h.root \in Nat
  BY <1>t, <1>1 DEF Numbers, Follows, CoreType
<1>3. Split(h, p, K)
  BY <1>t, <1>2 DEF Split
<1>4. QED
  BY <1>t, <1>2, <1>3 DEF KickSplits

LEMMA MintSplits ==
    ASSUME NEW O, NEW U, NEW R, NEW cs, NEW n, LinkOK(O, U, R, cs, n),
           NEW p, NEW K, KickSplits(p, K, O, U, R, cs, n), NEW c, Mints(O, c, n)
    PROVE  KickSplits(p, K, O, U, R, cs \cup {c}, n + 1)
<1>t. Numbers(O, U, R, cs, n) /\ K.rev \in Nat /\ K.roots \in Nat
  BY LinkNumbers DEF KickSplits, KickType
<1>1. K.roots <= n /\ O.rev >= K.rev /\ O.root > K.roots
  BY DEF KickSplits
<1>2. LinkSplit(c, K) /\ K.roots <= n + 1
  BY <1>t, <1>1 DEF Numbers, Mints, LinkSplit
<1>3. QED
  BY <1>2 DEF KickSplits

LEMMA FewerSplits ==
    ASSUME NEW O, NEW U, NEW R, NEW cs, NEW n, NEW p, NEW K,
           KickSplits(p, K, O, U, R, cs, n), NEW R2, R2 \subseteq R
    PROVE  KickSplits(p, K, O, U, R2, cs, n)
BY DEF KickSplits

LEMMA UpdateSplits ==
    ASSUME NEW O, NEW U, NEW R, NEW cs, NEW n, LinkOK(O, U, R, cs, n),
           NEW p, NEW K, KickSplits(p, K, O, U, R, cs, n),
           NEW r \in R, NEW u \in U, NEW h, Updates(r, u, h)
    PROVE  KickSplits(p, K, O, U, R \cup {h}, cs, n)
<1>t. Numbers(O, U, R, cs, n) /\ K.rev \in Nat /\ K.roots \in Nat
  BY LinkNumbers DEF KickSplits, KickType
<1>1. Split(r, p, K) /\ Split(u, p, K)
  BY DEF KickSplits
<1>2. u.rev > r.rev /\ h.rev = u.rev /\ h.members = u.members
  BY DEF Updates
<1>3. Split(h, p, K)
  <2>1. CASE h.root = u.root
    BY <1>1, <1>2, <2>1 DEF Split
  <2>2. CASE u.epoch < r.epoch /\ h.root = r.root
    <3>1. r.root >= u.root
      <4> DEFINE s == <<r.epoch, r.root>>
                 t == <<u.epoch, u.root>>
      <4>1. s \in Marks(U, cs) /\ t \in Marks(U, cs)
        BY SourceIsMark DEF LinkOK, CoresOK, Marks
      <4>2. s[1] = r.epoch /\ s[2] = r.root /\ t[1] = u.epoch /\ t[2] = u.root
        OBVIOUS
      <4> HIDE DEF s, t
      <4>3. s[2] < t[2] => s[1] <= t[1]
        BY <4>1 DEF LinkOK, MarksOK
      <4>4. QED
        BY <1>t, <2>2, <4>2, <4>3 DEF Numbers
    <3>2. QED
      BY <1>t, <1>1, <1>2, <2>2, <3>1 DEF Numbers, Split
  <2>3. QED
    BY <2>1, <2>2 DEF Updates
<1>4. QED
  BY <1>3 DEF KickSplits

LEMMA EnactSplits ==
    ASSUME NEW O, NEW U, NEW R, NEW cs, NEW n, LinkOK(O, U, R, cs, n),
           NEW p, NEW K, KickSplits(p, K, O, U, R, cs, n),
           NEW r \in R, NEW c \in cs, NEW q, NEW h, Enacts(r, c, q, h),
           p = q => c.next.root <= K.roots
    PROVE  KickSplits(p, K, O, U, R \cup {h}, cs, n) /\ Split(h, p, K)
<1>t. Numbers(O, U, R, cs, n) /\ K.rev \in Nat /\ K.roots \in Nat
  BY LinkNumbers DEF KickSplits, KickType
<1>1. Split(r, p, K) /\ LinkSplit(c, K)
  BY DEF KickSplits
<1>2. h.members = r.members \cup {q}
  BY DEF Enacts
<1>3. Split(h, p, K)
  <2>1. CASE c.base = r.root /\ h.rev = c.next.rev /\ h.root = c.next.root
    BY <1>t, <1>1, <1>2, <2>1 DEF Numbers, Split, LinkSplit
  <2>2. CASE c.next.root = r.root /\ h.rev = r.rev /\ h.root = r.root
    BY <1>t, <1>1, <1>2, <2>2 DEF Numbers, Split
  <2>3. QED
    BY <2>1, <2>2 DEF Enacts
<1>4. QED
  BY <1>3 DEF KickSplits

LEMMA OwnerEnactSplits ==
    ASSUME NEW O, NEW U, NEW R, NEW cs, NEW n, LinkOK(O, U, R, cs, n),
           NEW p, NEW K, KickSplits(p, K, O, U, R, cs, n),
           NEW c \in cs, NEW q, NEW h, Enacts(O, c, q, h),
           p = q => c.next.root <= K.roots
    PROVE  KickSplits(p, K, h, U, R \cup {h}, cs, n)
<1>t. Numbers(O, U, R, cs, n) /\ K.rev \in Nat /\ K.roots \in Nat /\ O \in R
  BY LinkNumbers DEF KickSplits, KickType, LinkOK
<1>1. LinkSplit(c, K) /\ O.rev >= K.rev /\ O.root > K.roots
  BY DEF KickSplits
<1>2. KickSplits(p, K, O, U, R \cup {h}, cs, n)
  BY <1>t, EnactSplits
<1>3. h.rev >= K.rev /\ h.root > K.roots
  <2>1. CASE c.base = O.root /\ c.next.rev = O.rev + 1 /\ h.rev = c.next.rev /\ h.root = c.next.root
    BY <1>t, <1>1, <2>1 DEF Numbers, LinkSplit
  <2>2. CASE h.rev = O.rev /\ h.root = O.root
    BY <1>1, <2>2
  <2>3. QED
    BY <2>1, <2>2 DEF Enacts
<1>4. QED
  BY <1>2, <1>3 DEF KickSplits

----------------------------------------------------------------------------
(* What links lead to, and what a peer has been offered.                    *)

LeadsOn(S, cs) == \A c \in cs : c.base \in S => c.next.root \in S
ReachOf(ks, cs) ==
    {r \in 0..MaxRoots : \A S \in SUBSET (0..MaxRoots) :
        (ks \subseteq S /\ \A c \in cs : c.base \in S => c.next.root \in S) => r \in S}

LEMMA ReachHolds ==
    ASSUME NEW ks, NEW cs, NEW k \in ks, k \in 0..MaxRoots
    PROVE  k \in ReachOf(ks, cs)
BY DEF ReachOf

LEMMA ReachLeadsOn ==
    ASSUME NEW ks, NEW cs, NEW c \in cs, c.base \in ReachOf(ks, cs), c.next.root \in 0..MaxRoots
    PROVE  c.next.root \in ReachOf(ks, cs)
BY DEF ReachOf

LEMMA ReachIsLeast ==
    ASSUME NEW ks, NEW cs, NEW S \in SUBSET (0..MaxRoots), ks \subseteq S, LeadsOn(S, cs)
    PROVE  ReachOf(ks, cs) \subseteq S
BY DEF ReachOf, LeadsOn

\* All roots and bases are among the n minted.
Minted(cs, n) == n \in 0..MaxRoots /\ \A c \in cs : c.base \in 0..n /\ c.next.root \in 0..n

\* Offers among what was in reach or is fresh, and links to fresh roots, lead to no
\* minted root that was out of reach.
ReachStep(n, bar, ks, cs, ks2, cs2) ==
    /\ Minted(cs, n) /\ bar \subseteq 0..n /\ bar \cap ReachOf(ks, cs) = {}
    /\ ks2 \subseteq ReachOf(ks, cs) \cup ((n + 1)..MaxRoots)
    /\ \A c \in cs2 : c \in cs \/ c.next.root \in (n + 1)..MaxRoots

LEMMA OutOfReachStays ==
    ASSUME NEW n, NEW bar, NEW ks, NEW cs, NEW ks2, NEW cs2, ReachStep(n, bar, ks, cs, ks2, cs2)
    PROVE  bar \cap ReachOf(ks2, cs2) = {}
<1>0. /\ Minted(cs, n) /\ bar \subseteq 0..n /\ bar \cap ReachOf(ks, cs) = {}
      /\ ks2 \subseteq ReachOf(ks, cs) \cup ((n + 1)..MaxRoots)
      /\ \A c \in cs2 : c \in cs \/ c.next.root \in (n + 1)..MaxRoots
  BY DEF ReachStep
<1> DEFINE Re == ReachOf(ks, cs)
           S == Re \cup ((n + 1)..MaxRoots)
<1>1. n \in Nat /\ n <= MaxRoots /\ MaxRoots \in Nat
  BY <1>0, MaxRootsIsNat DEF Minted
<1>2. Re \subseteq 0..MaxRoots
  BY DEF ReachOf
<1>3. \A c \in cs : c.base \in Re => c.next.root \in Re
  BY <1>0, <1>1, ReachLeadsOn DEF Minted
<1> HIDE DEF Re
<1>4. S \in SUBSET (0..MaxRoots)
  BY <1>1, <1>2
<1>5. LeadsOn(S, cs2)
  <2> SUFFICES ASSUME NEW c \in cs2, c.base \in S PROVE c.next.root \in S
    BY DEF LeadsOn
  <2>1. CASE c \in cs
    <3>1. c.base \in 0..n
      BY <1>0, <2>1 DEF Minted
    <3>2. c.base \in Re
      BY <1>1, <3>1
    <3>3. QED
      BY <1>3, <2>1, <3>2
  <2>2. QED
    BY <1>0, <2>1
<1>6. ks2 \subseteq S
  BY <1>0 DEF Re
<1> HIDE DEF S
<1>7. ReachOf(ks2, cs2) \subseteq S
  BY <1>4, <1>5, <1>6, ReachIsLeast
<1>8. bar \cap S = {}
  BY <1>0, <1>1 DEF S, Re
<1>9. QED
  BY <1>7, <1>8

\* Admitted with a link to its root, a peer does not get to roots in use under older
\* epochs that were out of its reach.
LEMMA AdmissionBars ==
    ASSUME NEW O, NEW U, NEW R, NEW cs, NEW n, LinkOK(O, U, R, cs, n),
           NEW c \in cs, NEW ks, NEW bar, bar \cap ReachOf(ks, cs) = {},
           \A b \in bar : \E r \in R : r.root = b /\ r.epoch < c.next.epoch,
           NEW ks2, ks2 \subseteq ReachOf(ks, cs) \cup {c.next.root}
    PROVE  bar \cap ReachOf(ks2, cs) = {}
<1> DEFINE M == Marks(U, cs)
           Re == ReachOf(ks, cs)
           New == {t \in 0..MaxRoots : \E m \in M : m[2] = t /\ m[1] >= c.next.epoch}
           S == Re \cup New
<1>t. Numbers(O, U, R, cs, n) /\ \A m \in M : m[1] \in Nat /\ m[2] \in Nat
  BY LinkNumbers, MarkTyped DEF LinkOK
<1>1. \A d \in cs : d.next.root \in 0..MaxRoots
  <2>1. n \in Nat /\ n <= MaxRoots /\ MaxRoots \in Nat /\ \A d \in cs : d.next.root \in 0..n
    BY RootsAreMinted, MaxRootsIsNat
  <2>2. QED
    BY <2>1
<1>2. Re \subseteq 0..MaxRoots
  BY DEF ReachOf
<1>3. \A d \in cs : d.base \in Re => d.next.root \in Re
  BY <1>1, ReachLeadsOn
<1>4. \A d \in cs : <<d.next.epoch, d.next.root>> \in M
  BY DEF Marks
<1> HIDE DEF Re, M
<1>5. S \in SUBSET (0..MaxRoots)
  BY <1>2
<1>6. LeadsOn(S, cs)
  <2> SUFFICES ASSUME NEW d \in cs, d.base \in S PROVE d.next.root \in S
    BY DEF LeadsOn
  <2>1. CASE d.base \in Re
    BY <1>3, <2>1
  <2>2. CASE d.base \in New
    <3>1. PICK m \in M : m[2] = d.base /\ m[1] >= c.next.epoch
      BY <2>2
    <3>2. d.next.epoch = m[1] + 1
      BY <3>1 DEF LinkOK, MarksOK, M
    <3>3. d.next.epoch >= c.next.epoch
      BY <1>t, <3>1, <3>2 DEF Numbers
    <3> DEFINE k == <<d.next.epoch, d.next.root>>
    <3>4. k \in M /\ k[1] = d.next.epoch /\ k[2] = d.next.root
      BY <1>4
    <3> HIDE DEF k
    <3>5. QED
      BY <1>1, <3>3, <3>4
  <2>3. QED
    BY <2>1, <2>2
<1>7. ks2 \subseteq S
  <2> DEFINE k == <<c.next.epoch, c.next.root>>
  <2>1. k \in M /\ k[1] = c.next.epoch /\ k[2] = c.next.root
    BY <1>4
  <2> HIDE DEF k
  <2>2. c.next.root \in New
    BY <1>1, <1>t, <2>1 DEF Numbers
  <2>3. QED
    BY <2>2 DEF Re
<1>8. bar \cap S = {}
  <2> SUFFICES ASSUME NEW b \in bar, b \in New PROVE FALSE
    BY DEF Re
  <2>1. PICK m \in M : m[2] = b /\ m[1] >= c.next.epoch
    OBVIOUS
  <2>2. PICK r \in R : r.root = b /\ r.epoch < c.next.epoch
    OBVIOUS
  <2> DEFINE k == <<r.epoch, r.root>>
  <2>3. k \in M /\ k[1] = r.epoch /\ k[2] = b
    BY <2>2, SourceIsMark DEF LinkOK, CoresOK, M
  <2> HIDE DEF k
  <2>4. k[1] = m[1]
    BY <2>1, <2>3 DEF LinkOK, MarksOK, M
  <2>5. QED
    BY <1>t, <2>1, <2>2, <2>3, <2>4 DEF Numbers
<1> HIDE DEF S
<1>9. ReachOf(ks2, cs) \subseteq S
  BY <1>5, <1>6, <1>7, ReachIsLeast
<1>10. QED
  BY <1>8, <1>9

ListedRoots(p, X) == {k.root : k \in {r \in X : p \in r.members}}
OfferedBy(p, ad) == {a.cap.next.root : a \in {b \in ad : b.who = p}}
OffersOf(p, kn, R, U, ad) == kn \cup ListedRoots(p, R \cup U) \cup OfferedBy(p, ad)

\* What a step that leaves one core more, or teaches a root listed to p, offers it.
OffersStep(p, T, h, kn, R, U, ad, kn2, R2, U2, ad2) ==
    /\ OffersOf(p, kn, R, U, ad) \subseteq T
    /\ p \in h.members => h.root \in T
    /\ R2 \subseteq R \cup {h} /\ U2 \subseteq U \cup {h}
    /\ kn2 \subseteq kn \cup ListedRoots(p, R \cup R2 \cup U)
    /\ \A a \in ad2 : a \in ad \/ a.who # p \/ a.cap.next.root \in T

LEMMA OffersMove ==
    ASSUME NEW p, NEW T, NEW h, NEW kn, NEW R, NEW U, NEW ad, NEW kn2, NEW R2, NEW U2, NEW ad2,
           OffersStep(p, T, h, kn, R, U, ad, kn2, R2, U2, ad2)
    PROVE  OffersOf(p, kn2, R2, U2, ad2) \subseteq T
<1>0. /\ OffersOf(p, kn, R, U, ad) \subseteq T
      /\ p \in h.members => h.root \in T
      /\ R2 \subseteq R \cup {h} /\ U2 \subseteq U \cup {h}
      /\ kn2 \subseteq kn \cup ListedRoots(p, R \cup R2 \cup U)
      /\ \A a \in ad2 : a \in ad \/ a.who # p \/ a.cap.next.root \in T
  BY DEF OffersStep
<1>1. ListedRoots(p, R \cup U) \subseteq T /\ kn \subseteq T /\ OfferedBy(p, ad) \subseteq T
  BY <1>0 DEF OffersOf
<1>2. ListedRoots(p, R \cup U \cup {h}) \subseteq T
  <2> SUFFICES ASSUME NEW k \in R \cup U \cup {h}, p \in k.members PROVE k.root \in T
    BY DEF ListedRoots
  <2>1. CASE k \in R \cup U
    BY <1>1, <2>1 DEF ListedRoots
  <2>2. QED
    BY <1>0, <2>1
<1>3. ListedRoots(p, R2 \cup U2) \subseteq T /\ kn2 \subseteq T
  BY <1>0, <1>1, <1>2 DEF ListedRoots
<1>4. OfferedBy(p, ad2) \subseteq T
  BY <1>0, <1>1 DEF OfferedBy
<1>5. QED
  BY <1>3, <1>4 DEF OffersOf

----------------------------------------------------------------------------
(* A space seen through its cores, and the five ways a step changes that.   *)

\* V: the owner's core, the sent cores, the stored and answered ones, the links, how
\* many roots are minted, the admissions sent.
ViewOK(V) ==
    /\ LinkOK(V.own, V.sent, V.cores, V.caps, V.roots)
    /\ \A a \in V.admits : a.cap \in V.caps

Issue(V, W, h) ==
    /\ Follows(V.own, h, V.roots, W.roots) /\ W.own = h /\ h \in W.cores
    /\ W.sent = V.sent \cup {h} /\ W.cores \subseteq V.cores \cup {h}
    /\ W.caps = V.caps /\ W.admits = V.admits
Mint(V, W, c) ==
    /\ Mints(V.own, c, V.roots) /\ W.roots = V.roots + 1 /\ W.own = V.own /\ W.own \in W.cores
    /\ W.sent = V.sent /\ W.cores \subseteq V.cores
    /\ W.caps = V.caps \cup {c} /\ W.admits = V.admits
Fewer(V, W) ==
    /\ W.own = V.own /\ W.own \in W.cores /\ W.sent = V.sent /\ W.cores \subseteq V.cores
    /\ W.caps = V.caps /\ W.admits = V.admits /\ W.roots = V.roots
Update(V, W, r, u, h) ==
    /\ r \in V.cores /\ u \in V.sent /\ Updates(r, u, h)
    /\ W.own = V.own /\ W.own \in W.cores /\ W.sent = V.sent /\ W.cores \subseteq V.cores \cup {h}
    /\ W.caps = V.caps /\ W.admits = V.admits /\ W.roots = V.roots
Admission(V, W, r, c, q, h) ==
    /\ r \in V.cores /\ c \in V.caps /\ Enacts(r, c, q, h)
    /\ W.own = V.own \/ (r = V.own /\ W.own = h)
    /\ W.own \in W.cores /\ W.sent = V.sent /\ W.cores \subseteq V.cores \cup {h}
    /\ W.caps = V.caps /\ W.roots = V.roots
    /\ \A a \in W.admits : a \in V.admits \/ (a.who = q /\ a.cap = c)

LEMMA IssueOK ==
    ASSUME NEW V, NEW W, ViewOK(V), NEW h, Issue(V, W, h)
    PROVE  ViewOK(W)
<1>1. LinkOK(h, V.sent \cup {h}, V.cores \cup {h}, V.caps, W.roots)
  BY IssueLinks DEF ViewOK, Issue
<1>2. LinkOK(h, V.sent \cup {h}, W.cores, V.caps, W.roots)
  BY <1>1, FewerLinks DEF Issue
<1>3. QED
  BY <1>2 DEF ViewOK, Issue

LEMMA MintOK ==
    ASSUME NEW V, NEW W, ViewOK(V), NEW c, Mint(V, W, c)
    PROVE  ViewOK(W)
<1>1. LinkOK(V.own, V.sent, V.cores, V.caps \cup {c}, V.roots + 1)
  BY MintLinks DEF ViewOK, Mint
<1>2. LinkOK(V.own, V.sent, W.cores, V.caps \cup {c}, V.roots + 1)
  BY <1>1, FewerLinks DEF Mint
<1>3. QED
  BY <1>2 DEF ViewOK, Mint

LEMMA FewerOK ==
    ASSUME NEW V, NEW W, ViewOK(V), Fewer(V, W)
    PROVE  ViewOK(W)
<1>1. LinkOK(V.own, V.sent, W.cores, V.caps, V.roots)
  BY FewerLinks DEF ViewOK, Fewer
<1>2. QED
  BY <1>1 DEF ViewOK, Fewer

LEMMA UpdateOK ==
    ASSUME NEW V, NEW W, ViewOK(V), NEW r, NEW u, NEW h, Update(V, W, r, u, h)
    PROVE  ViewOK(W)
<1>1. LinkOK(V.own, V.sent, V.cores \cup {h}, V.caps, V.roots)
  BY UpdateLinks DEF ViewOK, Update
<1>2. LinkOK(V.own, V.sent, W.cores, V.caps, V.roots)
  BY <1>1, FewerLinks DEF Update
<1>3. QED
  BY <1>2 DEF ViewOK, Update

LEMMA AdmissionOK ==
    ASSUME NEW V, NEW W, ViewOK(V), NEW r, NEW c, NEW q, NEW h, Admission(V, W, r, c, q, h)
    PROVE  ViewOK(W)
<1>1. LinkOK(W.own, V.sent, V.cores \cup {h}, V.caps, V.roots)
  <2>1. CASE W.own = V.own
    BY <2>1, EnactLinks DEF ViewOK, Admission
  <2>2. CASE r = V.own /\ W.own = h
    BY <2>2, OwnerEnactLinks DEF ViewOK, Admission
  <2>3. QED
    BY <2>1, <2>2 DEF Admission
<1>2. LinkOK(W.own, V.sent, W.cores, V.caps, V.roots)
  BY <1>1, FewerLinks DEF Admission
<1>3. QED
  BY <1>2 DEF ViewOK, Admission

\* Where the kick K of p leaves everything: on its side.
Splits(p, K, V) == KickSplits(p, K, V.own, V.sent, V.cores, V.caps, V.roots)
KickHolds(p, K, V, kn) ==
    Splits(p, K, V) /\ OfferedBy(p, V.admits) \subseteq 0..K.roots /\ kn \subseteq 0..K.roots
\* p learns roots of records that list it.
Learns(p, V, W, kn, kn2) == kn2 \subseteq kn \cup ListedRoots(p, V.cores \cup W.cores \cup V.sent)

LEMMA SplitHolds ==
    ASSUME NEW V, NEW W, ViewOK(V), ViewOK(W), NEW p, NEW K, NEW kn, NEW kn2,
           KickHolds(p, K, V, kn), Splits(p, K, W), Learns(p, V, W, kn, kn2),
           \A a \in W.admits : a \in V.admits \/ a.who # p \/ a.cap.next.root \in 0..K.roots
    PROVE  KickHolds(p, K, W, kn2)
<1>1. \A r \in V.cores \cup W.cores \cup V.sent : r.root \in Nat
  BY DEF ViewOK, LinkOK, LinkTypes, CoreType
<1>2. \A r \in V.cores \cup W.cores \cup V.sent : Split(r, p, K)
  BY DEF KickHolds, Splits, KickSplits
<1>3. K.roots \in Nat
  BY DEF KickHolds, Splits, KickSplits, KickType
<1>4. ListedRoots(p, V.cores \cup W.cores \cup V.sent) \subseteq 0..K.roots
  <2> SUFFICES ASSUME NEW r \in V.cores \cup W.cores \cup V.sent, p \in r.members
               PROVE  r.root \in 0..K.roots
    BY DEF ListedRoots
  <2>1. Split(r, p, K) /\ r.root \in Nat
    BY <1>1, <1>2
  <2>2. QED
    BY <1>3, <2>1 DEF Split
<1>5. kn2 \subseteq 0..K.roots
  BY <1>4 DEF Learns, KickHolds
<1>6. OfferedBy(p, W.admits) \subseteq 0..K.roots
  BY DEF OfferedBy, KickHolds
<1>7. QED
  BY <1>5, <1>6 DEF KickHolds

LEMMA IssueKick ==
    ASSUME NEW V, NEW W, ViewOK(V), NEW h, Issue(V, W, h), NEW p, NEW K, NEW kn, NEW kn2,
           KickHolds(p, K, V, kn), Learns(p, V, W, kn, kn2), p \notin h.members
    PROVE  KickHolds(p, K, W, kn2)
<1>1. KickSplits(p, K, h, V.sent \cup {h}, V.cores \cup {h}, V.caps, W.roots)
  BY IssueSplits DEF ViewOK, Issue, KickHolds, Splits
<1>2. KickSplits(p, K, h, V.sent \cup {h}, W.cores, V.caps, W.roots)
  BY <1>1, FewerSplits DEF Issue
<1>3. Splits(p, K, W)
  BY <1>2 DEF Issue, Splits
<1>4. W.admits = V.admits
  BY DEF Issue
<1>5. QED
  BY <1>3, <1>4, IssueOK, SplitHolds

LEMMA MintKick ==
    ASSUME NEW V, NEW W, ViewOK(V), NEW c, Mint(V, W, c), NEW p, NEW K, NEW kn, NEW kn2,
           KickHolds(p, K, V, kn), Learns(p, V, W, kn, kn2)
    PROVE  KickHolds(p, K, W, kn2)
<1>1. KickSplits(p, K, V.own, V.sent, V.cores, V.caps \cup {c}, V.roots + 1)
  BY MintSplits DEF ViewOK, Mint, KickHolds, Splits
<1>2. KickSplits(p, K, V.own, V.sent, W.cores, V.caps \cup {c}, V.roots + 1)
  BY <1>1, FewerSplits DEF Mint
<1>3. Splits(p, K, W)
  BY <1>2 DEF Mint, Splits
<1>4. W.admits = V.admits
  BY DEF Mint
<1>5. QED
  BY <1>3, <1>4, MintOK, SplitHolds

LEMMA FewerKick ==
    ASSUME NEW V, NEW W, ViewOK(V), Fewer(V, W), NEW p, NEW K, NEW kn, NEW kn2,
           KickHolds(p, K, V, kn), Learns(p, V, W, kn, kn2)
    PROVE  KickHolds(p, K, W, kn2)
<1>1. KickSplits(p, K, V.own, V.sent, W.cores, V.caps, V.roots)
  BY FewerSplits DEF Fewer, KickHolds, Splits
<1>2. Splits(p, K, W)
  BY <1>1 DEF Fewer, Splits
<1>3. W.admits = V.admits
  BY DEF Fewer
<1>4. QED
  BY <1>2, <1>3, FewerOK, SplitHolds

LEMMA UpdateKick ==
    ASSUME NEW V, NEW W, ViewOK(V), NEW r, NEW u, NEW h, Update(V, W, r, u, h),
           NEW p, NEW K, NEW kn, NEW kn2,
           KickHolds(p, K, V, kn), Learns(p, V, W, kn, kn2)
    PROVE  KickHolds(p, K, W, kn2)
<1>1. KickSplits(p, K, V.own, V.sent, V.cores \cup {h}, V.caps, V.roots)
  BY UpdateSplits DEF ViewOK, Update, KickHolds, Splits
<1>2. KickSplits(p, K, V.own, V.sent, W.cores, V.caps, V.roots)
  BY <1>1, FewerSplits DEF Update
<1>3. Splits(p, K, W)
  BY <1>2 DEF Update, Splits
<1>4. W.admits = V.admits
  BY DEF Update
<1>5. QED
  BY <1>3, <1>4, UpdateOK, SplitHolds

LEMMA AdmissionKick ==
    ASSUME NEW V, NEW W, ViewOK(V), NEW r, NEW c, NEW q, NEW h, Admission(V, W, r, c, q, h),
           NEW p, NEW K, NEW kn, NEW kn2, KickHolds(p, K, V, kn), Learns(p, V, W, kn, kn2),
           p = q => c.next.root <= K.roots
    PROVE  KickHolds(p, K, W, kn2)
<1>1. KickSplits(p, K, W.own, V.sent, V.cores \cup {h}, V.caps, V.roots)
  <2>1. CASE W.own = V.own
    BY <2>1, EnactSplits DEF ViewOK, Admission, KickHolds, Splits
  <2>2. CASE r = V.own /\ W.own = h
    BY <2>2, OwnerEnactSplits DEF ViewOK, Admission, KickHolds, Splits
  <2>3. QED
    BY <2>1, <2>2 DEF Admission
<1>2. KickSplits(p, K, W.own, V.sent, W.cores, V.caps, V.roots)
  BY <1>1, FewerSplits DEF Admission
<1>3. Splits(p, K, W)
  BY <1>2 DEF Admission, Splits
<1>4. c.next.root \in Nat /\ K.roots \in Nat
  BY LinkNumbers DEF ViewOK, Admission, Numbers, KickHolds, Splits, KickSplits, KickType
<1>5. \A a \in W.admits : a \in V.admits \/ a.who # p \/ a.cap.next.root \in 0..K.roots
  BY <1>4 DEF Admission
<1>6. QED
  BY <1>3, <1>5, AdmissionOK, SplitHolds

LEMMA KickBegins ==
    ASSUME NEW V, NEW W, ViewOK(V), NEW h, Issue(V, W, h), h.root = V.roots + 1,
           NEW p, p \notin h.members, NEW K, K = [rev |-> V.own.rev + 1, roots |-> V.roots],
           NEW kn, kn \subseteq 0..V.roots
    PROVE  KickHolds(p, K, W, kn)
<1>0. /\ \A r \in V.cores \cup V.sent : r.root \in 0..V.roots
      /\ \A c \in V.caps : c.next.root \in 0..V.roots
  BY RootsAreMinted DEF ViewOK
<1>1. W.roots = V.roots + 1
  <2>1. V.own.root \in 0..V.roots /\ V.roots \in Nat
    BY <1>0 DEF ViewOK, LinkOK, LinkTypes
  <2>2. QED
    BY <2>1 DEF Issue, Follows
<1>2. KickSplits(p, K, h, V.sent \cup {h}, V.cores \cup {h}, V.caps, W.roots)
  BY <1>1, KickStarts DEF ViewOK, Issue
<1>3. KickSplits(p, K, h, V.sent \cup {h}, W.cores, V.caps, W.roots)
  BY <1>2, FewerSplits DEF Issue
<1>4. Splits(p, K, W)
  BY <1>3 DEF Issue, Splits
<1>5. OfferedBy(p, W.admits) \subseteq 0..K.roots
  BY <1>0 DEF Issue, OfferedBy, ViewOK
<1>6. QED
  BY <1>4, <1>5 DEF KickHolds

\* What p is barred from stays out of its reach.
Offers(p, V, kn) == OffersOf(p, kn, V.cores, V.sent, V.admits)
BarHolds(p, bar, V, kn) ==
    bar \subseteq 0..V.roots /\ bar \cap ReachOf(Offers(p, V, kn), V.caps) = {}

LEMMA ViewMinted ==
    ASSUME NEW V, ViewOK(V)
    PROVE  /\ Minted(V.caps, V.roots) /\ V.roots \in 0..MaxRoots /\ V.roots \in Nat
           /\ \A r \in V.cores \cup V.sent : r.root \in 0..MaxRoots /\ r.root \in 0..V.roots
           /\ \A c \in V.caps : c.next.root \in 0..MaxRoots
<1>1. /\ \A r \in V.cores \cup V.sent : r.root \in 0..V.roots
      /\ \A c \in V.caps : c.base \in 0..V.roots /\ c.next.root \in 0..V.roots
      /\ V.roots \in 0..MaxRoots
  BY RootsAreMinted DEF ViewOK
<1>2. 0..V.roots \subseteq 0..MaxRoots
  BY <1>1, MaxRootsIsNat
<1>3. QED
  BY <1>1, <1>2, MaxRootsIsNat DEF Minted

\* All that is offered is a root.
LEMMA OffersAreRoots ==
    ASSUME NEW V, ViewOK(V), NEW p, NEW kn, kn \subseteq 0..V.roots
    PROVE  Offers(p, V, kn) \subseteq 0..MaxRoots
<1>1. 0..V.roots \subseteq 0..MaxRoots
  BY ViewMinted, MaxRootsIsNat
<1>2. ListedRoots(p, V.cores \cup V.sent) \subseteq 0..MaxRoots
  BY ViewMinted DEF ListedRoots
<1>3. OfferedBy(p, V.admits) \subseteq 0..MaxRoots
  BY ViewMinted DEF OfferedBy, ViewOK
<1>4. QED
  BY <1>1, <1>2, <1>3 DEF Offers, OffersOf

LEMMA OffersReached ==
    ASSUME NEW V, ViewOK(V), NEW p, NEW kn, kn \subseteq 0..V.roots
    PROVE  Offers(p, V, kn) \subseteq ReachOf(Offers(p, V, kn), V.caps)
<1> DEFINE off == Offers(p, V, kn)
<1>1. off \subseteq 0..MaxRoots
  BY OffersAreRoots
<1> HIDE DEF off
<1>2. ASSUME NEW k \in off PROVE k \in ReachOf(off, V.caps)
  BY <1>1, ReachHolds
<1>3. QED
  BY <1>2 DEF off

\* A step offers only what was in reach or is fresh.
BarKept(V, W, p, h, kn, kn2) ==
    LET T == ReachOf(Offers(p, V, kn), V.caps) \cup ((V.roots + 1)..MaxRoots)
    IN  /\ p \in h.members => h.root \in T
        /\ \A a \in W.admits : a \in V.admits \/ a.who # p \/ a.cap.next.root \in T
        /\ W.cores \subseteq V.cores \cup {h} /\ W.sent \subseteq V.sent \cup {h}
        /\ \A c \in W.caps : c \in V.caps \/ c.next.root \in (V.roots + 1)..MaxRoots
        /\ V.roots <= W.roots

LEMMA BarStays ==
    ASSUME NEW V, NEW W, ViewOK(V), ViewOK(W), NEW p, NEW bar, NEW kn, NEW kn2,
           kn \subseteq 0..V.roots, BarHolds(p, bar, V, kn), Learns(p, V, W, kn, kn2),
           NEW h, BarKept(V, W, p, h, kn, kn2)
    PROVE  BarHolds(p, bar, W, kn2)
<1> DEFINE off == Offers(p, V, kn)
           T == ReachOf(off, V.caps) \cup ((V.roots + 1)..MaxRoots)
<1>1. off \subseteq T
  BY OffersReached
<1>2. /\ p \in h.members => h.root \in T
      /\ \A a \in W.admits : a \in V.admits \/ a.who # p \/ a.cap.next.root \in T
      /\ W.cores \subseteq V.cores \cup {h} /\ W.sent \subseteq V.sent \cup {h}
      /\ \A c \in W.caps : c \in V.caps \/ c.next.root \in (V.roots + 1)..MaxRoots
      /\ V.roots <= W.roots
  BY DEF BarKept
<1>3. kn2 \subseteq kn \cup ListedRoots(p, V.cores \cup W.cores \cup V.sent)
  BY DEF Learns
<1>4. OffersOf(p, kn, V.cores, V.sent, V.admits) \subseteq T
  BY <1>1 DEF Offers
<1>5. bar \subseteq 0..V.roots /\ bar \cap ReachOf(off, V.caps) = {}
  BY DEF BarHolds
<1> HIDE DEF T
<1>o. OffersStep(p, T, h, kn, V.cores, V.sent, V.admits, kn2, W.cores, W.sent, W.admits)
  BY <1>2, <1>3, <1>4 DEF OffersStep
<1>6. OffersOf(p, kn2, W.cores, W.sent, W.admits) \subseteq T
  BY <1>o, OffersMove, Zenon
<1> HIDE DEF off
<1>7. bar \cap ReachOf(Offers(p, W, kn2), W.caps) = {}
  <2> DEFINE off2 == Offers(p, W, kn2)
  <2>1. off2 \subseteq ReachOf(off, V.caps) \cup ((V.roots + 1)..MaxRoots)
    BY <1>6 DEF T, Offers
  <2>2. Minted(V.caps, V.roots)
    BY ViewMinted
  <2> HIDE DEF off2
  <2>3. ReachStep(V.roots, bar, off, V.caps, off2, W.caps)
    BY <1>2, <1>5, <2>1, <2>2 DEF ReachStep
  <2>5. bar \cap ReachOf(off2, W.caps) = {}
    BY <2>3, OutOfReachStays, Zenon
  <2>6. QED
    BY <2>5 DEF off2
<1>8. bar \subseteq 0..W.roots
  <2>1. V.roots \in Nat /\ W.roots \in Nat
    BY ViewMinted
  <2>2. QED
    BY <1>2, <1>5, <2>1
<1>9. QED
  BY <1>7, <1>8 DEF BarHolds

LEMMA IssueBar ==
    ASSUME NEW V, NEW W, ViewOK(V), NEW h, Issue(V, W, h), NEW p, NEW bar, NEW kn, NEW kn2,
           kn \subseteq 0..V.roots, BarHolds(p, bar, V, kn), Learns(p, V, W, kn, kn2),
           p \in h.members => p \in V.own.members \/ h.root = V.roots + 1
    PROVE  BarHolds(p, bar, W, kn2)
<1> DEFINE Re == ReachOf(Offers(p, V, kn), V.caps)
<1>1. V.roots \in Nat /\ W.roots \in Nat /\ V.own \in V.cores /\ V.own.root \in 0..V.roots
      /\ W.roots <= MaxRoots /\ MaxRoots \in Nat
  <2>1. ViewOK(W)
    BY IssueOK
  <2>2. V.own \in V.cores
    BY DEF ViewOK, LinkOK
  <2>3. QED
    BY <2>1, <2>2, ViewMinted, MaxRootsIsNat
<1>2. V.roots <= W.roots
  BY <1>1 DEF Issue, Follows
<1>3. ASSUME p \in h.members PROVE h.root \in Re \cup ((V.roots + 1)..MaxRoots)
  <2>1. CASE h.root = V.roots + 1
    <3>1. W.roots = V.roots + 1
      BY <1>1, <2>1 DEF Issue, Follows
    <3>2. QED
      BY <1>1, <2>1, <3>1
  <2>2. CASE h.root # V.roots + 1
    <3>1. p \in V.own.members /\ h.root = V.own.root
      BY <1>3, <2>2 DEF Issue, Follows
    <3>2. h.root \in Offers(p, V, kn)
      BY <1>1, <3>1 DEF Offers, OffersOf, ListedRoots
    <3>3. QED
      BY <3>2, OffersReached
  <2>3. QED
    BY <2>1, <2>2
<1>4. BarKept(V, W, p, h, kn, kn2)
  BY <1>2, <1>3 DEF BarKept, Issue
<1>5. QED
  BY <1>4, IssueOK, BarStays

LEMMA MintBar ==
    ASSUME NEW V, NEW W, ViewOK(V), NEW c, Mint(V, W, c), NEW p, NEW bar, NEW kn, NEW kn2,
           kn \subseteq 0..V.roots, BarHolds(p, bar, V, kn), Learns(p, V, W, kn, kn2)
    PROVE  BarHolds(p, bar, W, kn2)
<1>1. V.roots \in Nat /\ MaxRoots \in Nat
  BY ViewMinted, MaxRootsIsNat
<1>2. c.next.root \in (V.roots + 1)..MaxRoots /\ V.roots <= W.roots
  BY <1>1 DEF Mint, Mints
<1> DEFINE h == [members |-> {}]
<1>3. p \notin h.members
  OBVIOUS
<1> HIDE DEF h
<1>4. BarKept(V, W, p, h, kn, kn2)
  BY <1>2, <1>3 DEF BarKept, Mint
<1>5. QED
  BY <1>4, MintOK, BarStays

LEMMA FewerBar ==
    ASSUME NEW V, NEW W, ViewOK(V), Fewer(V, W), NEW p, NEW bar, NEW kn, NEW kn2,
           kn \subseteq 0..V.roots, BarHolds(p, bar, V, kn), Learns(p, V, W, kn, kn2)
    PROVE  BarHolds(p, bar, W, kn2)
<1>1. V.roots \in Nat
  BY ViewMinted
<1>2. V.roots <= W.roots
  BY <1>1 DEF Fewer
<1> DEFINE h == [members |-> {}]
<1>3. p \notin h.members
  OBVIOUS
<1> HIDE DEF h
<1>4. BarKept(V, W, p, h, kn, kn2)
  BY <1>2, <1>3 DEF BarKept, Fewer
<1>5. QED
  BY <1>4, FewerOK, BarStays

LEMMA UpdateBar ==
    ASSUME NEW V, NEW W, ViewOK(V), NEW r, NEW u, NEW h, Update(V, W, r, u, h),
           NEW p, NEW bar, NEW kn, NEW kn2,
           kn \subseteq 0..V.roots, BarHolds(p, bar, V, kn), Learns(p, V, W, kn, kn2)
    PROVE  BarHolds(p, bar, W, kn2)
<1> DEFINE Re == ReachOf(Offers(p, V, kn), V.caps)
<1>1. V.roots \in Nat /\ \A c \in V.caps : c.next.root \in 0..MaxRoots
  BY ViewMinted
<1>2. V.roots <= W.roots
  BY <1>1 DEF Update
<1>3. ASSUME p \in h.members PROVE h.root \in Re
  <2>1. p \in u.members /\ u \in V.sent
    BY <1>3 DEF Update, Updates
  <2>2. u.root \in Offers(p, V, kn)
    BY <2>1 DEF Offers, OffersOf, ListedRoots
  <2>3. u.root \in Re
    BY <2>2, OffersReached
  <2>4. CASE h.root = u.root
    BY <2>3, <2>4
  <2>5. CASE u.epoch < r.epoch /\ h.root = r.root
    <3>1. u.rev > r.rev /\ r \in V.cores
      BY DEF Update, Updates
    <3>2. PICK c \in V.caps : c.base = u.root /\ c.next.root = r.root
      BY <2>1, <2>5, <3>1, KeptRootIsAhead DEF ViewOK
    <3>3. c.next.root \in Re
      BY <1>1, <2>3, <3>2, ReachLeadsOn
    <3>4. QED
      BY <2>5, <3>2, <3>3
  <2>6. QED
    BY <2>4, <2>5 DEF Update, Updates
<1> HIDE DEF Re
<1>4. BarKept(V, W, p, h, kn, kn2)
  BY <1>2, <1>3 DEF BarKept, Update, Re
<1>5. QED
  BY <1>4, UpdateOK, BarStays

LEMMA AdmissionBar ==
    ASSUME NEW V, NEW W, ViewOK(V), NEW r, NEW c, NEW q, NEW h, Admission(V, W, r, c, q, h),
           NEW p, NEW bar, NEW kn, NEW kn2,
           kn \subseteq 0..V.roots, BarHolds(p, bar, V, kn), Learns(p, V, W, kn, kn2),
           p = q => c.next.root \in Offers(p, V, kn)
    PROVE  BarHolds(p, bar, W, kn2)
<1> DEFINE Re == ReachOf(Offers(p, V, kn), V.caps)
<1>1. V.roots \in Nat /\ \A d \in V.caps : d.next.root \in 0..MaxRoots
  BY ViewMinted
<1>2. V.roots <= W.roots
  BY <1>1 DEF Admission
<1>3. p = q => c.next.root \in Re
  BY OffersReached
<1>4. ASSUME p \in h.members PROVE h.root \in Re
  <2>1. CASE p = q
    <3>1. h.root = c.next.root
      BY DEF Admission, Enacts
    <3>2. QED
      BY <1>3, <2>1, <3>1
  <2>2. CASE p # q
    <3>1. p \in r.members /\ r \in V.cores /\ c \in V.caps
      BY <1>4, <2>2 DEF Admission, Enacts
    <3>2. r.root \in Offers(p, V, kn)
      BY <3>1 DEF Offers, OffersOf, ListedRoots
    <3>3. r.root \in Re
      BY <3>2, OffersReached
    <3>4. CASE h.root = r.root
      BY <3>3, <3>4
    <3>5. CASE c.base = r.root /\ h.root = c.next.root
      <4>1. c.next.root \in Re
        BY <1>1, <3>1, <3>3, <3>5, ReachLeadsOn
      <4>2. QED
        BY <3>5, <4>1
    <3>6. QED
      BY <3>4, <3>5 DEF Admission, Enacts
  <2>3. QED
    BY <2>1, <2>2
<1> HIDE DEF Re
<1>5. \A a \in W.admits : a \in V.admits \/ a.who # p \/ a.cap.next.root \in Re
  BY <1>3 DEF Admission
<1>6. BarKept(V, W, p, h, kn, kn2)
  BY <1>2, <1>4, <1>5 DEF BarKept, Admission, Re
<1>7. QED
  BY <1>6, AdmissionOK, BarStays

\* What p is barred from when it is admitted: nothing it can get to.
LEMMA AdmissionBegins ==
    ASSUME NEW V, NEW W, ViewOK(V), NEW r, NEW c, NEW p, NEW h, Admission(V, W, r, c, p, h),
           NEW kn, NEW kn2, kn \subseteq 0..V.roots, Learns(p, V, W, kn, kn2),
           NEW bar, bar \cap ReachOf(Offers(p, V, kn), V.caps) = {},
           \A b \in bar : \E s \in V.cores : s.root = b /\ s.epoch < c.next.epoch
    PROVE  BarHolds(p, bar, W, kn2)
<1> DEFINE off == Offers(p, V, kn)
           T == ReachOf(off, V.caps) \cup {c.next.root}
<1>1. OffersOf(p, kn, V.cores, V.sent, V.admits) \subseteq T
  BY OffersReached DEF Offers
<1>2. h.root = c.next.root /\ c \in V.caps
  BY DEF Admission, Enacts
<1>3. /\ p \in h.members => h.root \in T
      /\ \A a \in W.admits : a \in V.admits \/ a.who # p \/ a.cap.next.root \in T
      /\ W.cores \subseteq V.cores \cup {h} /\ W.sent \subseteq V.sent \cup {h}
  BY <1>2 DEF Admission
<1>4. kn2 \subseteq kn \cup ListedRoots(p, V.cores \cup W.cores \cup V.sent)
  BY DEF Learns
<1> HIDE DEF T
<1>o. OffersStep(p, T, h, kn, V.cores, V.sent, V.admits, kn2, W.cores, W.sent, W.admits)
  BY <1>1, <1>3, <1>4 DEF OffersStep
<1>5. OffersOf(p, kn2, W.cores, W.sent, W.admits) \subseteq T
  BY <1>o, OffersMove, Zenon
<1> HIDE DEF off
<1>6. bar \cap ReachOf(Offers(p, W, kn2), W.caps) = {}
  <2> DEFINE off2 == Offers(p, W, kn2)
  <2>1. off2 \subseteq ReachOf(off, V.caps) \cup {c.next.root}
    BY <1>5 DEF T, Offers
  <2>2. bar \cap ReachOf(off, V.caps) = {}
    BY DEF off
  <2> HIDE DEF off2
  <2>3. LinkOK(V.own, V.sent, V.cores, V.caps, V.roots)
    BY DEF ViewOK
  <2>4. bar \cap ReachOf(off2, V.caps) = {}
    BY <1>2, <2>1, <2>2, <2>3, AdmissionBars
  <2>5. QED
    BY <2>4 DEF off2, Admission
<1>7. bar \subseteq 0..W.roots
  <2>1. \A s \in V.cores : s.root \in 0..V.roots
    BY ViewMinted
  <2>2. QED
    BY <2>1 DEF Admission
<1>8. QED
  BY <1>6, <1>7 DEF BarHolds

----------------------------------------------------------------------------
(* The invariant, and how each kind of step keeps it.                       *)

Cores == {Core(r) : r \in Records}
Sent == {Core(u) : u \in updates}
OwnCore == Core(rec[Owner])
View == [own |-> OwnCore, sent |-> Sent, cores |-> Cores, caps |-> caps, roots |-> roots,
         admits |-> admits]

Shapes ==
    /\ known = [p \in Peers |-> known[p]] /\ kick = [p \in Peers |-> kick[p]]
    /\ barred = [p \in Peers |-> barred[p]]
\* What a client stores or is sent lists it.
SelfListed ==
    \A p \in Peers : /\ Holds(p) => p \in rec[p].members
                     /\ (reply[p] # NoReply /\ reply[p].ok) => p \in reply[p].record.members
KicksHold == \A p \in Peers : kick[p] # NoKick => KickHolds(p, kick[p], View, known[p])
BarsHold == \A p \in Peers : BarHolds(p, barred[p], View, known[p])
RootInv ==
    /\ SInv /\ ViewOK(View) /\ Shapes /\ SelfListed
    /\ \A p \in Peers : known[p] \subseteq 0..roots
    /\ KicksHold /\ BarsHold

AllLearn == \A p \in Peers : Learns(p, View, View', known[p], known'[p])
\* What every step does besides.
Besides == SInv' /\ Shapes' /\ SelfListed' /\ AllLearn

LEMMA LearntIsMinted ==
    ASSUME NEW V, NEW W, ViewOK(V), ViewOK(W), NEW p, NEW kn, NEW kn2, kn \subseteq 0..V.roots,
           Learns(p, V, W, kn, kn2), V.roots <= W.roots
    PROVE  kn2 \subseteq 0..W.roots
<1>1. V.roots \in Nat /\ W.roots \in Nat
  BY ViewMinted
<1>2. 0..V.roots \subseteq 0..W.roots
  BY <1>1
<1>3. \A r \in V.cores \cup W.cores \cup V.sent : r.root \in 0..W.roots
  BY <1>2, ViewMinted
<1>4. ListedRoots(p, V.cores \cup W.cores \cup V.sent) \subseteq 0..W.roots
  BY <1>3 DEF ListedRoots
<1>5. QED
  BY <1>2, <1>4 DEF Learns

\* A kicked peer is not in the owner's record.
LEMMA KickedIsOut ==
    ASSUME NEW V, ViewOK(V), NEW p, NEW K, NEW kn, KickHolds(p, K, V, kn)
    PROVE  p \notin V.own.members
<1>1. V.own \in V.cores /\ V.own.root \in Nat /\ K.roots \in Nat
  BY LinkNumbers DEF ViewOK, LinkOK, Numbers, KickHolds, Splits, KickSplits, KickType
<1>2. Split(V.own, p, K) /\ V.own.root > K.roots
  BY <1>1 DEF KickHolds, Splits, KickSplits
<1>3. QED
  BY <1>1, <1>2 DEF Split

\* The parts of the invariant, for a view and what goes with it.
LEMMA RootInvParts ==
    ASSUME RootInv, NEW V, V = View
    PROVE  /\ ViewOK(V) /\ V.roots = roots /\ V.own = OwnCore /\ V.cores = Cores
           /\ V.sent = Sent /\ V.caps = caps /\ V.admits = admits
           /\ \A p \in Peers : known[p] \subseteq 0..V.roots
           /\ \A p \in Peers : kick[p] # NoKick => KickHolds(p, kick[p], V, known[p])
           /\ \A p \in Peers : BarHolds(p, barred[p], V, known[p])
BY DEF RootInv, KicksHold, BarsHold, View

LEMMA RootInvAfter ==
    ASSUME RootInv, Besides, NEW W, W = View', ViewOK(W), roots <= roots',
           \A p \in Peers : kick'[p] # NoKick => KickHolds(p, kick'[p], W, known'[p]),
           \A p \in Peers : BarHolds(p, barred'[p], W, known'[p])
    PROVE  RootInv'
<1>1. PICK V : V = View
  OBVIOUS
<1>2. V.roots = roots /\ W.roots = roots'
  BY <1>1 DEF View
<1>3. ASSUME NEW p \in Peers PROVE known'[p] \subseteq 0..roots'
  <2>1. Learns(p, V, W, known[p], known'[p])
    BY <1>1 DEF Besides, AllLearn
  <2>2. ViewOK(V) /\ known[p] \subseteq 0..V.roots
    BY <1>1, RootInvParts
  <2>3. known'[p] \subseteq 0..W.roots
    BY <1>2, <2>1, <2>2, LearntIsMinted
  <2>4. QED
    BY <1>2, <2>3
<1>4. KicksHold' /\ BarsHold' /\ ViewOK(View)'
  BY DEF KicksHold, BarsHold
<1>5. QED
  BY <1>3, <1>4 DEF RootInv, Besides

\* What becomes of the kicks and bars of the others.
KickSame(p) == kick'[p] = NoKick \/ kick'[p] = kick[p]

LEMMA IssueStep ==
    ASSUME RootInv, Besides, NEW h, Issue(View, View', h),
           \A p \in Peers : \/ KickSame(p) /\ (kick'[p] # NoKick => p \notin h.members)
                            \/ KickHolds(p, kick'[p], View', known'[p]),
           \A p \in Peers : \/ /\ barred'[p] = barred[p]
                               /\ p \in h.members => p \in OwnCore.members \/ h.root = roots + 1
                            \/ BarHolds(p, barred'[p], View', known'[p])
    PROVE  RootInv'
<1>1. PICK V : V = View
  OBVIOUS
<1>2. PICK W : W = View'
  OBVIOUS
<1>3. Issue(V, W, h) /\ ViewOK(V) /\ V.roots = roots /\ V.own = OwnCore
  BY <1>1, <1>2, RootInvParts
<1>4. ViewOK(W)
  BY <1>3, IssueOK
<1>5. ASSUME NEW p \in Peers, kick'[p] # NoKick PROVE KickHolds(p, kick'[p], W, known'[p])
  <2>1. CASE KickHolds(p, kick'[p], View', known'[p])
    BY <1>2, <2>1
  <2>2. CASE kick'[p] = kick[p] /\ p \notin h.members
    <3>1. KickHolds(p, kick[p], V, known[p]) /\ Learns(p, V, W, known[p], known'[p])
      BY <1>1, <1>2, <1>5, <2>2, RootInvParts DEF Besides, AllLearn
    <3>2. KickHolds(p, kick[p], W, known'[p])
      BY <1>3, <2>2, <3>1, IssueKick
    <3>3. QED
      BY <2>2, <3>2
  <2>3. QED
    BY <1>5, <2>1, <2>2 DEF KickSame
<1>6. ASSUME NEW p \in Peers PROVE BarHolds(p, barred'[p], W, known'[p])
  <2>1. CASE BarHolds(p, barred'[p], View', known'[p])
    BY <1>2, <2>1
  <2>2. CASE barred'[p] = barred[p] /\ (p \in h.members => p \in OwnCore.members \/ h.root = roots + 1)
    <3>1. /\ BarHolds(p, barred[p], V, known[p]) /\ Learns(p, V, W, known[p], known'[p])
          /\ known[p] \subseteq 0..V.roots
      BY <1>1, <1>2, RootInvParts DEF Besides, AllLearn
    <3>2. BarHolds(p, barred[p], W, known'[p])
      BY <1>3, <2>2, <3>1, IssueBar
    <3>3. QED
      BY <2>2, <3>2
  <2>3. QED
    BY <2>1, <2>2
<1>7. roots <= roots'
  <2>1. V.roots \in Nat /\ W.roots = roots'
    BY <1>2, <1>3, ViewMinted DEF View
  <2>2. QED
    BY <1>3, <2>1 DEF Issue, Follows
<1>8. QED
  BY <1>2, <1>4, <1>5, <1>6, <1>7, RootInvAfter

LEMMA AdmissionStep ==
    ASSUME RootInv, Besides, NEW r, NEW c, NEW q, NEW h, Admission(View, View', r, c, q, h),
           \A p \in Peers : /\ KickSame(p)
                            /\ (p = q /\ kick'[p] # NoKick) => c.next.root <= kick[p].roots,
           \A p \in Peers : \/ /\ barred'[p] = barred[p]
                               /\ p = q => c.next.root \in Offers(p, View, known[p])
                            \/ BarHolds(p, barred'[p], View', known'[p])
    PROVE  RootInv'
<1>1. PICK V : V = View
  OBVIOUS
<1>2. PICK W : W = View'
  OBVIOUS
<1>3. Admission(V, W, r, c, q, h) /\ ViewOK(V) /\ V.roots = roots
  BY <1>1, <1>2, RootInvParts
<1>4. ViewOK(W)
  BY <1>3, AdmissionOK
<1>5. ASSUME NEW p \in Peers, kick'[p] # NoKick PROVE KickHolds(p, kick'[p], W, known'[p])
  <2>1. kick'[p] = kick[p] /\ (p = q => c.next.root <= kick[p].roots)
    BY <1>5 DEF KickSame
  <2>2. KickHolds(p, kick[p], V, known[p]) /\ Learns(p, V, W, known[p], known'[p])
    BY <1>1, <1>2, <1>5, <2>1, RootInvParts DEF Besides, AllLearn
  <2>3. KickHolds(p, kick[p], W, known'[p])
    BY <1>3, <2>1, <2>2, AdmissionKick
  <2>4. QED
    BY <2>1, <2>3
<1>6. ASSUME NEW p \in Peers PROVE BarHolds(p, barred'[p], W, known'[p])
  <2>1. CASE BarHolds(p, barred'[p], View', known'[p])
    BY <1>2, <2>1
  <2>2. CASE barred'[p] = barred[p] /\ (p = q => c.next.root \in Offers(p, View, known[p]))
    <3>1. /\ BarHolds(p, barred[p], V, known[p]) /\ Learns(p, V, W, known[p], known'[p])
          /\ known[p] \subseteq 0..V.roots
          /\ p = q => c.next.root \in Offers(p, V, known[p])
      BY <1>1, <1>2, <2>2, RootInvParts DEF Besides, AllLearn
    <3>2. BarHolds(p, barred[p], W, known'[p])
      BY <1>3, <3>1, AdmissionBar
    <3>3. QED
      BY <2>2, <3>2
  <2>3. QED
    BY <2>1, <2>2
<1>7. roots <= roots'
  <2>1. V.roots \in Nat /\ W.roots = roots'
    BY <1>2, <1>3, ViewMinted DEF View
  <2>2. QED
    BY <1>3, <2>1 DEF Admission
<1>8. QED
  BY <1>2, <1>4, <1>5, <1>6, <1>7, RootInvAfter

Quiet(V, W, c, r, u, h) == Mint(V, W, c) \/ Fewer(V, W) \/ Update(V, W, r, u, h)

\* A link minted, an update stored, or less remembered: no one is kicked or admitted.
LEMMA QuietStep ==
    ASSUME RootInv, Besides, kick' = kick, barred' = barred,
           NEW c, NEW r, NEW u, NEW h, Quiet(View, View', c, r, u, h)
    PROVE  RootInv'
<1>1. PICK V : V = View
  OBVIOUS
<1>2. PICK W : W = View'
  OBVIOUS
<1>3. Quiet(V, W, c, r, u, h) /\ ViewOK(V) /\ V.roots = roots
  BY <1>1, <1>2, RootInvParts
<1>4. ViewOK(W)
  BY <1>3, MintOK, FewerOK, UpdateOK DEF Quiet
<1>5. ASSUME NEW p \in Peers, kick'[p] # NoKick PROVE KickHolds(p, kick'[p], W, known'[p])
  <2>1. KickHolds(p, kick[p], V, known[p]) /\ Learns(p, V, W, known[p], known'[p])
    BY <1>1, <1>2, <1>5, RootInvParts DEF Besides, AllLearn
  <2>2. KickHolds(p, kick[p], W, known'[p])
    BY <1>3, <2>1, MintKick, FewerKick, UpdateKick DEF Quiet
  <2>3. QED
    BY <2>2
<1>6. ASSUME NEW p \in Peers PROVE BarHolds(p, barred'[p], W, known'[p])
  <2>1. /\ BarHolds(p, barred[p], V, known[p]) /\ Learns(p, V, W, known[p], known'[p])
        /\ known[p] \subseteq 0..V.roots
    BY <1>1, <1>2, RootInvParts DEF Besides, AllLearn
  <2>2. BarHolds(p, barred[p], W, known'[p])
    BY <1>3, <2>1, MintBar, FewerBar, UpdateBar DEF Quiet
  <2>3. QED
    BY <2>2
<1>7. roots <= roots'
  <2>1. V.roots \in Nat /\ W.roots = roots'
    BY <1>2, <1>3, ViewMinted DEF View
  <2>2. QED
    BY <1>3, <2>1 DEF Quiet, Mint, Fewer, Update
<1>8. QED
  BY <1>2, <1>4, <1>5, <1>6, <1>7, RootInvAfter

----------------------------------------------------------------------------
(* What the actions do to the view.                                         *)

LEMMA CoresHave ==
    /\ \A x \in Clients : rec[x] # NoRec => Core(rec[x]) \in Cores
    /\ \A q \in Peers : (reply[q] # NoReply /\ reply[q].ok) => Core(reply[q].record) \in Cores
BY DEF Cores, Records, Holds

LEMMA CoresMove ==
    ASSUME NEW h,
           \A x \in Clients : \/ rec'[x] = rec[x] \/ rec'[x] = NoRec
                              \/ Core(rec'[x]) \in Cores \cup {h},
           \A q \in Peers : \/ reply'[q] = reply[q] \/ reply'[q] = NoReply
                            \/ ~reply'[q].ok
                            \/ Core(reply'[q].record) \in Cores \cup {h}
    PROVE  Cores' \subseteq Cores \cup {h}
<1>1. ASSUME NEW x \in Clients, rec'[x] # NoRec PROVE Core(rec'[x]) \in Cores \cup {h}
  <2>1. CASE rec'[x] = rec[x]
    BY <1>1, <2>1, CoresHave
  <2>2. QED
    BY <1>1, <2>1
<1>2. ASSUME NEW q \in Peers, reply'[q] # NoReply, reply'[q].ok
      PROVE  Core(reply'[q].record) \in Cores \cup {h}
  <2>1. CASE reply'[q] = reply[q]
    BY <1>2, <2>1, CoresHave
  <2>2. QED
    BY <1>2, <2>1
<1> DEFINE S == Cores \cup {h}
<1> HIDE DEF S
<1>3. \A r \in Records' : Core(r) \in S
  BY <1>1, <1>2 DEF Records, Holds, S
<1>4. Cores' \subseteq S
  BY <1>3 DEF Cores
<1>5. QED
  BY <1>4 DEF S

LEMMA OwnCoreStored == SInv' => OwnCore' \in Cores'
BY DEF SInv, RecsOK, OwnCore, Cores, Records, Holds, Clients

LEMMA CoreTyped ==
    ASSUME NEW r \in RecType
    PROVE  /\ Core(r) \in CoreType /\ Core(r).rev = r.rev /\ Core(r).epoch = r.epoch
           /\ Core(r).root = r.root /\ Core(r).members = r.members
BY DEF Core, CoreType, RecType

LEMMA KnownSame == known' = known => AllLearn
BY DEF AllLearn, Learns

\* The core of what is stored at x, an answer or an update.
LEMMA StoredTyped ==
    ASSUME SInv
    PROVE  /\ \A x \in Clients : rec[x] # NoRec => rec[x] \in RecType /\ rec[x].cap \in caps \cup {NoCap}
           /\ \A p \in Peers : (reply[p] # NoReply /\ reply[p].ok) => reply[p].record \in RecType
           /\ updates \subseteq RecType /\ caps \subseteq CapType
           /\ rec[Owner] \in RecType /\ rec[Owner] # NoRec /\ Owner \in Clients
           /\ rec \in [Clients -> RecType \cup {NoRec}]
BY DEF SInv, RecsOK, BaseOK, RepliesOK, Good, Clients

\* The owner's record is sent as it is stored.
LEMMA BroadcastIssues ==
    ASSUME RootInv, SInv', NEW record \in RecType, Broadcast(record), record.rev = Own.rev,
           \/ record.epoch = Own.epoch /\ record.root = Own.root
           \/ record.epoch = Own.epoch + 1 /\ record.root = roots + 1,
           caps' = caps, admits' = admits,
           \A q \in Peers : \/ reply'[q] = reply[q] \/ ~reply'[q].ok
                            \/ Core(reply'[q].record) = Core(Issued(record))
    PROVE  /\ Issue(View, View', Core(Issued(record)))
           /\ Core(Issued(record)).members = record.members
           /\ Core(Issued(record)).root = record.root
           /\ rec'[Owner] = Issued(record) /\ \A x \in Clients \ {Owner} : rec'[x] = rec[x]
<1> DEFINE i == Issued(record)
           h == Core(i)
<1>1. SInv /\ roots \in Nat /\ Own \in RecType /\ OwnCore.root \in 0..roots /\ MaxRoots \in Nat
  <2>1. PICK V : V = View
    OBVIOUS
  <2>2. V.own \in V.cores /\ V.cores = Cores /\ V.own = OwnCore /\ V.roots = roots /\ ViewOK(V)
    BY <2>1, RootInvParts DEF ViewOK, LinkOK
  <2>3. V.own.root \in 0..V.roots /\ V.roots \in Nat
    BY <2>2, ViewMinted
  <2>4. QED
    BY <2>2, <2>3, StoredTyped, MaxRootsIsNat DEF RootInv, Own
<1>2. /\ i \in RecType /\ i.rev = record.rev + 1 /\ i.epoch = record.epoch
      /\ i.root = record.root /\ i.members = record.members
  <2>1. i \in RecType
    BY <1>1, ChangesTyped
  <2>2. QED
    BY <2>1 DEF Issued, RecType
<1>3. Core(Stripped(i)) = Core(i)
  BY <1>2 DEF Core, Stripped, RecType
<1>4. rec' = [rec EXCEPT ![Owner] = i] /\ updates' = updates \cup {Stripped(i)}
      /\ roots' = (IF record.root > roots THEN record.root ELSE roots) /\ roots' <= MaxRoots
  BY DEF Broadcast
<1> HIDE DEF i
<1>5. rec'[Owner] = i /\ \A x \in Clients \ {Owner} : rec'[x] = rec[x]
  BY <1>1, <1>4, StoredTyped
<1>6. /\ h \in CoreType /\ h.rev = record.rev + 1 /\ h.epoch = record.epoch
      /\ h.root = record.root /\ h.members = record.members
  BY <1>2, CoreTyped
<1>7. OwnCore' = h /\ OwnCore' \in Cores'
  BY <1>5, OwnCoreStored DEF OwnCore
<1>8. Sent' = Sent \cup {h}
  BY <1>3, <1>4 DEF Sent
<1>9. Cores' \subseteq Cores \cup {h}
  <2>1. \A x \in Clients : rec'[x] = rec[x] \/ Core(rec'[x]) = h
    BY <1>5
  <2>2. \A q \in Peers : reply'[q] = reply[q] \/ ~reply'[q].ok \/ Core(reply'[q].record) = h
    BY DEF i
  <2> HIDE DEF h
  <2>3. QED
    BY <2>1, <2>2, CoresMove
<1>10. /\ OwnCore.rev = Own.rev /\ OwnCore.epoch = Own.epoch /\ OwnCore.root = Own.root
       /\ Own.root \in 0..roots
  BY <1>1, CoreTyped DEF OwnCore, Own
<1> HIDE DEF h
<1>11. Follows(OwnCore, h, roots, roots')
  <2>1. CASE record.epoch = Own.epoch /\ record.root = Own.root
    <3>1. roots' = roots
      BY <1>1, <1>4, <1>10, <2>1
    <3>2. QED
      BY <1>6, <1>10, <2>1, <3>1 DEF Follows
  <2>2. CASE record.epoch = Own.epoch + 1 /\ record.root = roots + 1
    <3>1. roots' = roots + 1
      BY <1>1, <1>4, <2>2
    <3>2. QED
      BY <1>4, <1>6, <1>10, <2>2, <3>1 DEF Follows
  <2>3. QED
    BY <2>1, <2>2
<1>12. Issue(View, View', h)
  BY <1>7, <1>8, <1>9, <1>11 DEF Issue, View
<1>13. QED
  BY <1>5, <1>6, <1>12 DEF h, i

\* What the owner's changes make of the fields a core has.
SameCore(a, b) == a.rev = b.rev /\ a.epoch = b.epoch /\ a.root = b.root /\ a.members = b.members

LEMMA ChangesCore ==
    ASSUME NEW r \in RecType, roots \in Nat
    PROVE  /\ Rotated(r).rev = r.rev /\ Rotated(r).epoch = r.epoch + 1
           /\ Rotated(r).root = roots + 1 /\ Rotated(r).members = r.members
           /\ SameCore(InvitesClosed(r), r)
<1>1. /\ Rotated(r).rev = r.rev /\ Rotated(r).epoch = r.epoch + 1
      /\ Rotated(r).root = roots + 1 /\ Rotated(r).members = r.members
  BY DEF Rotated, RecType
<1>2. SameCore(InvitesClosed(r), r)
  BY DEF InvitesClosed, RecType, SameCore
<1>3. QED
  BY <1>1, <1>2

----------------------------------------------------------------------------
(* One lemma per action.                                                    *)

LEMMA OwnFacts ==
    ASSUME RootInv
    PROVE  /\ SInv /\ Own \in RecType /\ roots \in Nat /\ Own.members \subseteq Clients
           /\ OwnCore.members = Own.members /\ OwnCore.rev = Own.rev
<1>1. SInv
  BY DEF RootInv
<1>2. Own \in RecType /\ roots \in Nat
  BY <1>1, StoredTyped DEF Own, SInv, BaseOK
<1>3. QED
  BY <1>1, <1>2, CoreTyped DEF OwnCore, Own, RecType

\* No kicked peer is in the owner's record.
LEMMA KickedOutOfOwn ==
    ASSUME RootInv
    PROVE  \A p \in Peers : kick[p] # NoKick => p \notin Own.members
<1> SUFFICES ASSUME NEW p \in Peers, kick[p] # NoKick PROVE p \notin Own.members
  OBVIOUS
<1>1. PICK V : V = View
  OBVIOUS
<1>2. ViewOK(V) /\ KickHolds(p, kick[p], V, known[p]) /\ V.own = OwnCore
  BY <1>1, RootInvParts
<1>3. p \notin V.own.members
  BY <1>2, KickedIsOut
<1>4. QED
  BY <1>2, <1>3, OwnFacts

\* A change of the owner's that admits nobody.
LEMMA OwnerStep ==
    ASSUME RootInv, SInv', NEW record \in RecType, Broadcast(record), record.rev = Own.rev,
           \/ record.epoch = Own.epoch /\ record.root = Own.root
           \/ record.epoch = Own.epoch + 1 /\ record.root = roots + 1,
           record.members \subseteq Own.members,
           UNCHANGED <<caps, admits, reply, known, barred, kick>>
    PROVE  RootInv'
<1> DEFINE h == Core(Issued(record))
<1>1. /\ Issue(View, View', h) /\ h.members = record.members
      /\ \A x \in Clients \ {Owner} : rec'[x] = rec[x]
  BY BroadcastIssues
<1>2. \A p \in Peers : p \in Clients \ {Owner}
  BY OwnerIsNoPeer DEF Clients
<1>3. Besides
  <2>1. AllLearn
    BY KnownSame
  <2>2. SelfListed'
    BY <1>1, <1>2 DEF RootInv, SelfListed, Holds
  <2>3. Shapes'
    BY DEF RootInv, Shapes
  <2>4. QED
    BY <2>1, <2>2, <2>3 DEF Besides
<1> HIDE DEF h
<1>4. \A p \in Peers : KickSame(p) /\ (kick'[p] # NoKick => p \notin h.members)
  BY <1>1, KickedOutOfOwn DEF KickSame
<1>5. \A p \in Peers : barred'[p] = barred[p] /\ (p \in h.members => p \in OwnCore.members)
  BY <1>1, OwnFacts
<1>6. QED
  BY <1>1, <1>3, <1>4, <1>5, IssueStep

LEMMA CloseRoots == ASSUME RootInv, SInv', NEW kept, CloseInvites(kept) PROVE RootInv'
<1>1. Own \in RecType /\ roots \in Nat
  BY OwnFacts
<1>2. InvitesClosed(Own) \in RecType /\ SameCore(InvitesClosed(Own), Own)
  BY <1>1, ChangesTyped, ChangesCore
<1>3. QED
  BY <1>2, OwnerStep DEF CloseInvites, SameCore

LEMMA EditRoots == ASSUME RootInv, SInv', NEW moved \in 0..1, Edit(moved) PROVE RootInv'
<1>1. Own \in RecType /\ roots \in Nat
  BY OwnFacts
<1> DEFINE t == Own.stamp + moved
           r == [Own EXCEPT !.stamp = t]
<1>2. t \in Int
  BY <1>1 DEF RecType
<1>3. Broadcast(r) /\ UNCHANGED <<caps, admits, reply, known, barred, kick>>
  BY DEF Edit
<1> HIDE DEF t
<1>4. r \in RecType /\ SameCore(r, Own)
  BY <1>1, <1>2 DEF RecType, SameCore
<1> HIDE DEF r
<1>5. QED
  BY <1>3, <1>4, OwnerStep DEF SameCore

\* A change of the members under a new root.
LEMMA RotatedCore ==
    ASSUME RootInv, NEW ms \in SUBSET Clients
    PROVE  /\ Rotated([Own EXCEPT !.members = ms]) \in RecType
           /\ Rotated([Own EXCEPT !.members = ms]).rev = Own.rev
           /\ Rotated([Own EXCEPT !.members = ms]).epoch = Own.epoch + 1
           /\ Rotated([Own EXCEPT !.members = ms]).root = roots + 1
           /\ Rotated([Own EXCEPT !.members = ms]).members = ms
<1>1. Own \in RecType /\ roots \in Nat
  BY OwnFacts
<1> DEFINE r == [Own EXCEPT !.members = ms]
<1>2. r \in RecType /\ r.rev = Own.rev /\ r.epoch = Own.epoch /\ r.members = ms
  BY <1>1 DEF RecType
<1> HIDE DEF r
<1>3. /\ Rotated(r) \in RecType /\ Rotated(r).rev = r.rev /\ Rotated(r).epoch = r.epoch + 1
      /\ Rotated(r).root = roots + 1 /\ Rotated(r).members = r.members
  BY <1>1, <1>2, ChangesTyped, ChangesCore
<1>4. QED
  BY <1>2, <1>3 DEF r

\* Nothing but the bookkeeping of what is under way changed.
LEMMA FewerStep ==
    ASSUME RootInv, SInv', SelfListed', AllLearn, Shapes',
           UNCHANGED <<updates, caps, roots, admits, barred, kick>>,
           Core(rec'[Owner]) = Core(rec[Owner]), Cores' \subseteq Cores
    PROVE  RootInv'
<1>1. OwnCore' = OwnCore /\ OwnCore' \in Cores' /\ Sent' = Sent
  BY OwnCoreStored DEF OwnCore, Sent
<1>2. Fewer(View, View')
  BY <1>1 DEF Fewer, View
<1>3. Besides
  BY DEF Besides
<1>4. QED
  BY <1>2, <1>3, QuietStep DEF Quiet

LEMMA TakeLeaveRoots == ASSUME RootInv, SInv', NEW p \in Peers, TakeLeave(p) PROVE RootInv'
<1> DEFINE ms == Own.members \ {p}
<1>1. ms \in SUBSET Clients /\ ms \subseteq Own.members
  BY OwnFacts
<1>2. UNCHANGED <<caps, admits, reply, known, barred, kick>>
  BY DEF TakeLeave
<1>3. CASE p \in Own.members
  <2>1. Broadcast(Rotated([Own EXCEPT !.members = ms]))
    BY <1>3 DEF TakeLeave
  <2> HIDE DEF ms
  <2>2. QED
    BY <1>1, <1>2, <2>1, RotatedCore, OwnerStep
<1>4. CASE p \notin Own.members
  <2>1. rec' = rec /\ updates' = updates /\ roots' = roots
    BY <1>4 DEF TakeLeave
  <2>2. SelfListed' /\ Shapes' /\ AllLearn
    BY <1>2, <2>1, KnownSame DEF RootInv, SelfListed, Shapes, Holds
  <2>3. Cores' \subseteq Cores
    BY <1>2, <2>1 DEF Cores, Records, Holds
  <2>4. QED
    BY <1>2, <2>1, <2>2, <2>3, FewerStep
<1>5. QED
  BY <1>3, <1>4

LEMMA KickRoots == ASSUME RootInv, SInv', NEW p \in Peers, Kick(p) PROVE RootInv'
<1> DEFINE ms == Own.members \ {p}
           r == [Own EXCEPT !.members = ms]
           record == Kicked(p)
           h == Core(Issued(record))
           K == [rev |-> Own.rev + 1, roots |-> roots]
<1>1. /\ SInv /\ Own \in RecType /\ roots \in Nat /\ ms \in SUBSET Clients
      /\ OwnCore.members = Own.members /\ OwnCore.rev = Own.rev
  BY OwnFacts
<1>2. r \in RecType /\ r.rev = Own.rev /\ r.epoch = Own.epoch /\ r.members = ms
  BY <1>1 DEF RecType
<1>3. record = Rotated(InvitesClosed(r))
  BY DEF Kicked
<1> HIDE DEF r
<1>4. InvitesClosed(r) \in RecType /\ SameCore(InvitesClosed(r), r)
  BY <1>1, <1>2, ChangesTyped, ChangesCore
<1>5. /\ record \in RecType /\ record.rev = Own.rev /\ record.epoch = Own.epoch + 1
      /\ record.root = roots + 1 /\ record.members = ms
  <2> DEFINE i == InvitesClosed(r)
  <2>1. i \in RecType /\ i.rev = Own.rev /\ i.epoch = Own.epoch /\ i.members = ms
    BY <1>2, <1>4 DEF SameCore
  <2> HIDE DEF i, record
  <2>2. /\ Rotated(i) \in RecType /\ Rotated(i).rev = i.rev /\ Rotated(i).epoch = i.epoch + 1
        /\ Rotated(i).root = roots + 1 /\ Rotated(i).members = i.members
    BY <1>1, <2>1, ChangesTyped, ChangesCore
  <2>3. record = Rotated(i)
    BY <1>3 DEF i
  <2>4. QED
    BY <2>1, <2>2, <2>3
<1>6. /\ Broadcast(record) /\ kick' = [kick EXCEPT ![p] = K]
      /\ UNCHANGED <<caps, admits, reply, known, barred>>
  BY DEF Kick
<1> HIDE DEF record
<1>7. /\ Issue(View, View', h) /\ h.members = record.members /\ h.root = record.root
      /\ \A x \in Clients \ {Owner} : rec'[x] = rec[x]
  BY <1>5, <1>6, BroadcastIssues
<1>8. \A q \in Peers : q \in Clients \ {Owner}
  BY OwnerIsNoPeer DEF Clients
<1>9. kick = [q \in Peers |-> kick[q]]
  BY DEF RootInv, Shapes
<1> HIDE DEF K
<1>10. kick'[p] = K /\ kick' = [q \in Peers |-> kick'[q]] /\ \A q \in Peers \ {p} : kick'[q] = kick[q]
  BY <1>6, <1>9
<1>11. Besides
  <2>1. AllLearn
    BY <1>6, KnownSame
  <2>2. SelfListed'
    BY <1>6, <1>7, <1>8 DEF RootInv, SelfListed, Holds
  <2>3. Shapes'
    BY <1>6, <1>10 DEF RootInv, Shapes
  <2>4. QED
    BY <2>1, <2>2, <2>3 DEF Besides
<1> HIDE DEF h
<1>12. ASSUME NEW q \in Peers
       PROVE  \/ KickSame(q) /\ (kick'[q] # NoKick => q \notin h.members)
              \/ KickHolds(q, kick'[q], View', known'[q])
  <2>1. CASE q # p
    BY <1>5, <1>7, <1>10, <2>1, KickedOutOfOwn DEF KickSame
  <2>2. CASE q = p
    <3>1. PICK V : V = View
      OBVIOUS
    <3>2. PICK W : W = View'
      OBVIOUS
    <3>3. /\ ViewOK(V) /\ V.roots = roots /\ V.own.rev = Own.rev /\ Issue(V, W, h)
          /\ h.root = V.roots + 1 /\ p \notin h.members /\ known'[p] \subseteq 0..V.roots
      BY <1>1, <1>5, <1>6, <1>7, <3>1, <3>2, RootInvParts
    <3>4. K = [rev |-> V.own.rev + 1, roots |-> V.roots]
      BY <3>3 DEF K
    <3>5. KickHolds(p, K, W, known'[p])
      BY <3>3, <3>4, KickBegins
    <3>6. QED
      BY <1>10, <2>2, <3>2, <3>5
  <2>3. QED
    BY <2>1, <2>2
<1>13. \A q \in Peers : barred'[q] = barred[q] /\ (q \in h.members => q \in OwnCore.members)
  BY <1>1, <1>5, <1>6, <1>7
<1>14. QED
  BY <1>7, <1>11, <1>12, <1>13, IssueStep

LEMMA MintRoots == ASSUME RootInv, SInv', MintInvite PROVE RootInv'
<1> DEFINE signed == IF Verifies(Own) THEN Own ELSE [Own EXCEPT !.proof = RecordProof(Own)]
           c == Capability(signed)
           h == [signed EXCEPT !.cap = c]
<1>1. SInv /\ Own \in RecType /\ roots \in Nat
  BY OwnFacts
<1>2. /\ rec' = [rec EXCEPT ![Owner] = h] /\ caps' = caps \cup {c} /\ roots' = roots + 1
      /\ roots < MaxRoots
      /\ UNCHANGED <<updates, admits, reply, known, barred, kick>>
  BY DEF MintInvite
<1>3. signed \in RecType /\ SameCore(signed, Own)
  <2>1. RecordProof(Own) \in ProofType
    BY <1>1, StructTyped DEF RecordProof, ProofType
  <2>2. QED
    BY <1>1, <2>1 DEF RecType, SameCore
<1> HIDE DEF signed
<1>4. c \in CapType /\ Mints(OwnCore, c, roots)
  <2>1. c \in CapType
    BY <1>1, <1>3, CapabilityTyped
  <2>2. /\ c.base = signed.root /\ c.next.rev = signed.rev + 1
        /\ c.next.epoch = signed.epoch + 1 /\ c.next.root = roots + 1
    BY DEF Capability
  <2>3. OwnCore.root = Own.root /\ OwnCore.rev = Own.rev /\ OwnCore.epoch = Own.epoch
    BY <1>1, CoreTyped DEF OwnCore, Own
  <2>4. roots + 1 <= MaxRoots
    BY <1>1, <1>2, MaxRootsIsNat
  <2> HIDE DEF c
  <2>5. QED
    BY <1>3, <2>1, <2>2, <2>3, <2>4 DEF Mints, SameCore
<1>5. Core(h) = OwnCore
  BY <1>1, <1>3 DEF Core, OwnCore, Own, SameCore, RecType
<1> HIDE DEF h, c
<1>6. rec'[Owner] = h /\ \A x \in Clients \ {Owner} : rec'[x] = rec[x]
  BY <1>1, <1>2, StoredTyped
<1>7. Cores' \subseteq Cores
  <2>1. OwnCore \in Cores
    BY <1>1, CoresHave, StoredTyped DEF OwnCore
  <2>2. \A x \in Clients : rec'[x] = rec[x] \/ Core(rec'[x]) \in Cores \cup {OwnCore}
    BY <1>5, <1>6
  <2>3. \A q \in Peers : reply'[q] = reply[q]
    BY <1>2
  <2>4. Cores' \subseteq Cores \cup {OwnCore}
    BY <2>2, <2>3, CoresMove
  <2>5. QED
    BY <2>1, <2>4
<1>8. OwnCore' = OwnCore /\ OwnCore' \in Cores' /\ Sent' = Sent
  BY <1>2, <1>5, <1>6, OwnCoreStored DEF OwnCore, Sent
<1>9. Mint(View, View', c)
  BY <1>2, <1>4, <1>7, <1>8 DEF Mint, View
<1>10. Besides
  <2>1. \A p \in Peers : p \in Clients \ {Owner}
    BY OwnerIsNoPeer DEF Clients
  <2>2. SelfListed'
    BY <1>2, <1>6, <2>1 DEF RootInv, SelfListed, Holds
  <2>3. AllLearn /\ Shapes'
    BY <1>2, KnownSame DEF RootInv, Shapes
  <2>4. QED
    BY <2>2, <2>3 DEF Besides
<1>11. QED
  BY <1>2, <1>9, <1>10, QuietStep DEF Quiet

\* A record forgotten, or an answer stored or dropped.
LEMMA PeerRecordFewer ==
    ASSUME RootInv, SInv', NEW p \in Peers,
           \/ rec' = rec
           \/ rec' = [rec EXCEPT ![p] = NoRec]
           \/ /\ reply[p] # NoReply /\ reply[p].ok
              /\ rec' = [rec EXCEPT ![p] = reply[p].record],
           reply' = reply \/ reply' = [reply EXCEPT ![p] = NoReply]
    PROVE  SelfListed' /\ Core(rec'[Owner]) = Core(rec[Owner]) /\ Cores' \subseteq Cores
<1>1. /\ rec \in [Clients -> RecType \cup {NoRec}] /\ p \in Clients /\ p # Owner /\ Owner \in Clients
      /\ reply = [q \in Peers |-> reply[q]] /\ SInv
  BY StoredTyped, OwnerIsNoPeer DEF RootInv, SInv, RepliesOK, Clients
<1>2. \A x \in Clients \ {p} : rec'[x] = rec[x]
  BY <1>1
<1>3. \/ rec'[p] = rec[p]
      \/ rec'[p] = NoRec
      \/ reply[p] # NoReply /\ reply[p].ok /\ rec'[p] = reply[p].record
  BY <1>1
<1>4. \A q \in Peers : reply'[q] = reply[q] \/ reply'[q] = NoReply
  BY <1>1
<1>5. SelfListed'
  BY <1>2, <1>3, <1>4 DEF RootInv, SelfListed, Holds, Clients
<1>6. Cores' \subseteq Cores
  <2> DEFINE h == Core(rec[Owner])
  <2>1. h \in Cores
    BY <1>1, CoresHave, StoredTyped
  <2>2. \A x \in Clients : rec'[x] = rec[x] \/ rec'[x] = NoRec \/ Core(rec'[x]) \in Cores \cup {h}
    BY <1>2, <1>3, CoresHave
  <2> HIDE DEF h
  <2>3. Cores' \subseteq Cores \cup {h}
    BY <1>4, <2>2, CoresMove
  <2>4. QED
    BY <2>1, <2>3
<1>7. QED
  BY <1>1, <1>2, <1>5, <1>6

LEMMA ForgetRoots == ASSUME RootInv, SInv', NEW p \in Peers, Leave(p) \/ TakeRemove(p) PROVE RootInv'
<1>1. /\ rec' = [rec EXCEPT ![p] = NoRec]
      /\ UNCHANGED <<updates, caps, roots, admits, reply, known, barred, kick>>
  BY DEF Leave, TakeRemove
<1>2. SelfListed' /\ Core(rec'[Owner]) = Core(rec[Owner]) /\ Cores' \subseteq Cores
  BY <1>1, PeerRecordFewer
<1>3. AllLearn /\ Shapes'
  BY <1>1, KnownSame DEF RootInv, Shapes
<1>4. QED
  BY <1>1, <1>2, <1>3, FewerStep

LEMMA AnswerRoots == ASSUME RootInv, SInv', NEW p \in Peers, TakeReply(p) \/ LoseReply(p) PROVE RootInv'
<1>1. /\ reply[p] # NoReply /\ reply' = [reply EXCEPT ![p] = NoReply]
      /\ UNCHANGED <<updates, caps, roots, admits, barred, kick>>
  BY DEF TakeReply, LoseReply
<1>2. \/ rec' = rec
      \/ rec' = [rec EXCEPT ![p] = NoRec]
      \/ reply[p].ok /\ rec' = [rec EXCEPT ![p] = reply[p].record]
  BY DEF TakeReply, LoseReply
<1>3. SelfListed' /\ Core(rec'[Owner]) = Core(rec[Owner]) /\ Cores' \subseteq Cores
  BY <1>1, <1>2, PeerRecordFewer
<1>4. known = [q \in Peers |-> known[q]]
  BY DEF RootInv, Shapes
<1>5. \/ known' = known
      \/ reply[p].ok /\ known' = [known EXCEPT ![p] = @ \cup {reply[p].record.root}]
  BY DEF TakeReply, LoseReply
<1>6. Shapes'
  BY <1>1, <1>4, <1>5 DEF RootInv, Shapes
<1>7. AllLearn
  <2>1. CASE known' = known
    BY <2>1, KnownSame
  <2>2. CASE reply[p].ok /\ known' = [known EXCEPT ![p] = @ \cup {reply[p].record.root}]
    <3> DEFINE k == Core(reply[p].record)
    <3>1. k \in Cores /\ k.root = reply[p].record.root /\ p \in k.members
      BY <1>1, <2>2, CoresHave DEF RootInv, SelfListed, Core
    <3>2. known'[p] = known[p] \cup {k.root} /\ \A q \in Peers \ {p} : known'[q] = known[q]
      BY <1>4, <2>2, <3>1
    <3> HIDE DEF k
    <3>3. k.root \in ListedRoots(p, View.cores \cup (View').cores \cup View.sent)
      BY <3>1 DEF ListedRoots, View
    <3>4. QED
      BY <3>2, <3>3 DEF AllLearn, Learns
  <2>3. QED
    BY <1>5, <2>1, <2>2
<1>8. QED
  BY <1>1, <1>3, <1>6, <1>7, FewerStep

LEMMA UpdatedCore ==
    ASSUME NEW r \in RecType, NEW u \in RecType, u.rev > r.rev
    PROVE  Updated(r, u) \in RecType /\ Updates(Core(r), Core(u), Core(Updated(r, u)))
<1> DEFINE s == Updated(r, u)
<1>0. r.epoch \in Nat /\ u.epoch \in Nat
  BY DEF RecType
<1>1. s \in RecType /\ s.rev = u.rev /\ s.members = u.members
  BY DEF Updated, RecType
<1>2. CASE u.epoch >= r.epoch
  <2>1. s.epoch = u.epoch /\ s.root = u.root
    BY <1>2 DEF Updated, RecType
  <2> HIDE DEF s
  <2>2. Updates(Core(r), Core(u), Core(s))
    BY <1>1, <1>2, <2>1, CoreTyped DEF Updates
  <2>3. QED
    BY <1>1, <2>2 DEF s
<1>3. CASE u.epoch < r.epoch
  <2>1. s.epoch = r.epoch /\ s.root = r.root
    BY <1>0, <1>3 DEF Updated, RecType
  <2> HIDE DEF s
  <2>2. Updates(Core(r), Core(u), Core(s))
    BY <1>1, <1>3, <2>1, CoreTyped DEF Updates
  <2>3. QED
    BY <1>1, <2>2 DEF s
<1>4. QED
  BY <1>0, <1>2, <1>3

LEMMA UpdateRoots ==
    ASSUME RootInv, SInv', NEW q \in Peers, NEW u \in updates, ReceiveUpdate(q, u)
    PROVE  RootInv'
<1>1. /\ UNCHANGED <<updates, caps, roots, admits, reply, barred, kick>>
      /\ rec[q] # NoRec /\ q \in u.members
  BY DEF ReceiveUpdate, Holds
<1>2. CASE ~Applies(rec[q], u)
  <2>1. rec' = rec /\ known' = known
    BY <1>2 DEF ReceiveUpdate
  <2>2. SelfListed' /\ Core(rec'[Owner]) = Core(rec[Owner]) /\ Cores' \subseteq Cores
    BY <1>1, <2>1, PeerRecordFewer
  <2>3. AllLearn /\ Shapes'
    BY <1>1, <2>1, KnownSame DEF RootInv, Shapes
  <2>4. QED
    BY <1>1, <2>2, <2>3, FewerStep
<1>3. CASE Applies(rec[q], u)
  <2> DEFINE s == Updated(rec[q], u)
             r == Core(rec[q])
             v == Core(u)
             h == Core(s)
  <2>1. rec' = [rec EXCEPT ![q] = s] /\ known' = [known EXCEPT ![q] = @ \cup {u.root}]
    BY <1>3 DEF ReceiveUpdate
  <2>2. /\ SInv /\ q \in Clients /\ q # Owner /\ Owner \in Clients
        /\ rec \in [Clients -> RecType \cup {NoRec}] /\ rec[q] \in RecType /\ u \in RecType
    BY <1>1, StoredTyped, OwnerIsNoPeer DEF RootInv, Clients
  <2>3. u.rev > rec[q].rev
    BY <1>3 DEF Applies
  <2>4. s \in RecType /\ Updates(r, v, h) /\ s.members = u.members
    <3>1. s.members = u.members
      BY <2>2 DEF Updated, RecType
    <3>2. QED
      BY <2>2, <2>3, <3>1, UpdatedCore
  <2> HIDE DEF s
  <2>5. Updates(r, v, h)
    BY <2>4
  <2>6. rec'[q] = s /\ \A x \in Clients \ {q} : rec'[x] = rec[x]
    BY <2>1, <2>2
  <2>7. r \in Cores /\ v \in Sent
    BY <1>1, <2>2, CoresHave DEF Sent
  <2>8. OwnCore' = OwnCore /\ OwnCore' \in Cores' /\ Sent' = Sent
    BY <1>1, <2>2, <2>6, OwnCoreStored DEF OwnCore, Sent
  <2>9. Cores' \subseteq Cores \cup {h}
    <3>1. \A x \in Clients : rec'[x] = rec[x] \/ Core(rec'[x]) = h
      BY <2>6
    <3>2. \A x \in Peers : reply'[x] = reply[x]
      BY <1>1
    <3> HIDE DEF h
    <3>3. QED
      BY <3>1, <3>2, CoresMove
  <2>10. v.members = u.members /\ v.root = u.root
    BY <2>2, CoreTyped
  <2> HIDE DEF r, v, h
  <2>11. Update(View, View', r, v, h)
    BY <1>1, <2>5, <2>7, <2>8, <2>9 DEF Update, View
  <2>12. known = [p \in Peers |-> known[p]]
    BY DEF RootInv, Shapes
  <2>13. AllLearn
    <3>1. known'[q] = known[q] \cup {v.root} /\ \A p \in Peers \ {q} : known'[p] = known[p]
      BY <2>1, <2>10, <2>12
    <3>2. v.root \in ListedRoots(q, View.cores \cup (View').cores \cup View.sent)
      BY <1>1, <2>7, <2>10 DEF ListedRoots, View
    <3>3. QED
      BY <3>1, <3>2 DEF AllLearn, Learns
  <2>14. SelfListed'
    BY <1>1, <2>4, <2>6 DEF RootInv, SelfListed, Holds, Clients
  <2>15. Shapes'
    BY <1>1, <2>1, <2>12 DEF RootInv, Shapes
  <2>16. Besides
    BY <2>13, <2>14, <2>15 DEF Besides
  <2>17. QED
    BY <1>1, <2>11, <2>16, QuietStep DEF Quiet
<1>4. QED
  BY <1>2, <1>3

\* What enacting a capability makes of a record, as a core.
LEMMA AdmittedCore ==
    ASSUME NEW r \in RecType, NEW c \in CapType, Resolves(r, c), NEW p \in Clients
    PROVE  Admitted(r, c, p) \in RecType /\ Enacts(Core(r), c, p, Core(Admitted(r, c, p)))
<1> DEFINE s == Authorized(r, c)
           w == With(r, s)
           h == Admitted(r, c, p)
<1>0. c.next \in StructType
  BY DEF CapType
<1>1. s \in StructType
  BY <1>0, StructTyped DEF Authorized
<1>2. \/ /\ c.base = r.root /\ c.next.rev = r.rev + 1 /\ c.next.epoch = r.epoch + 1
         /\ s = c.next
      \/ /\ c.next.root = r.root /\ c.next.epoch = r.epoch
         /\ s.rev = r.rev /\ s.epoch = r.epoch /\ s.root = r.root
  <2>1. CASE c.gen = r.gen
    BY <2>1 DEF Resolves, OpensTransition, Authorized
  <2>2. CASE c.gen # r.gen
    <3>1. IsTransitionRecord(r, c)
      BY <2>2 DEF Resolves
    <3>2. Struct(r) = c.next
      BY <3>1 DEF IsTransitionRecord, Verifies, TransitionProof
    <3>3. s = Struct(r)
      BY <2>2 DEF Authorized
    <3>4. Struct(r).rev = r.rev /\ Struct(r).epoch = r.epoch /\ Struct(r).root = r.root
      BY DEF Struct
    <3> HIDE DEF s
    <3>5. QED
      BY <3>2, <3>3, <3>4
  <2>3. QED
    BY <2>1, <2>2
<1> HIDE DEF s
<1>4. /\ w \in RecType /\ w.rev = s.rev /\ w.members = r.members
      /\ w.epoch = s.epoch /\ w.root = s.root
  BY <1>1 DEF With, RecType, StructType
<1>5. TransitionProof(c) \in ProofType
  BY <1>0 DEF TransitionProof, ProofType
<1>6. h = [w EXCEPT !.members = @ \cup {p},
                    !.proof = IF c.gen = r.gen THEN TransitionProof(c) ELSE @]
  BY DEF Admitted, s
<1> HIDE DEF w, h
<1>7. /\ h \in RecType /\ h.rev = w.rev /\ h.members = w.members \cup {p}
      /\ h.epoch = w.epoch /\ h.root = w.root
  BY <1>4, <1>5, <1>6 DEF RecType
<1> DEFINE a == Core(r)
           b == Core(h)
<1>8. /\ b \in CoreType /\ b.rev = s.rev /\ b.members = r.members \cup {p}
      /\ b.epoch = s.epoch /\ b.root = s.root
  BY <1>4, <1>7, CoreTyped
<1>9. a.rev = r.rev /\ a.epoch = r.epoch /\ a.root = r.root /\ a.members = r.members
  BY CoreTyped
<1> HIDE DEF a, b
<1>10. Enacts(a, c, p, b)
  BY <1>2, <1>8, <1>9 DEF Enacts
<1>11. QED
  BY <1>7, <1>10 DEF a, b, h

\* x enacts c for p, and perhaps answers with its record.
LEMMA EnactView ==
    ASSUME RootInv, SInv', NEW x \in Clients, rec[x] # NoRec, NEW p \in Clients, NEW c \in caps,
           Resolves(rec[x], c), Enact(x, p, c), UNCHANGED <<updates, caps, roots>>,
           \A q \in Peers : \/ reply'[q] = reply[q]
                            \/ ~reply'[q].ok
                            \/ /\ Core(reply'[q].record) = Core(rec'[x])
                               /\ q \in reply'[q].record.members
    PROVE  /\ Admission(View, View', Core(rec[x]), c, p, Core(Admitted(rec[x], c, p)))
           /\ SelfListed' /\ AllLearn /\ known' = [q \in Peers |-> known'[q]]
<1> DEFINE s == Admitted(rec[x], c, p)
           r == Core(rec[x])
           h == Core(s)
<1>1. /\ SInv /\ rec[x] \in RecType /\ c \in CapType
      /\ rec \in [Clients -> RecType \cup {NoRec}] /\ Owner \in Clients
  BY StoredTyped DEF RootInv
<1>2. s \in RecType /\ Enacts(r, c, p, h)
  BY <1>1, AdmittedCore
<1>3. rec' = [rec EXCEPT ![x] = s]
  BY DEF Enact
<1>4. /\ known' = [q \in Peers |-> IF q = x THEN known[q] \cup {rec'[x].root} ELSE known[q]]
      /\ \A a \in admits' : a \in admits \/ (a.who = p /\ a.cap = c)
  BY DEF Enact, Announced
<1> HIDE DEF s
<1>5. rec'[x] = s /\ \A y \in Clients \ {x} : rec'[y] = rec[y]
  BY <1>1, <1>3
<1>6. r \in Cores /\ r.members = rec[x].members /\ h.members = s.members /\ h.root = s.root
  BY <1>1, <1>2, CoresHave, CoreTyped
<1>7. Cores' \subseteq Cores \cup {h}
  <2>1. \A y \in Clients : rec'[y] = rec[y] \/ Core(rec'[y]) = h
    BY <1>5
  <2>2. \A q \in Peers : reply'[q] = reply[q] \/ ~reply'[q].ok \/ Core(reply'[q].record) = h
    BY <1>5
  <2> HIDE DEF h
  <2>3. QED
    BY <2>1, <2>2, CoresMove
<1>8. h \in Cores'
  <2>1. rec'[x] # NoRec
    BY <1>2, <1>5, RecIsHeld
  <2>2. QED
    BY <1>5, <2>1 DEF Cores, Records, Holds
<1>9. OwnCore' = OwnCore \/ (r = OwnCore /\ OwnCore' = h)
  BY <1>1, <1>5 DEF OwnCore
<1>10. OwnCore' \in Cores' /\ Sent' = Sent
  BY OwnCoreStored DEF Sent
<1>11. s.members = rec[x].members \cup {p}
  BY <1>2, <1>6 DEF Enacts
<1> HIDE DEF r, h
<1>12. Admission(View, View', r, c, p, h)
  BY <1>2, <1>4, <1>6, <1>7, <1>9, <1>10 DEF Admission, View
<1>13. SelfListed'
  <2>1. ASSUME NEW q \in Peers, rec'[q] # NoRec PROVE q \in rec'[q].members
    <3>1. q \in Clients
      BY DEF Clients
    <3>2. rec[q] # NoRec => q \in rec[q].members
      BY DEF RootInv, SelfListed, Holds
    <3>3. QED
      BY <1>5, <1>11, <2>1, <3>1, <3>2
  <2>2. ASSUME NEW q \in Peers, reply'[q] # NoReply, reply'[q].ok
        PROVE  q \in reply'[q].record.members
    BY <2>2 DEF RootInv, SelfListed
  <2>3. QED
    BY <2>1, <2>2 DEF SelfListed, Holds
<1>14. AllLearn
  <2> SUFFICES ASSUME NEW q \in Peers
               PROVE  known'[q] \subseteq known[q] \cup
                        ListedRoots(q, View.cores \cup (View').cores \cup View.sent)
    BY DEF AllLearn, Learns
  <2>1. CASE q = x
    <3>1. known'[q] = known[q] \cup {h.root}
      BY <1>4, <1>5, <1>6, <2>1
    <3>2. q \in h.members
      <4>1. q \in rec[x].members
        BY <2>1 DEF RootInv, SelfListed, Holds
      <4>2. QED
        BY <1>6, <1>11, <4>1
    <3>3. h.root \in ListedRoots(q, View.cores \cup (View').cores \cup View.sent)
      BY <1>8, <3>2 DEF ListedRoots, View
    <3>4. QED
      BY <3>1, <3>3
  <2>2. CASE q # x
    BY <1>4, <2>2
  <2>3. QED
    BY <2>1, <2>2
<1>15. QED
  BY <1>4, <1>12, <1>13, <1>14 DEF r, h, s

LEMMA AdmitRoots == ASSUME RootInv, SInv', NEW a \in admits, ReceiveAdmit(a) PROVE RootInv'
<1> DEFINE x == a.to
           p == a.who
           c == a.cap
           r == Core(rec[x])
           h == Core(Admitted(rec[x], c, p))
<1>1. x \in Clients /\ p \in Clients /\ c \in caps
  BY DEF RootInv, SInv, AdmitsOK
<1>2. /\ UNCHANGED <<updates, caps, roots, reply, barred, kick>>
      /\ rec[x] # NoRec /\ Resolves(rec[x], c) /\ Enact(x, p, c)
  BY DEF ReceiveAdmit, Holds
<1>3. /\ Admission(View, View', r, c, p, h)
      /\ SelfListed' /\ AllLearn /\ known' = [q \in Peers |-> known'[q]]
  <2>1. \A q \in Peers : reply'[q] = reply[q]
    BY <1>2
  <2> HIDE DEF x, p, c
  <2>2. QED
    BY <1>1, <1>2, <2>1, EnactView
<1>4. Besides
  BY <1>2, <1>3 DEF Besides, RootInv, Shapes
<1>5. c.next.root \in OfferedBy(p, admits)
  BY DEF OfferedBy
<1> HIDE DEF x, p, c, r, h
<1>6. \A q \in Peers : KickSame(q) /\ ((q = p /\ kick'[q] # NoKick) => c.next.root <= kick[q].roots)
  <2> SUFFICES ASSUME NEW q \in Peers, q = p, kick[q] # NoKick PROVE c.next.root <= kick[q].roots
    BY <1>2 DEF KickSame
  <2>1. OfferedBy(q, admits) \subseteq 0..kick[q].roots
    BY DEF RootInv, KicksHold, KickHolds, View
  <2>2. QED
    BY <1>5, <2>1
<1>7. \A q \in Peers : barred'[q] = barred[q] /\ (q = p => c.next.root \in Offers(q, View, known[q]))
  BY <1>2, <1>5 DEF Offers, OffersOf, View
<1>8. QED
  BY <1>3, <1>4, <1>6, <1>7, AdmissionStep

\* What has been offered to p, in terms of the view.
LEMMA OfferedIs ==
    ASSUME NEW p \in Peers
    PROVE  Offered(p) = Offers(p, View, known[p])
<1> DEFINE L1 == {r.root : r \in {s \in Records \cup updates : p \in s.members}}
           L2 == ListedRoots(p, Cores \cup Sent)
<1>1. \A r : Core(r).root = r.root /\ Core(r).members = r.members
  BY DEF Core
<1>2. L1 \subseteq L2
  <2> SUFFICES ASSUME NEW r \in Records \cup updates, p \in r.members PROVE r.root \in L2
    OBVIOUS
  <2>1. Core(r) \in Cores \cup Sent
    BY DEF Cores, Sent
  <2>2. QED
    BY <1>1, <2>1 DEF ListedRoots
<1>3. L2 \subseteq L1
  <2> SUFFICES ASSUME NEW k \in Cores \cup Sent, p \in k.members PROVE k.root \in L1
    BY DEF ListedRoots
  <2>1. PICK r \in Records \cup updates : k = Core(r)
    BY DEF Cores, Sent
  <2>2. QED
    BY <1>1, <2>1
<1>4. L1 = L2
  BY <1>2, <1>3
<1>5. Offered(p) = known[p] \cup L1 \cup OfferedBy(p, admits)
  BY DEF Offered, OfferedBy
<1> HIDE DEF L1, L2
<1>6. Offers(p, View, known[p]) = known[p] \cup L2 \cup OfferedBy(p, admits)
  BY DEF Offers, OffersOf, View, L2
<1>7. QED
  BY <1>4, <1>5, <1>6

\* What p is to be barred from is in use under an older epoch, and out of its reach.
LEMMA OlderRootsFacts ==
    ASSUME NEW p \in Peers, NEW epoch
    PROVE  /\ OlderRoots(p, epoch) \cap ReachOf(Offers(p, View, known[p]), caps) = {}
           /\ \A b \in OlderRoots(p, epoch) : \E s \in Cores : s.root = b /\ s.epoch < epoch
<1>1. OlderRoots(p, epoch) \cap ReachOf(Offers(p, View, known[p]), caps) = {}
  BY OfferedIs DEF OlderRoots, Reach, ReachOf
<1>2. ASSUME NEW b \in OlderRoots(p, epoch) PROVE \E s \in Cores : s.root = b /\ s.epoch < epoch
  <2>1. PICK y \in Clients : rec[y] # NoRec /\ rec[y].epoch < epoch /\ rec[y].root = b
    BY DEF OlderRoots, Holds
  <2>2. Core(rec[y]) \in Cores /\ Core(rec[y]).root = b /\ Core(rec[y]).epoch < epoch
    BY <2>1, CoresHave DEF Core
  <2>3. QED
    BY <2>2
<1>3. QED
  BY <1>1, <1>2

\* The bookkeeping of an admission.
LEMMA NotedFor ==
    ASSUME RootInv, NEW p \in Peers, NEW epoch, NEW minted, NoteAdmission(p, epoch, minted)
    PROVE  /\ kick' = [q \in Peers |-> kick'[q]] /\ barred' = [q \in Peers |-> barred'[q]]
           /\ barred'[p] = OlderRoots(p, epoch)
           /\ \A q \in Peers : KickSame(q)
           /\ \A q \in Peers \ {p} : barred'[q] = barred[q]
           /\ kick'[p] # NoKick => kick'[p] = kick[p] /\ ~(minted > kick[p].roots)
<1>1. kick = [q \in Peers |-> kick[q]] /\ barred = [q \in Peers |-> barred[q]]
  BY DEF RootInv, Shapes
<1> DEFINE bar == OlderRoots(p, epoch)
<1>2. barred' = [barred EXCEPT ![p] = bar]
  BY DEF NoteAdmission
<1> HIDE DEF bar
<1>3. /\ barred' = [q \in Peers |-> barred'[q]] /\ barred'[p] = bar
      /\ \A q \in Peers \ {p} : barred'[q] = barred[q]
  BY <1>1, <1>2
<1>4. CASE kick[p] # NoKick /\ minted > kick[p].roots
  <2>1. kick' = [kick EXCEPT ![p] = NoKick]
    BY <1>4 DEF NoteAdmission
  <2>2. kick'[p] = NoKick /\ \A q \in Peers \ {p} : kick'[q] = kick[q]
    BY <1>1, <2>1
  <2>3. kick' = [q \in Peers |-> kick'[q]]
    BY <1>1, <2>1
  <2>4. QED
    BY <1>3, <2>2, <2>3 DEF KickSame, bar
<1>5. CASE ~(kick[p] # NoKick /\ minted > kick[p].roots)
  <2>1. kick' = kick
    BY <1>5 DEF NoteAdmission
  <2>2. QED
    BY <1>1, <1>3, <1>5, <2>1 DEF KickSame, bar
<1>6. QED
  BY <1>4, <1>5

\* A request served at x, whatever becomes of the answer.
LEMMA ServeRoots ==
    ASSUME RootInv, SInv', NEW x \in Clients, rec[x] # NoRec, NEW p \in Peers,
           NEW c \in caps \cup {NoCap}, ServeJoin(x, p, c), UNCHANGED <<updates, caps, roots>>,
           \A q \in Peers : \/ reply'[q] = reply[q]
                            \/ ~reply'[q].ok
                            \/ /\ Core(reply'[q].record) = Core(rec'[x])
                               /\ q \in reply'[q].record.members
    PROVE  RootInv'
<1>p. p \in Clients
  BY DEF Clients
<1>1. CASE ~(p \notin rec[x].members /\ Resolves(rec[x], c))
  <2>1. UNCHANGED <<rec, known, admits, barred, kick>>
    BY <1>1 DEF ServeJoin
  <2>2. SelfListed'
    BY <2>1 DEF RootInv, SelfListed, Holds
  <2>3. AllLearn /\ Shapes'
    BY <2>1, KnownSame DEF RootInv, Shapes
  <2>4. Cores' \subseteq Cores
    <3> DEFINE h == Core(rec[x])
    <3>1. h \in Cores
      BY CoresHave
    <3>2. \A y \in Clients : rec'[y] = rec[y]
      BY <2>1
    <3>3. \A q \in Peers : reply'[q] = reply[q] \/ ~reply'[q].ok \/ Core(reply'[q].record) = h
      BY <2>1
    <3> HIDE DEF h
    <3>4. Cores' \subseteq Cores \cup {h}
      BY <3>2, <3>3, CoresMove
    <3>5. QED
      BY <3>1, <3>4
  <2>5. QED
    BY <2>1, <2>2, <2>3, <2>4, FewerStep
<1>2. CASE p \notin rec[x].members /\ Resolves(rec[x], c)
  <2> DEFINE r == Core(rec[x])
             h == Core(Admitted(rec[x], c, p))
             bar == OlderRoots(p, c.next.epoch)
  <2>1. c \in caps
    BY <1>2 DEF Resolves
  <2>2. Enact(x, p, c) /\ NoteAdmission(p, c.next.epoch, c.next.root)
    BY <1>2 DEF ServeJoin
  <2>3. /\ Admission(View, View', r, c, p, h)
        /\ SelfListed' /\ AllLearn /\ known' = [q \in Peers |-> known'[q]]
    BY <1>2, <1>p, <2>1, <2>2, EnactView
  <2>4. /\ kick' = [q \in Peers |-> kick'[q]] /\ barred' = [q \in Peers |-> barred'[q]]
        /\ barred'[p] = bar
        /\ \A q \in Peers : KickSame(q)
        /\ \A q \in Peers \ {p} : barred'[q] = barred[q]
        /\ kick'[p] # NoKick => kick'[p] = kick[p] /\ ~(c.next.root > kick[p].roots)
    BY <2>2, NotedFor
  <2>5. Besides
    BY <2>3, <2>4 DEF Besides, Shapes
  <2>6. /\ bar \cap ReachOf(Offers(p, View, known[p]), caps) = {}
        /\ \A b \in bar : \E s \in Cores : s.root = b /\ s.epoch < c.next.epoch
    BY OlderRootsFacts
  <2> HIDE DEF r, h, bar
  <2>7. \A q \in Peers : KickSame(q) /\ ((q = p /\ kick'[q] # NoKick) => c.next.root <= kick[q].roots)
    <3> SUFFICES ASSUME kick'[p] # NoKick PROVE c.next.root <= kick[p].roots
      BY <2>4
    <3>1. kick[p] # NoKick /\ ~(c.next.root > kick[p].roots)
      BY <2>4
    <3>2. kick[p].roots \in Nat
      BY <3>1 DEF RootInv, KicksHold, KickHolds, Splits, KickSplits, KickType
    <3>3. c.next.root \in Nat
      BY <2>1, StoredTyped DEF RootInv, CapType, StructType
    <3>4. QED
      BY <3>1, <3>2, <3>3
  <2>8. BarHolds(p, bar, View', known'[p])
    <3>1. PICK V : V = View
      OBVIOUS
    <3>2. PICK W : W = View'
      OBVIOUS
    <3>3. /\ ViewOK(V) /\ Admission(V, W, r, c, p, h) /\ known[p] \subseteq 0..V.roots
          /\ Learns(p, V, W, known[p], known'[p])
          /\ bar \cap ReachOf(Offers(p, V, known[p]), V.caps) = {}
          /\ \A b \in bar : \E s \in V.cores : s.root = b /\ s.epoch < c.next.epoch
      BY <2>3, <2>6, <3>1, <3>2, RootInvParts DEF AllLearn
    <3>4. BarHolds(p, bar, W, known'[p])
      BY <3>3, AdmissionBegins
    <3>5. QED
      BY <3>2, <3>4
  <2>9. ASSUME NEW q \in Peers
        PROVE  \/ barred'[q] = barred[q] /\ (q = p => c.next.root \in Offers(q, View, known[q]))
               \/ BarHolds(q, barred'[q], View', known'[q])
    BY <2>4, <2>8
  <2>10. QED
    BY <2>3, <2>5, <2>7, <2>9, AdmissionStep
<1>3. QED
  BY <1>1, <1>2

\* The answer is x's record, or a rejection.
AnswerIs(a, r, p) == ~a.ok \/ (Core(a.record) = Core(r) /\ p \in a.record.members)

LEMMA AnswerShape ==
    ASSUME NEW x, NEW p, NEW c, NEW kind, rec'[x] \in RecType
    PROVE  AnswerIs(AnswerOf(x, p, c, kind), rec'[x], p)
<1> DEFINE r == rec'[x]
           h == [r EXCEPT !.cap = IF x = Owner THEN NoCap ELSE c]
           a == AnswerOf(x, p, c, kind)
<1>1. CASE p \notin r.members
  <2>1. a = [kind |-> kind, ok |-> FALSE]
    BY <1>1 DEF AnswerOf
  <2>2. QED
    BY <2>1 DEF AnswerIs
<1>2. CASE p \in r.members
  <2>1. a.record = h
    BY <1>2 DEF AnswerOf
  <2> HIDE DEF r, a
  <2>2. Core(h) = Core(r) /\ h.members = r.members
    BY DEF Core, RecType, r
  <2> HIDE DEF h
  <2>3. QED
    BY <1>2, <2>1, <2>2 DEF AnswerIs, a, r
<1>3. QED
  BY <1>1, <1>2

LEMMA AskedRoots ==
    ASSUME RootInv, SInv', NEW p \in Peers, NEW x \in Clients, rec[x] # NoRec,
           NEW c \in caps \cup {NoCap}, NEW kind, ServeJoin(x, p, c),
           UNCHANGED <<updates, caps, roots>>,
           reply' = [reply EXCEPT ![p] = AnswerOf(x, p, c, kind)]
    PROVE  RootInv'
<1> DEFINE a == AnswerOf(x, p, c, kind)
<1>1. p \in Clients /\ SInv /\ reply = [q \in Peers |-> reply[q]]
  BY DEF Clients, RootInv, SInv, RepliesOK
<1>2. rec'[x] \in RecType
  <2>1. rec'[x] # NoRec
    BY <1>1, ServeMoves
  <2>2. QED
    BY <2>1 DEF SInv, RecsOK
<1>3. AnswerIs(a, rec'[x], p)
  BY <1>2, AnswerShape
<1> HIDE DEF a
<1>4. reply'[p] = a /\ \A q \in Peers \ {p} : reply'[q] = reply[q]
  BY <1>1 DEF a
<1>5. \A q \in Peers : \/ reply'[q] = reply[q]
                       \/ ~reply'[q].ok
                       \/ /\ Core(reply'[q].record) = Core(rec'[x])
                          /\ q \in reply'[q].record.members
  BY <1>3, <1>4 DEF AnswerIs
<1>6. QED
  BY <1>5, ServeRoots

LEMMA JoinRoots ==
    ASSUME RootInv, SInv', NEW p \in Peers, NEW x \in Clients, NEW c \in caps, Join(p, x, c)
    PROVE  RootInv'
BY AskedRoots DEF Join, Holds

LEMMA RepullRoots == ASSUME RootInv, SInv', NEW p \in Peers, Repull(p) PROVE RootInv'
<1>1. rec[p] # NoRec /\ p \in Clients /\ SInv
  BY DEF Repull, Holds, Clients, RootInv
<1>2. rec[p].cap \in caps \cup {NoCap} /\ rec[Owner] # NoRec /\ Owner \in Clients
  BY <1>1, StoredTyped
<1>3. QED
  BY <1>1, <1>2, AskedRoots DEF Repull

LEMMA AnnounceRoots ==
    ASSUME RootInv, SInv', NEW p \in Peers, NEW x \in Clients, Announce(p, x)
    PROVE  RootInv'
<1>1. rec[p] # NoRec /\ rec[x] # NoRec /\ p \in Clients /\ SInv
  BY DEF Announce, Holds, Clients, RootInv
<1>2. rec[p].cap \in caps \cup {NoCap}
  BY <1>1, StoredTyped
<1>3. ServeJoin(x, p, rec[p].cap) /\ UNCHANGED <<updates, caps, roots, reply>>
  BY DEF Announce
<1>4. \A q \in Peers : reply'[q] = reply[q]
  BY <1>3
<1>5. QED
  BY <1>1, <1>2, <1>3, <1>4, ServeRoots

LEMMA OldLinkRoots ==
    ASSUME RootInv, SInv', NEW p \in Peers, JoinByOldLink(p)
    PROVE  RootInv'
<1> DEFINE ms == Own.members \cup {p}
           record == Rotated([Own EXCEPT !.members = ms])
           h == Core(Issued(record))
           a == AnswerOf(Owner, p, NoCap, "join")
           bar == OlderRoots(p, Own.epoch + 1)
<1>1. ms \in SUBSET Clients /\ SInv /\ reply = [q \in Peers |-> reply[q]]
  BY OwnFacts DEF Clients, RootInv, SInv, RepliesOK
<1>2. /\ Broadcast(record) /\ NoteAdmission(p, Own.epoch + 1, roots')
      /\ UNCHANGED <<caps, admits, known>> /\ reply' = [reply EXCEPT ![p] = a]
  BY DEF JoinByOldLink
<1>3. /\ record \in RecType /\ record.rev = Own.rev /\ record.epoch = Own.epoch + 1
      /\ record.root = roots + 1 /\ record.members = ms
  BY <1>1, RotatedCore
<1>4. rec'[Owner] \in RecType /\ rec'[Owner] = Issued(record)
  <2>1. rec'[Owner] \in RecType
    BY DEF SInv, RecsOK, Clients
  <2>2. QED
    BY <1>1, <1>2, <2>1, StoredTyped DEF Broadcast
<1>5. AnswerIs(a, rec'[Owner], p)
  BY <1>4, AnswerShape
<1> HIDE DEF a, record
<1>6. reply'[p] = a /\ \A q \in Peers \ {p} : reply'[q] = reply[q]
  BY <1>1, <1>2
<1>7. \A q \in Peers : \/ reply'[q] = reply[q] \/ ~reply'[q].ok
                       \/ Core(reply'[q].record) = Core(Issued(record))
  BY <1>4, <1>5, <1>6 DEF AnswerIs
<1>8. /\ Issue(View, View', h) /\ h.members = ms /\ h.root = roots + 1
      /\ \A x \in Clients \ {Owner} : rec'[x] = rec[x]
  BY <1>2, <1>3, <1>7, BroadcastIssues
<1>9. /\ kick' = [q \in Peers |-> kick'[q]] /\ barred' = [q \in Peers |-> barred'[q]]
      /\ barred'[p] = bar
      /\ \A q \in Peers : KickSame(q)
      /\ \A q \in Peers \ {p} : barred'[q] = barred[q]
      /\ kick'[p] # NoKick => kick'[p] = kick[p] /\ ~(roots' > kick[p].roots)
  BY <1>2, NotedFor
<1>10. Besides
  <2>1. \A q \in Peers : q \in Clients \ {Owner}
    BY OwnerIsNoPeer DEF Clients
  <2>2. SelfListed'
    BY <1>5, <1>6, <1>8, <2>1 DEF RootInv, SelfListed, Holds, AnswerIs
  <2>3. AllLearn /\ Shapes'
    BY <1>2, <1>9, KnownSame DEF RootInv, Shapes
  <2>4. QED
    BY <2>2, <2>3 DEF Besides
<1>11. bar \cap ReachOf(Offers(p, View, known[p]), caps) = {} /\ bar \subseteq 0..roots
  <2>1. /\ bar \cap ReachOf(Offers(p, View, known[p]), caps) = {}
        /\ \A b \in bar : \E s \in Cores : s.root = b
    BY OlderRootsFacts
  <2>2. \A s \in Cores : s.root \in 0..roots
    <3>1. PICK V : V = View
      OBVIOUS
    <3>2. ViewOK(V) /\ V.cores = Cores /\ V.roots = roots
      BY <3>1, RootInvParts
    <3>3. QED
      BY <3>2, ViewMinted
  <2> HIDE DEF bar
  <2>3. QED
    BY <2>1, <2>2
<1> HIDE DEF h, bar
<1>12. \A q \in Peers : KickSame(q) /\ (kick'[q] # NoKick => q \notin h.members)
  <2> SUFFICES ASSUME NEW q \in Peers, kick'[q] # NoKick PROVE q \notin h.members
    BY <1>9
  <2>1. kick'[q] = kick[q] /\ q \notin Own.members
    BY <1>9, KickedOutOfOwn DEF KickSame
  <2>2. q # p
    <3> SUFFICES ASSUME q = p PROVE FALSE
      OBVIOUS
    <3>1. ~(roots' > kick[p].roots) /\ kick[p] # NoKick
      BY <1>9, <2>1
    <3>2. kick[p].roots \in Nat /\ kick[p].roots <= roots /\ roots \in Nat
      BY <1>1, <3>1 DEF RootInv, KicksHold, KickHolds, Splits, KickSplits, KickType, View,
                        SInv, BaseOK
    <3>3. roots' = roots + 1
      BY <1>2, <1>3, <3>2 DEF Broadcast
    <3>4. QED
      BY <3>1, <3>2, <3>3
  <2>3. QED
    BY <1>8, <2>1, <2>2
<1>13. BarHolds(p, bar, View', known'[p])
  <2>1. PICK V : V = View
    OBVIOUS
  <2>2. PICK W : W = View'
    OBVIOUS
  <2>3. /\ ViewOK(V) /\ Issue(V, W, h) /\ known[p] \subseteq 0..V.roots
        /\ Learns(p, V, W, known[p], known'[p]) /\ BarHolds(p, bar, V, known[p])
        /\ h.root = V.roots + 1
    BY <1>8, <1>10, <1>11, <2>1, <2>2, RootInvParts DEF Besides, AllLearn, BarHolds
  <2>4. BarHolds(p, bar, W, known'[p])
    BY <2>3, IssueBar
  <2>5. QED
    BY <2>2, <2>4
<1>14. ASSUME NEW q \in Peers
       PROVE  \/ /\ barred'[q] = barred[q]
                 /\ q \in h.members => q \in OwnCore.members \/ h.root = roots + 1
              \/ BarHolds(q, barred'[q], View', known'[q])
  BY <1>8, <1>9, <1>13
<1>15. QED
  BY <1>8, <1>10, <1>12, <1>14, IssueStep

----------------------------------------------------------------------------
(* The theorems.                                                            *)

LEMMA RootsKept == RootInv /\ [Next]_vars => RootInv'
<1> SUFFICES ASSUME RootInv, [Next]_vars PROVE RootInv'
  OBVIOUS
<1>1. SInv'
  BY StepKeeps DEF RootInv, Kept
<1>2. CASE UNCHANGED vars
  <2>1. /\ UNCHANGED <<rec, updates, caps, roots, admits, reply, known, barred, kick>>
    BY <1>2 DEF vars
  <2>2. SelfListed' /\ Shapes' /\ AllLearn
    BY <2>1, KnownSame DEF RootInv, SelfListed, Shapes, Holds
  <2>3. Cores' \subseteq Cores
    BY <2>1 DEF Cores, Records, Holds
  <2>4. QED
    BY <1>1, <2>1, <2>2, <2>3, FewerStep
<1>3. CASE Next
  <2>1. ASSUME NEW p \in Peers, Kick(p) \/ TakeLeave(p) \/ JoinByOldLink(p) PROVE RootInv'
    BY <1>1, <2>1, KickRoots, TakeLeaveRoots, OldLinkRoots
  <2>2. CASE \E kept \in {"fresh", "none"} : CloseInvites(kept)
    BY <1>1, <2>2, CloseRoots
  <2>3. CASE \E moved \in 0..1 : Edit(moved)
    BY <1>1, <2>3, EditRoots
  <2>4. CASE MintInvite
    BY <1>1, <2>4, MintRoots
  <2>5. ASSUME NEW p \in Peers, Leave(p) \/ TakeRemove(p) PROVE RootInv'
    BY <1>1, <2>5, ForgetRoots
  <2>6. ASSUME NEW q \in Peers, NEW u \in updates, ReceiveUpdate(q, u) PROVE RootInv'
    BY <1>1, <2>6, UpdateRoots
  <2>7. ASSUME NEW a \in admits, ReceiveAdmit(a) PROVE RootInv'
    BY <1>1, <2>7, AdmitRoots
  <2>8. ASSUME NEW p \in Peers, NEW x \in Clients, NEW c \in caps, Join(p, x, c) PROVE RootInv'
    BY <1>1, <2>8, JoinRoots
  <2>9. ASSUME NEW p \in Peers, Repull(p) \/ TakeReply(p) \/ LoseReply(p) PROVE RootInv'
    BY <1>1, <2>9, RepullRoots, AnswerRoots
  <2>10. ASSUME NEW p \in Peers, NEW x \in Clients, Announce(p, x) PROVE RootInv'
    BY <1>1, <2>10, AnnounceRoots
  <2>11. QED
    BY <1>3, <2>1, <2>2, <2>3, <2>4, <2>5, <2>6, <2>7, <2>8, <2>9, <2>10 DEF Next
<1>4. QED
  BY <1>2, <1>3

\* One core, the founding one, and nothing else.
LEMMA FirstLinks ==
    ASSUME NEW O \in CoreType, O.rev = 0, O.epoch = 0, O.root = 0
    PROVE  LinkOK(O, {}, {O}, {}, 0)
<1>1. Marks({}, {}) = {<<0, 0>>}
  BY DEF Marks
<1>2. LinkTypes(O, {}, {O}, {}, 0) /\ LineOK(O, {}, 0) /\ CapsOK(O, {}) /\ LagOK({}, {})
  BY MaxRootsIsNat DEF LinkTypes, LineOK, CapsOK, LagOK
<1>3. MarksOK(O, {}, {}, 0)
  BY <1>1 DEF MarksOK
<1>4. CoresOK(O, {}, {O}, {})
  BY DEF CoresOK, Sourced
<1>5. QED
  BY <1>2, <1>3, <1>4 DEF LinkOK

LEMMA RootsStart == Init => RootInv
<1> SUFFICES ASSUME Init PROVE RootInv
  OBVIOUS
<1> DEFINE members == Founders \cup {Owner}
           mode == SelectMode(Cardinality(members))
           struct == [rev |-> 0, epoch |-> 0, root |-> 0, gen |-> 1, stamp |-> 0,
                      mode |-> mode]
           first == [rev |-> 0, epoch |-> 0, root |-> 0, gen |-> 1, stamp |-> 0,
                     mode |-> mode, members |-> members, cap |-> NoCap,
                     proof |-> [kind |-> "record", of |-> struct]]
           O == Core(first)
<1>1. /\ rec = [x \in Clients |-> IF x \in members THEN first ELSE NoRec]
      /\ updates = {} /\ caps = {} /\ admits = {} /\ roots = 0
      /\ reply = [p \in Peers |-> NoReply]
      /\ known = [p \in Peers |-> IF p \in Founders THEN {0} ELSE {}]
      /\ barred = [p \in Peers |-> {}] /\ kick = [p \in Peers |-> NoKick]
  BY DEF Init
<1>2. members \subseteq Clients /\ Owner \in members /\ Owner \in Clients
  BY FoundersArePeers DEF Clients
<1>3. first.members = members /\ first.rev = 0 /\ first.epoch = 0 /\ first.root = 0
  OBVIOUS
<1>4. O \in CoreType /\ O.rev = 0 /\ O.epoch = 0 /\ O.root = 0
  BY <1>2, <1>3 DEF Core, CoreType
<1> HIDE DEF first
<1>5. SInv
  BY InitKeeps
<1>6. OwnCore = O
  BY <1>1, <1>2 DEF OwnCore
<1>7. Cores = {O}
  <2>1. Records \subseteq {first}
    BY <1>1 DEF Records, Holds
  <2>2. Cores \subseteq {O}
    BY <2>1 DEF Cores
  <2>3. O \in Cores
    BY <1>5, <1>6, StoredTyped, CoresHave DEF OwnCore
  <2>4. QED
    BY <2>2, <2>3
<1>8. Sent = {}
  BY <1>1 DEF Sent
<1>9. ViewOK(View)
  <2>1. LinkOK(O, {}, {O}, {}, 0)
    BY <1>4, FirstLinks
  <2> HIDE DEF O
  <2>2. QED
    BY <1>1, <1>6, <1>7, <1>8, <2>1 DEF ViewOK, View
<1>10. Shapes
  BY <1>1 DEF Shapes
<1>11. SelfListed
  <2> SUFFICES ASSUME NEW p \in Peers, rec[p] # NoRec PROVE p \in rec[p].members
    BY <1>1 DEF SelfListed, Holds
  <2>1. p \in Clients
    BY DEF Clients
  <2>2. p \in members /\ rec[p] = first
    BY <1>1, <2>1
  <2>3. QED
    BY <1>3, <2>2
<1>12. \A p \in Peers : known[p] \subseteq 0..roots
  BY <1>1
<1>13. KicksHold /\ BarsHold
  BY <1>1 DEF KicksHold, BarsHold, BarHolds
<1>14. QED
  BY <1>5, <1>9, <1>10, <1>11, <1>12, <1>13 DEF RootInv

LEMMA SpecKeepsRoots == Spec => []RootInv
BY RootsStart, RootsKept, PTL DEF Spec

LEMMA KnowsIs == \A p \in Peers : Knows(p) = ReachOf(known[p], caps)
BY DEF Knows, Reach, ReachOf

\* Links lead from no root of before a kick to one of after it.
LEMMA KickedCannotReach ==
    ASSUME NEW V, ViewOK(V), NEW p, NEW K, NEW kn, KickHolds(p, K, V, kn)
    PROVE  ReachOf(kn, V.caps) \subseteq 0..K.roots
<1>1. Numbers(V.own, V.sent, V.cores, V.caps, V.roots) /\ K.roots \in Nat
  BY LinkNumbers DEF ViewOK, KickHolds, Splits, KickSplits, KickType
<1>2. \A c \in V.caps : LinkSplit(c, K)
  BY DEF KickHolds, Splits, KickSplits
<1>3. LeadsOn(0..K.roots, V.caps)
  BY <1>1, <1>2 DEF LeadsOn, Numbers, LinkSplit
<1>4. 0..K.roots \subseteq 0..MaxRoots
  <2>1. V.roots \in 0..MaxRoots /\ K.roots <= V.roots
    BY ViewMinted DEF KickHolds, Splits, KickSplits
  <2>2. QED
    BY <1>1, <2>1, MaxRootsIsNat
<1>5. kn \subseteq 0..K.roots
  BY DEF KickHolds
<1>6. QED
  BY <1>3, <1>4, <1>5, ReachIsLeast

\* A kick revokes (nativeRemoveMember): until a link minted after it lets the peer in
\* again, neither the owner's root nor that of a client past the kick can be computed
\* from the roots the peer was given and every link, however updates, admissions by
\* members who lag and late answers interleave with it.
THEOREM KickedStayOut == Spec => []KickRevokes
<1>1. RootInv => KickRevokes
  <2> SUFFICES ASSUME RootInv, NEW p \in Peers, kick[p] # NoKick, NEW q \in Clients \ {p},
                      Holds(q), q = Owner \/ rec[q].rev > kick[p].rev
               PROVE  rec[q].root \notin Knows(p)
    BY DEF KickRevokes
  <2>1. PICK V : V = View
    OBVIOUS
  <2>2. /\ ViewOK(V) /\ V.caps = caps /\ V.cores = Cores /\ V.own = OwnCore
        /\ KickHolds(p, kick[p], V, known[p])
    BY <2>1, RootInvParts
  <2>3. Core(rec[q]) \in V.cores
    BY <2>2, CoresHave DEF Holds
  <2>4. Split(Core(rec[q]), p, kick[p]) /\ V.own.root > kick[p].roots /\ kick[p].roots \in Nat
    BY <2>2, <2>3 DEF KickHolds, Splits, KickSplits, KickType
  <2>5. rec[q].root > kick[p].roots
    BY <2>2, <2>4 DEF Split, Core, OwnCore
  <2>6. Knows(p) \subseteq 0..kick[p].roots
    BY <2>2, KickedCannotReach, KnowsIs
  <2>7. ~(rec[q].root <= kick[p].roots)
    <3>1. Core(rec[q]).root \in Nat
      BY <2>2, <2>3, LinkNumbers DEF ViewOK, Numbers
    <3>2. rec[q].root \in Nat
      BY <3>1 DEF Core
    <3>3. QED
      BY <2>4, <2>5, <3>2
  <2>8. QED
    BY <2>6, <2>7
<1>2. QED
  BY <1>1, SpecKeepsRoots, PTL

\* Whoever admits a peer -- the owner or a member with a link --, what was in use under
\* an older epoch by clients that did not list it stays beyond what it can compute
\* (sync.join, applyForwardSecureAdmission), unless it had been offered it before.
THEOREM NoPastLearned == Spec => []JoinersLearnNoPast
<1>1. RootInv => JoinersLearnNoPast
  <2> SUFFICES ASSUME RootInv, NEW p \in Peers PROVE Knows(p) \cap barred[p] = {}
    BY DEF JoinersLearnNoPast
  <2>1. PICK V : V = View
    OBVIOUS
  <2>2. /\ ViewOK(V) /\ V.caps = caps /\ known[p] \subseteq 0..V.roots
        /\ BarHolds(p, barred[p], V, known[p])
    BY <2>1, RootInvParts
  <2>3. known[p] \subseteq Offers(p, V, known[p])
    BY DEF Offers, OffersOf
  <2>4. ReachOf(known[p], caps) \subseteq ReachOf(Offers(p, V, known[p]), caps)
    BY <2>3 DEF ReachOf
  <2>5. QED
    BY <2>2, <2>4, KnowsIs DEF BarHolds
<1>2. QED
  BY <1>1, SpecKeepsRoots, PTL

----------------------------------------------------------------------------
(* Live keys.                                                               *)


\* The inductive invariant: good records, and live keys in order.
LiveOK ==
    /\ live = [x \in Peers |-> live[x]]
    /\ \A x \in Peers : GroupOK(live[x])
KInv == SInv /\ LiveOK

\* What a step may do to the live keys of one client.
KeyMoves(g, h) == h = g \/ h = NoGroup \/ SetRootFacts(g, h)

\* Seeding from a stored record is a setRoot.
LEMMA SeededMoves ==
    ASSUME NEW g, GroupOK(g), NEW r \in RecType
    PROVE  SetRootFacts(g, Seeded(g, r))
<1>1. r.epoch \in Nat /\ r.root \in Nat /\ r.mode \in Modes
  BY DEF RecType, SecurityModes, Modes
<1> DEFINE h == Seeded(g, r)
<1>2. h = SetRoot(g, r.epoch, r.root, r.mode)
  BY DEF Seeded
<1> HIDE DEF h
<1>3. SetRootFacts(g, h)
  BY <1>1, <1>2, SetRootKeeps
<1>4. QED
  BY <1>3 DEF h

LEMMA MovesKeepOrder ==
    ASSUME NEW g, GroupOK(g), NEW h, KeyMoves(g, h)
    PROVE  GroupOK(h)
BY NoGroupOK DEF KeyMoves, SetRootFacts

LEMMA KeysInitOK == KeysInit => KInv
<1> SUFFICES ASSUME KeysInit PROVE KInv
  OBVIOUS
<1>1. SInv
  BY InitKeeps DEF KeysInit
<1>2. live = [x \in Peers |-> IF Holds(x) THEN Seeded(NoGroup, rec[x]) ELSE NoGroup]
  BY DEF KeysInit
<1>3. ASSUME NEW x \in Peers PROVE GroupOK(live[x])
  <2>1. CASE rec[x] # NoRec
    <3>1. rec[x] \in RecType
      BY <1>1, <2>1 DEF SInv, RecsOK, Good, Clients
    <3>2. SetRootFacts(NoGroup, Seeded(NoGroup, rec[x]))
      BY <3>1, NoGroupOK, SeededMoves
    <3>3. live[x] = Seeded(NoGroup, rec[x])
      BY <1>2, <2>1 DEF Holds
    <3>4. QED
      BY <3>2, <3>3 DEF SetRootFacts
  <2>2. CASE rec[x] = NoRec
    BY <1>2, <2>2, NoGroupOK DEF Holds
  <2>3. QED
    BY <2>1, <2>2
<1>4. QED
  BY <1>1, <1>2, <1>3 DEF KInv, LiveOK

\* The records first, then the keys of each client.
LEMMA RecordsKept == KInv /\ [KeysNext]_keyVars => SInv'
<1> SUFFICES ASSUME KInv, [KeysNext]_keyVars PROVE SInv'
  OBVIOUS
<1>1. CASE [Next]_vars
  BY <1>1, StepKeeps DEF KInv, Kept
<1>2. ASSUME NEW x \in Peers, Restart(x) PROVE SInv'
  <2>1. /\ rec' = rec /\ roots' = roots /\ updates' = updates /\ admits' = admits
        /\ caps' = caps /\ reply' = [reply EXCEPT ![x] = NoReply]
    BY <1>2 DEF Restart
  <2>2. RepliesMove
    BY <2>1, ReplyDropped DEF KInv
  <2>3. RecsMove /\ AdmitsMove /\ Grows /\ BaseOK'
    BY <2>1 DEF KInv, SInv, RecsOK, BaseOK, RecsMove, RecMoves, AdmitsMove, Grows
  <2>4. QED
    BY <2>2, <2>3, MovesKeepInv DEF KInv
<1>3. QED
  BY <1>1, <1>2 DEF KeysNext, SyncStep, UseChannel, keyVars

LEMMA KeysMove ==
    KInv /\ [KeysNext]_keyVars =>
        /\ live' = [x \in Peers |-> live'[x]]
        /\ \A x \in Peers : KeyMoves(live[x], live'[x])
<1> SUFFICES ASSUME KInv, [KeysNext]_keyVars
             PROVE  /\ live' = [x \in Peers |-> live'[x]]
                    /\ \A x \in Peers : KeyMoves(live[x], live'[x])
  OBVIOUS
<1>0. live = [x \in Peers |-> live[x]] /\ \A x \in Peers : GroupOK(live[x])
  BY DEF KInv, LiveOK
<1>1. CASE SyncStep
  <2>1. live' = [x \in Peers |-> IF Installs(x) THEN Seeded(live[x], rec'[x]) ELSE live[x]]
    BY <1>1 DEF SyncStep
  <2>2. ASSUME NEW x \in Peers PROVE KeyMoves(live[x], live'[x])
    <3>1. CASE Installs(x)
      <4>1. rec'[x] \in RecType
        BY <3>1, RecordsKept DEF Installs, SInv, RecsOK, Good, Clients
      <4>2. SetRootFacts(live[x], Seeded(live[x], rec'[x]))
        BY <1>0, <4>1, SeededMoves
      <4>3. QED
        BY <2>1, <3>1, <4>2 DEF KeyMoves
    <3>2. CASE ~Installs(x)
      BY <2>1, <3>2 DEF KeyMoves
    <3>3. QED
      BY <3>1, <3>2
  <2>3. QED
    BY <2>1, <2>2
<1>2. ASSUME NEW y \in Peers, UseChannel(y)
      PROVE  /\ live' = [x \in Peers |-> live'[x]]
             /\ \A x \in Peers : KeyMoves(live[x], live'[x])
  <2> DEFINE h == Seeded(live[y], rec[y])
  <2>1. rec[y] \in RecType
    BY <1>2 DEF UseChannel, Holds, KInv, SInv, RecsOK, Good, Clients
  <2>2. SetRootFacts(live[y], h)
    BY <1>0, <2>1, SeededMoves
  <2>3. live' = [live EXCEPT ![y] = h]
    BY <1>2 DEF UseChannel
  <2> HIDE DEF h
  <2>4. QED
    BY <1>0, <2>2, <2>3 DEF KeyMoves
<1>3. ASSUME NEW y \in Peers, Restart(y)
      PROVE  /\ live' = [x \in Peers |-> live'[x]]
             /\ \A x \in Peers : KeyMoves(live[x], live'[x])
  BY <1>0, <1>3 DEF Restart, KeyMoves
<1>4. CASE UNCHANGED keyVars
  BY <1>0, <1>4 DEF keyVars, KeyMoves
<1>5. QED
  BY <1>1, <1>2, <1>3, <1>4 DEF KeysNext

LEMMA KeysKept == KInv /\ [KeysNext]_keyVars => KInv'
BY RecordsKept, KeysMove, MovesKeepOrder DEF KInv, LiveOK

\* setRoot's promise (channel.ts) under competing claims: the live epoch never moves
\* back and what is installed at an epoch stays, until the client restarts.
THEOREM RootsAreImmutable == KeysSpec => RootIsImmutable
<1> DEFINE Immutable ==
        \A x \in Peers : (live[x].mode # "none" /\ live'[x].mode # "none") =>
            /\ live'[x].epoch >= live[x].epoch
            /\ live'[x].epoch = live[x].epoch => live'[x] = live[x]
<1>1. KInv /\ [KeysNext]_keyVars => [Immutable]_keyVars
  <2> SUFFICES ASSUME KInv, [KeysNext]_keyVars, NEW x \in Peers,
                      live[x].mode # "none", live'[x].mode # "none"
               PROVE  /\ live'[x].epoch >= live[x].epoch
                      /\ live'[x].epoch = live[x].epoch => live'[x] = live[x]
    OBVIOUS
  <2>1. KeyMoves(live[x], live'[x])
    BY KeysMove
  <2>2. live[x].epoch \in Nat
    BY DEF KInv, LiveOK, GroupOK
  <2>3. NoGroup.mode = "none"
    BY DEF NoGroup
  <2>4. QED
    BY <2>1, <2>2, <2>3 DEF KeyMoves, SetRootFacts
<1>2. QED
  BY <1>1, KeysInitOK, KeysKept, PTL DEF KeysSpec, RootIsImmutable
=============================================================================
