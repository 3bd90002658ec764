------------------------ MODULE SignedHistoryProofs ------------------------
(***************************************************************************)
(* Theorems about SignedHistory: however messages, edits and deletions     *)
(* spread -- live, by re-pulls, by pages put together from members and a   *)
(* storage node -- stored versions only advance and deletions stay, a page *)
(* is as current as what was advertised, and by default a joiner holds     *)
(* nothing from before its boundary that was not signed or encrypted anew. *)
(*                                                                         *)
(* One fact carries the versions: nothing but the author makes one.  Every *)
(* other step copies a version that exists already somewhere (Copying), so *)
(* what holds of all versions of a message in the system is kept.          *)
(***************************************************************************)
EXTENDS SignedHistory, FiniteSetTheorems, WellFoundedInduction, TLAPS

(* Types. *)

Rosters == [knows : SUBSET Clients, since : [Clients -> Nat], keys : SUBSET Nat]
PageStates == [phase : {"idle", "first", "retry", "audited"}, before : Nat, claims : SUBSET Claim,
               asked : SUBSET Ask, tried : SUBSET Ask, got : SUBSET Copy, answered : BOOLEAN]
Shapes ==
    /\ world \in World /\ Owner \in world.founders
    /\ posted \in 0..MaxMsgs
    /\ held \in [Clients -> [Ids -> Version \cup {None}]]
    /\ net \in SUBSET Packet /\ node \in SUBSET Replica
    /\ roster \in [Clients -> Rosters]
    /\ page \in [Clients -> PageStates]
    /\ forgot \in [Clients -> SUBSET Ids] /\ exposed \in SUBSET Ids

(* Versions. *)

\* The versions of message i that are anywhere.
Seen(i) == ({held[c][i] : c \in Clients} \ {None}) \cup {k.ver : k \in {p \in net : p.id = i}}
             \cup {r.ver : r \in {s \in node : s.id = i}}
             \cup {x.ver : x \in {y \in UNION {page[c].got : c \in Clients} : y.id = i}}
\* Once deleted, deleted in every later revision.
Lasting(S) == \A u, v \in S : u.gone /\ u.rev <= v.rev => v.gone
\* None is beyond v, the newest, if it is one.
Leads(v, S) == \A u \in S : v # None /\ u.rev <= v.rev
Latest == \A w \in Clients, i \in Ids : SolelyBy(w, i) => Lasting(Seen(i)) /\ Leads(held[w][i], Seen(i))
Numbered == \A i \in Ids : i > posted => Seen(i) = {}

(* Members and epochs. *)

Capped(S) == \E n \in Nat : \A k \in S : k <= n
Since(c) == roster[Owner].since[c]
Joined ==
    /\ IsMember(Owner) /\ Since(Owner) = 0
    /\ \A c \in Clients : IsMember(c) => roster[c].keys # {} /\ (c # Owner => Since(c) > 0)
    /\ \A c \in Clients : ~IsMember(c) => Held(c) = {} /\ page[c] = NoPage /\ Since(c) = 0
    /\ \A c, x \in Clients : x \in roster[c].knows => IsMember(x)
    /\ \A c, x \in Clients : roster[c].since[x] \in {0, Since(x)}
    /\ \A c \in Clients : Since(c) <= posted + 1
    /\ \A k \in net : IsMember(k.to)
Epochs ==
    /\ Capped(roster[Owner].keys)
    /\ \A c \in Clients : \A k \in roster[c].keys : k <= Epoch(Owner)
    /\ \A k \in net : k.epoch <= Epoch(Owner)
    /\ \A r \in node : r.epoch <= Epoch(Owner)
\* Who has the keys of an epoch knows who had joined by then.
Informed == \A c, x \in Clients : \A k \in roster[x].keys, e \in roster[c].keys : k <= e => x \in roster[c].knows

(* The boundary. *)

\* Message i is not for x, and was not signed or encrypted anew for it.
Closed(x, i) == i < Since(x) /\ i \notin exposed
\* A ciphertext of i of epoch e, which x may read from the first of its keys on.
Sealed(i, e) == \A x \in Clients : \A k \in roster[x].keys : k <= e => ~Closed(x, i)
Bounded ==
    /\ \A k \in net : Sealed(k.id, k.epoch)
    /\ \A r \in node : Sealed(r.id, r.epoch)
    /\ \A c \in Clients : \A i \in Held(c) : ~Closed(c, i)
    /\ \A c \in Clients : \A x \in page[c].got : ~Closed(c, x.id)

HInv == /\ Shapes /\ Latest /\ Numbered /\ Joined /\ Epochs /\ Informed
        /\ (world.window = 0 => Bounded) /\ PageIsCurrent

----------------------------------------------------------------------------
(* Largest and smallest numbers, and the newest of some. *)

LEMMA LeastIs ==
    ASSUME NEW S \in SUBSET Nat, S # {}
    PROVE  \E n \in S : \A k \in S : n <= k
<1>1. \E n \in S : \A k \in S : ~(<<k, n>> \in OpToRel(<, Nat))
  BY WFMin, NatLessThanWellFounded
<1>2. \A k, n \in Nat : k < n => <<k, n>> \in OpToRel(<, Nat)
  BY DEF OpToRel
<1>3. PICK n \in S : \A k \in S : ~(<<k, n>> \in OpToRel(<, Nat))
  BY <1>1
<1>4. ASSUME NEW k \in S PROVE n <= k
  <2>1. n \in Nat /\ k \in Nat /\ ~(k < n)
    BY <1>2, <1>3
  <2> QED
    BY <2>1
<1> QED
  BY <1>4

LEMMA MinIs ==
    ASSUME NEW S \in SUBSET Nat, S # {}
    PROVE  Min(S) \in S
  BY LeastIs DEF Min

LEMMA MaxIs ==
    ASSUME NEW S \in SUBSET Nat, S # {}, Capped(S)
    PROVE  Max(S) \in S /\ \A k \in S : k <= Max(S)
<1>1. PICK top \in Nat : \A k \in S : k <= top
  BY DEF Capped
<1> DEFINE T == {n \in Nat : \A k \in S : k <= n}
<1>2. T \in SUBSET Nat /\ T # {}
  BY <1>1
<1>3. PICK least \in T : \A n \in T : least <= n
  BY <1>2, LeastIs
<1>4. least \in S
  <2> SUFFICES ASSUME least \notin S PROVE FALSE
    OBVIOUS
  <2>1. PICK s \in S : TRUE
    OBVIOUS
  <2>2. \A k \in S : k \in Nat /\ least \in Nat /\ k <= least /\ k # least
    BY <1>3
  <2>3. least - 1 \in Nat /\ \A k \in S : k <= least - 1
    BY <2>1, <2>2
  <2>4. least - 1 \in T
    BY <2>3
  <2> QED
    BY <1>3, <2>4
<1>5. \A k \in S : k <= least
  BY <1>3
<1>6. \E n \in S : \A k \in S : n >= k
  BY <1>4, <1>5
<1> QED
  BY <1>6 DEF Max

LEMMA NewestAre ==
    ASSUME NEW k, NEW ids
    PROVE  Newest(k, ids) \subseteq ids
  BY DEF Newest

\* A window of nothing.
LEMMA NewestOfNone ==
    ASSUME NEW S \in SUBSET Ids
    PROVE  Newest(0, S) = {}
<1>1. IsFiniteSet(Ids)
  BY Sizes, FS_Interval DEF Ids
<1>2. ASSUME NEW i \in S PROVE ~(Cardinality({j \in S : j > i}) < 0)
  <2>1. IsFiniteSet({j \in S : j > i})
    BY <1>1, FS_Subset
  <2> QED
    BY <2>1, FS_CardinalityType
<1> QED
  BY <1>2 DEF Newest

LEMMA NoneIsNoVersion == None \notin Version
  BY OwnerIsAClient DEF None, Version

----------------------------------------------------------------------------
(* Types of what is there. *)

LEMMA Holding ==
    ASSUME Shapes, NEW c \in Clients
    PROVE  /\ Held(c) \in SUBSET Ids
           /\ \A i \in Ids : held[c][i] \in Version \cup {None}
           /\ \A i \in Ids : i \in Held(c) <=> held[c][i] # None
           /\ \A i \in Held(c) : held[c][i] \in Version
  BY DEF Shapes, Held

LEMMA VersionFields ==
    ASSUME NEW v \in Version
    PROVE  v.rev \in Nat /\ v.rev \in 0..MaxRev /\ v.by \in Clients /\ v.body \in Stamp /\ v.gone \in BOOLEAN
           /\ v = [rev |-> v.rev, by |-> v.by, body |-> v.body, gone |-> v.gone]
  BY Sizes DEF Version

LEMMA PageFields ==
    ASSUME Shapes, NEW c \in Clients
    PROVE  /\ page[c] \in PageStates
           /\ page[c].phase \in {"idle", "first", "retry", "audited"} /\ page[c].before \in Nat
           /\ page[c].claims \in SUBSET Claim /\ page[c].asked \in SUBSET Ask
           /\ page[c].tried \in SUBSET Ask /\ page[c].got \in SUBSET Copy /\ page[c].answered \in BOOLEAN
<1>1. page[c] \in PageStates
  BY DEF Shapes
<1> QED
  BY <1>1 DEF PageStates

LEMMA RosterFields ==
    ASSUME Shapes, NEW c \in Clients
    PROVE  /\ roster[c] \in Rosters
           /\ roster[c].knows \in SUBSET Clients /\ roster[c].keys \in SUBSET Nat
           /\ roster[c].since \in [Clients -> Nat] /\ \A x \in Clients : roster[c].since[x] \in Nat
<1>1. roster[c] \in Rosters
  BY DEF Shapes
<1> QED
  BY <1>1 DEF Rosters

LEMMA OwnerThere == Owner \in Clients
  BY OwnerIsAClient

\* Who reads a replica, a packet or a copy reads a version that was seen.
LEMMA SeenAre ==
    ASSUME Shapes, NEW i \in Ids
    PROVE  /\ Seen(i) \in SUBSET Version
           /\ \A c \in Clients : held[c][i] # None => held[c][i] \in Seen(i)
           /\ \A k \in net : k.id = i => k.ver \in Seen(i)
           /\ \A r \in node : r.id = i => r.ver \in Seen(i)
           /\ \A c \in Clients : \A x \in page[c].got : x.id = i => x.ver \in Seen(i)
<1>1. \A c \in Clients : held[c][i] \in Version \cup {None}
  BY Holding
<1>2. \A k \in net : k.ver \in Version
  BY DEF Shapes, Packet
<1>3. \A r \in node : r.ver \in Version
  BY DEF Shapes, Replica
<1>4. \A c \in Clients : \A x \in page[c].got : x.ver \in Version
  BY PageFields DEF Copy
<1>5. Seen(i) \subseteq Version
  BY <1>1, <1>2, <1>3, <1>4 DEF Seen
<1> QED
  BY <1>5 DEF Seen

----------------------------------------------------------------------------
(* Copying. *)

\* What c holds of i stays, is a version seen before where there was none or a lower one,
\* or is forgotten.
Moved(c, i) ==
    \/ held'[c][i] = held[c][i]
    \/ held'[c][i] \in Seen(i) /\ (held[c][i] = None \/ held'[c][i].rev > held[c][i].rev)
    \/ held'[c][i] = None /\ i \in forgot'[c]
Copying ==
    /\ world' = world /\ posted' = posted /\ net' \subseteq net
    /\ \A c \in Clients, i \in Ids : Moved(c, i)
    /\ \A r \in node' : r \in node \/ r.ver \in Seen(r.id)
    /\ \A c \in Clients : \A x \in page'[c].got : x \in page[c].got \/ x.ver \in Seen(x.id)
    /\ \A c \in Clients : forgot[c] \subseteq forgot'[c]

\* What VersionsOnlyAdvance says of one message at one client.
Advances(c, i) ==
    held[c][i] # None =>
        /\ \/ held'[c][i] = held[c][i]
           \/ held'[c][i].rev > held[c][i].rev
           \/ held'[c][i] = None /\ i \in forgot'[c]
        /\ held[c][i].gone /\ held'[c][i] # None /\ (\E w \in Clients : SolelyBy(w, i)) => held'[c][i].gone
AllAdvance == \A c \in Clients, i \in Ids : Advances(c, i)

LEMMA CopiesWereSeen ==
    ASSUME Shapes, Shapes', Copying, NEW i \in Ids
    PROVE  Seen(i)' \subseteq Seen(i)
<1>1. \A c \in Clients : held'[c][i] # None => held'[c][i] \in Seen(i)
  BY SeenAre DEF Copying, Moved
<1>2. \A k \in net' : k.id = i => k.ver \in Seen(i)
  BY SeenAre DEF Copying
<1>3. \A r \in node' : r.id = i => r.ver \in Seen(i)
  BY SeenAre DEF Copying
<1>4. \A c \in Clients : \A x \in page'[c].got : x.id = i => x.ver \in Seen(i)
  BY SeenAre DEF Copying
<1> QED
  BY <1>1, <1>2, <1>3, <1>4 DEF Seen

LEMMA CopyingKeeps ==
    ASSUME Shapes, Shapes', Copying, Latest, Numbered
    PROVE  Latest' /\ Numbered' /\ AllAdvance
<1>1. \A i \in Ids : Seen(i)' \subseteq Seen(i)
  BY CopiesWereSeen
<1>2. Numbered'
  BY <1>1 DEF Numbered, Copying
<1>3. ASSUME NEW w \in Clients, NEW i \in Ids, SolelyBy(w, i)'
      PROVE  Lasting(Seen(i))' /\ Leads(held[w][i], Seen(i))'
  <2>1. SolelyBy(w, i) /\ i \notin forgot'[w]
    BY <1>3 DEF SolelyBy, Copying
  <2>2. Lasting(Seen(i)) /\ Leads(held[w][i], Seen(i))
    BY <2>1 DEF Latest
  <2>3. Lasting(Seen(i))'
    BY <1>1, <2>2 DEF Lasting
  <2>4. ASSUME NEW u \in Seen(i)' PROVE held'[w][i] # None /\ u.rev <= held'[w][i].rev
    <3>1. u \in Seen(i) /\ held[w][i] # None /\ u.rev <= held[w][i].rev
      BY <1>1, <2>2, <2>4 DEF Leads
    <3>2. u \in Version /\ held[w][i] \in Version
      BY <3>1, SeenAre, Holding
    <3>3. Moved(w, i)
      BY DEF Copying
    <3>4. held'[w][i] = held[w][i] \/ (held'[w][i] \in Seen(i) /\ held'[w][i].rev > held[w][i].rev)
      BY <2>1, <3>1, <3>3 DEF Moved
    <3>5. CASE held'[w][i] = held[w][i]
      BY <3>1, <3>5
    <3>6. CASE held'[w][i] \in Seen(i) /\ held'[w][i].rev > held[w][i].rev
      <4>1. held'[w][i] \in Version
        BY <3>6, SeenAre
      <4>2. held'[w][i].rev \in Nat /\ held[w][i].rev \in Nat /\ u.rev \in Nat
        BY <4>1, <3>2, VersionFields
      <4> QED
        BY <4>1, <4>2, <3>1, <3>6, NoneIsNoVersion
    <3> QED
      BY <3>4, <3>5, <3>6
  <2>5. Leads(held[w][i], Seen(i))'
    BY <2>4 DEF Leads
  <2> QED
    BY <2>3, <2>5
<1>4. Latest'
  BY <1>3 DEF Latest
<1>5. ASSUME NEW c \in Clients, NEW i \in Ids PROVE Advances(c, i)
  <2>1. SUFFICES ASSUME held[c][i] # None
                 PROVE  /\ \/ held'[c][i] = held[c][i]
                           \/ held'[c][i].rev > held[c][i].rev
                           \/ held'[c][i] = None /\ i \in forgot'[c]
                        /\ held[c][i].gone /\ held'[c][i] # None /\ (\E w \in Clients : SolelyBy(w, i))
                             => held'[c][i].gone
    BY DEF Advances
  <2>2. Moved(c, i)
    BY DEF Copying
  <2>3. held[c][i] \in Seen(i) /\ held[c][i] \in Version
    BY <2>1, SeenAre
  <2>4. ASSUME held[c][i].gone, held'[c][i] # None, NEW w \in Clients, SolelyBy(w, i) PROVE held'[c][i].gone
    <3>1. CASE held'[c][i] = held[c][i]
      BY <2>4, <3>1
    <3>2. CASE held'[c][i] \in Seen(i) /\ held'[c][i].rev > held[c][i].rev
      <4>1. held'[c][i].rev \in Nat /\ held[c][i].rev \in Nat
        BY <3>2, <2>3, SeenAre, VersionFields
      <4>2. Lasting(Seen(i))
        BY <2>4 DEF Latest
      <4> QED
        BY <2>3, <2>4, <3>2, <4>1, <4>2 DEF Lasting
    <3> QED
      BY <2>1, <2>2, <2>4, <3>1, <3>2 DEF Moved
  <2> QED
    BY <2>1, <2>2, <2>4 DEF Moved
<1> QED
  BY <1>2, <1>4, <1>5 DEF AllAdvance

----------------------------------------------------------------------------
(* Steps that change no roster. *)

LEMMA EpochIs ==
    ASSUME Shapes, Joined, Epochs
    PROVE  /\ Epoch(Owner) \in Nat /\ Epoch(Owner) \in roster[Owner].keys
           /\ \A c \in Clients : \A k \in roster[c].keys : k \in Nat /\ k <= Epoch(Owner)
           /\ \A c \in Clients : IsMember(c) =>
                /\ Epoch(c) \in Nat /\ Epoch(c) \in roster[c].keys /\ Epoch(c) <= Epoch(Owner)
                /\ \A k \in roster[c].keys : k <= Epoch(c)
<1>1. \A c \in Clients : roster[c].keys \in SUBSET Nat
  BY RosterFields
<1>2. Owner \in Clients /\ roster[Owner].keys # {} /\ Capped(roster[Owner].keys)
  BY OwnerThere DEF Joined, Epochs
<1>3. Epoch(Owner) \in roster[Owner].keys /\ Epoch(Owner) \in Nat
  BY <1>1, <1>2, MaxIs DEF Epoch
<1>4. \A c \in Clients : \A k \in roster[c].keys : k \in Nat /\ k <= Epoch(Owner)
  BY <1>1 DEF Epochs
<1>5. ASSUME NEW c \in Clients, IsMember(c)
      PROVE  Epoch(c) \in roster[c].keys /\ \A k \in roster[c].keys : k <= Epoch(c)
  <2>1. roster[c].keys # {} /\ Capped(roster[c].keys)
    BY <1>3, <1>4, <1>5 DEF Joined, Capped
  <2> QED
    BY <1>1, <2>1, MaxIs DEF Epoch
<1> QED
  BY <1>3, <1>4, <1>5

\* What is sealed or held stays in bounds while more is exposed and nobody joins.
LEMMA ClosedStays ==
    ASSUME roster' = roster, exposed \subseteq exposed', NEW x, NEW i
    PROVE  Closed(x, i)' => Closed(x, i) /\ i \notin exposed'
  BY DEF Closed, Since

LEMMA SealedStays ==
    ASSUME roster' = roster, exposed \subseteq exposed', NEW i, NEW e, Sealed(i, e) \/ i \in exposed'
    PROVE  Sealed(i, e)'
  BY ClosedStays DEF Sealed

\* Epochs of what was sent or stored anew, and who it is for.
NewPackets == \A k \in net' : k \in net \/ (IsMember(k.to) /\ k.epoch <= Epoch(Owner))
NewReplicas == \A r \in node' : r \in node \/ r.epoch <= Epoch(Owner)
NonMembersRest == \A c \in Clients : ~IsMember(c) => held'[c] = held[c] /\ page'[c] = page[c]

LEMMA RostersStay ==
    ASSUME Shapes, Shapes', Joined, Epochs, Informed, roster' = roster, posted' >= posted,
           NewPackets, NewReplicas, NonMembersRest
    PROVE  Joined' /\ Epochs' /\ Informed'
<1>1. \A c \in Clients : IsMember(c)' <=> IsMember(c)
  BY DEF IsMember
<1>2. Epoch(Owner)' = Epoch(Owner)
  BY DEF Epoch
<1>3. \A c \in Clients : Since(c)' = Since(c)
  BY DEF Since
<1>4. posted \in Nat /\ posted' \in Nat /\ \A c \in Clients : Since(c) \in Nat
  BY Sizes, RosterFields, OwnerThere DEF Shapes, Since
<1>5. Joined'
  <2>1. IsMember(Owner)' /\ Since(Owner)' = 0
    BY <1>1, <1>3, OwnerThere DEF Joined
  <2>2. \A c \in Clients : IsMember(c)' => roster'[c].keys # {} /\ (c # Owner => Since(c)' > 0)
    BY <1>1, <1>3 DEF Joined
  <2>3. \A c \in Clients : ~IsMember(c)' => Held(c)' = {} /\ page'[c] = NoPage /\ Since(c)' = 0
    BY <1>1, <1>3 DEF Joined, NonMembersRest, Held
  <2>4. \A c, x \in Clients : x \in roster'[c].knows => IsMember(x)'
    BY <1>1 DEF Joined
  <2>5. \A c, x \in Clients : roster'[c].since[x] \in {0, Since(x)'}
    BY <1>3 DEF Joined
  <2>6. \A c \in Clients : Since(c)' <= posted' + 1
    BY <1>3, <1>4 DEF Joined
  <2>7. \A k \in net' : IsMember(k.to)'
    <3>1. \A k \in net' : IsMember(k.to)
      BY DEF NewPackets, Joined
    <3> QED
      BY <3>1 DEF IsMember
  <2> QED
    BY <2>1, <2>2, <2>3, <2>4, <2>5, <2>6, <2>7 DEF Joined
<1>6. Epochs'
  BY <1>2 DEF Epochs, NewPackets, NewReplicas
<1>7. Informed'
  BY DEF Informed
<1> QED
  BY <1>5, <1>6, <1>7

\* The bounds after such a step.
InBounds ==
    /\ \A k \in net' : k \in net \/ Sealed(k.id, k.epoch) \/ k.id \in exposed'
    /\ \A r \in node' : r \in node \/ Sealed(r.id, r.epoch) \/ r.id \in exposed'
    /\ \A c \in Clients, i \in Ids : held'[c][i] # held[c][i] => held'[c][i] = None \/ ~Closed(c, i) \/ i \in exposed'
    /\ \A c \in Clients : \A x \in page'[c].got : x \in page[c].got \/ ~Closed(c, x.id)

LEMMA BoundsStay ==
    ASSUME Shapes, Shapes', Bounded, roster' = roster, exposed \subseteq exposed', InBounds
    PROVE  Bounded'
<1>1. \A k \in net' : Sealed(k.id, k.epoch)'
  <2> SUFFICES ASSUME NEW k \in net' PROVE Sealed(k.id, k.epoch)'
    OBVIOUS
  <2>1. Sealed(k.id, k.epoch) \/ k.id \in exposed'
    BY DEF Bounded, InBounds
  <2> QED
    BY <2>1, SealedStays
<1>2. \A r \in node' : Sealed(r.id, r.epoch)'
  <2> SUFFICES ASSUME NEW r \in node' PROVE Sealed(r.id, r.epoch)'
    OBVIOUS
  <2>1. Sealed(r.id, r.epoch) \/ r.id \in exposed'
    BY DEF Bounded, InBounds
  <2> QED
    BY <2>1, SealedStays
<1>3. ASSUME NEW c \in Clients, NEW i \in Held(c)' PROVE ~Closed(c, i)'
  <2>1. i \in Ids /\ held'[c][i] # None
    BY <1>3 DEF Held
  <2>2. ~Closed(c, i) \/ i \in exposed'
    BY <2>1 DEF InBounds, Bounded, Held
  <2> QED
    BY <2>2, ClosedStays
<1>4. ASSUME NEW c \in Clients, NEW x \in page'[c].got PROVE ~Closed(c, x.id)'
  BY <1>4, ClosedStays DEF InBounds, Bounded
<1> QED
  BY <1>1, <1>2, <1>3, <1>4 DEF Bounded

\* All together, for a step that copies.
LEMMA QuietKeeps ==
    ASSUME HInv, Shapes', PageIsCurrent', Copying, roster' = roster, exposed \subseteq exposed',
           NewReplicas, NonMembersRest, world.window = 0 => InBounds
    PROVE  HInv' /\ AllAdvance
<1>1. Shapes /\ Latest /\ Numbered /\ Joined /\ Epochs /\ Informed
  BY DEF HInv
<1>2. Latest' /\ Numbered' /\ AllAdvance
  BY <1>1, CopyingKeeps
<1>3. posted' >= posted /\ NewPackets
  <2>1. posted \in Nat /\ posted' = posted /\ net' \subseteq net
    BY <1>1, Sizes DEF Shapes, Copying
  <2> QED
    BY <2>1 DEF NewPackets
<1>4. Joined' /\ Epochs' /\ Informed'
  BY <1>1, <1>3, RostersStay
<1>5. world'.window = 0 => Bounded'
  BY <1>1, BoundsStay DEF HInv, Copying
<1> QED
  BY <1>2, <1>4, <1>5 DEF HInv

----------------------------------------------------------------------------
(* Live packets, replicas, reloads. *)

LEMMA PagesStayCurrent ==
    ASSUME PageIsCurrent, page' = page
    PROVE  PageIsCurrent'
  BY DEF PageIsCurrent, Advertised

\* A store in which one message changed.
LEMMA OneChanged ==
    ASSUME Shapes, NEW c \in Clients, NEW i \in Ids, NEW v \in Version \cup {None},
           held' = [held EXCEPT ![c][i] = v]
    PROVE  /\ held' \in [Clients -> [Ids -> Version \cup {None}]]
           /\ held'[c][i] = v
           /\ \A d \in Clients, j \in Ids : d # c \/ j # i => held'[d][j] = held[d][j]
           /\ \A d \in Clients : d # c => held'[d] = held[d]
  BY DEF Shapes

LEMMA ReceiveKeeps ==
    ASSUME HInv, NEW k \in net, Receive(k)
    PROVE  HInv' /\ AllAdvance
<1>1. Shapes /\ Joined /\ PageIsCurrent
  BY DEF HInv
<1>2. k.to \in Clients /\ k.id \in Ids /\ k.ver \in Version /\ k.epoch \in Nat
  BY <1>1 DEF Shapes, Packet
<1>3. /\ UNCHANGED <<world, posted, node, roster, page, bounds, forgot, exposed>>
      /\ net' = net \ {k}
      /\ k.kind # "delete" => k.epoch \in roster[k.to].keys
  BY DEF Receive
<1>4. \/ held' = held
      \/ /\ held' = [held EXCEPT ![k.to][k.id] = k.ver]
         /\ (k.kind = "send" /\ held[k.to][k.id] = None) \/ Applies(held[k.to][k.id], k)
  BY DEF Receive
<1>5. k.ver \in Seen(k.id) /\ IsMember(k.to)
  BY <1>1, <1>2, SeenAre DEF Joined
<1>6. held' \in [Clients -> [Ids -> Version \cup {None}]]
  BY <1>1, <1>2, <1>4, OneChanged DEF Shapes
<1>7. Shapes'
  BY <1>1, <1>3, <1>6 DEF Shapes
<1>8. \A d \in Clients, j \in Ids :
        \/ held'[d][j] = held[d][j]
        \/ /\ d = k.to /\ j = k.id /\ held'[d][j] = k.ver
           /\ (k.kind = "send" /\ held[d][j] = None) \/ Applies(held[d][j], k)
  BY <1>1, <1>2, <1>4, OneChanged
<1>9. Copying
  <2>1. \A d \in Clients, j \in Ids : Moved(d, j)
    BY <1>5, <1>8 DEF Moved, Applies
  <2> QED
    BY <1>3, <2>1 DEF Copying
<1>10. NonMembersRest
  <2>1. \A d \in Clients : d # k.to => held'[d] = held[d]
    BY <1>1, <1>2, <1>4, OneChanged
  <2> QED
    BY <1>3, <1>5, <2>1 DEF NonMembersRest
<1>11. ASSUME world.window = 0 PROVE InBounds
  <2>1. Bounded
    BY <1>11 DEF HInv
  <2>2. ~Closed(k.to, k.id) \/ held[k.to][k.id] = None
    BY <1>2, <2>1 DEF Bounded, Held
  <2>3. k.kind = "send" => ~Closed(k.to, k.id)
    <3>1. Sealed(k.id, k.epoch) /\ k.epoch <= k.epoch
      BY <1>2, <2>1 DEF Bounded
    <3> QED
      BY <1>2, <1>3, <3>1 DEF Sealed
  <2>4. \A d \in Clients, j \in Ids : held'[d][j] # held[d][j] => ~Closed(d, j)
    BY <1>8, <2>2, <2>3 DEF Applies
  <2> QED
    BY <1>3, <2>4 DEF InBounds
<1> QED
  BY <1>1, <1>3, <1>7, <1>9, <1>10, <1>11, QuietKeeps, PagesStayCurrent DEF NewReplicas

LEMMA ReloadKeeps ==
    ASSUME HInv, NEW c \in Clients, NEW i \in Ids, Reload(c, i)
    PROVE  HInv' /\ AllAdvance
<1> DEFINE lost == {j \in Held(c) : j <= i}
<1>1. Shapes /\ Joined /\ PageIsCurrent
  BY DEF HInv
<1>2. /\ UNCHANGED <<world, posted, net, node, roster, pages, exposed>>
      /\ lost # {}
      /\ held' = [held EXCEPT ![c] = [j \in Ids |-> IF j \in lost THEN None ELSE @[j]]]
      /\ forgot' = [forgot EXCEPT ![c] = @ \cup lost]
      /\ page' = [page EXCEPT ![c] = NoPage]
  BY DEF Reload
<1>3. lost \in SUBSET Ids /\ lost \subseteq Held(c)
  BY <1>1, Holding
<1> HIDE DEF lost
<1>4. /\ held' \in [Clients -> [Ids -> Version \cup {None}]]
      /\ \A d \in Clients : d # c => held'[d] = held[d]
      /\ \A j \in Ids : held'[c][j] = IF j \in lost THEN None ELSE held[c][j]
  <2>1. held \in [Clients -> [Ids -> Version \cup {None}]]
    BY <1>1 DEF Shapes
  <2> DEFINE h == [j \in Ids |-> IF j \in lost THEN None ELSE held[c][j]]
  <2>2. h \in [Ids -> Version \cup {None}]
    BY <2>1
  <2>3. held' = [held EXCEPT ![c] = h]
    BY <1>2
  <2> QED
    BY <2>1, <2>2, <2>3
<1>5. /\ forgot' \in [Clients -> SUBSET Ids]
      /\ \A d \in Clients : forgot[d] \subseteq forgot'[d]
      /\ lost \subseteq forgot'[c]
  BY <1>1, <1>2, <1>3 DEF Shapes
<1>6. NoPage \in PageStates /\ NoPage.got = {}
  BY DEF NoPage, PageStates
<1>7. /\ page' \in [Clients -> PageStates]
      /\ \A d \in Clients : page'[d] = page[d] \/ page'[d] = NoPage
      /\ \A d \in Clients : d # c => page'[d] = page[d]
  BY <1>1, <1>2, <1>6 DEF Shapes
<1>8. Shapes'
  BY <1>1, <1>2, <1>4, <1>5, <1>7 DEF Shapes
<1>9. Copying
  <2>1. \A d \in Clients, j \in Ids : Moved(d, j)
    BY <1>4, <1>5 DEF Moved
  <2>2. \A d \in Clients : \A x \in page'[d].got : x \in page[d].got
    BY <1>6, <1>7
  <2> QED
    BY <1>2, <1>5, <2>1, <2>2 DEF Copying
<1>10. IsMember(c)
  BY <1>1, <1>2, <1>3 DEF Joined
<1>11. NonMembersRest
  BY <1>4, <1>7, <1>10 DEF NonMembersRest
<1>12. InBounds
  BY <1>2, <1>4, <1>6, <1>7 DEF InBounds
<1>13. PageIsCurrent'
  <2> SUFFICES ASSUME NEW d \in Clients, NEW x \in page'[d].got
               PROVE  x.ver.rev >= Advertised(page'[d], x.id)
    BY DEF PageIsCurrent
  <2>1. page'[d] = page[d]
    BY <1>6, <1>7
  <2> QED
    BY <1>1, <2>1 DEF PageIsCurrent
<1> QED
  BY <1>2, <1>8, <1>9, <1>11, <1>12, <1>13, QuietKeeps DEF NewReplicas

LEMMA RepairKeeps ==
    ASSUME HInv, NEW c \in Clients, NEW i \in Ids, Repair(c, i)
    PROVE  HInv' /\ AllAdvance
<1>1. Shapes /\ Joined /\ Epochs /\ Informed /\ PageIsCurrent
  BY DEF HInv
<1> DEFINE r == [id |-> i, ver |-> held[c][i], epoch |-> Epoch(c)]
           misled == \E x \in roster[c].knows : roster[c].since[x] # roster[Owner].since[x]
<1>2. /\ UNCHANGED <<world, posted, held, net, roster, page, bounds, forgot>>
      /\ IsMember(c) /\ i \in Eligible(c) /\ node' = node \cup {r}
      /\ exposed' = IF Bars(i) /\ misled THEN exposed \cup {i} ELSE exposed
  BY DEF Repair
<1> DEFINE known == {roster[c].since[x] : x \in roster[c].knows} \ {0}
<1>3. i \in Held(c)
  <2>1. Eligible(c) \subseteq Held(c)
    <3>1. Newest(world.window, {j \in Held(c) : j < Max(known)}) \subseteq Held(c)
      BY NewestAre
    <3> QED
      BY <3>1 DEF Eligible
  <2> QED
    BY <1>2, <2>1
<1>4. Epoch(c) \in Nat /\ Epoch(c) \in roster[c].keys /\ Epoch(c) <= Epoch(Owner)
      /\ \A k \in roster[c].keys : k <= Epoch(c)
  BY <1>1, <1>2, EpochIs
<1>5. held[c][i] \in Version /\ held[c][i] \in Seen(i) /\ r \in Replica
  BY <1>1, <1>3, <1>4, Holding, SeenAre DEF Replica
<1>6. exposed \subseteq exposed' /\ exposed' \in SUBSET Ids
  BY <1>1, <1>2 DEF Shapes
<1>7. Shapes'
  BY <1>1, <1>2, <1>5, <1>6 DEF Shapes
<1>8. Copying
  BY <1>2, <1>5 DEF Copying, Moved
<1>9. NewReplicas
  BY <1>2, <1>4 DEF NewReplicas
<1>10. ASSUME world.window = 0 PROVE Sealed(i, Epoch(c)) \/ i \in exposed'
  <2> SUFFICES ASSUME i \notin exposed',
                      NEW x \in Clients, NEW k \in roster[x].keys, k <= Epoch(c), i < Since(x)
               PROVE  FALSE
    BY DEF Sealed, Closed
  <2>1. Bars(i)
    BY DEF Bars, Since
  <2>2. ~misled
    BY <1>2, <2>1
  <2>3. x \in roster[c].knows
    BY <1>1, <1>4 DEF Informed
  <2>4. roster[c].since[x] = Since(x) /\ Since(x) \in Nat /\ Since(x) # 0
    <3>1. Since(x) \in Nat /\ i \in Nat
      BY <1>1, RosterFields, OwnerThere DEF Since, Ids
    <3> QED
      BY <2>2, <2>3, <3>1 DEF Since
  <2>5. Since(x) \in known
    BY <2>3, <2>4
  <2>6. known \in SUBSET Nat /\ known # {}
    BY <1>1, <2>5, RosterFields
  <2>7. Capped(known)
    <3>1. \A y \in Clients : roster[c].since[y] <= posted + 1
      <4> SUFFICES ASSUME NEW y \in Clients PROVE roster[c].since[y] <= posted + 1
        OBVIOUS
      <4>1. roster[c].since[y] \in {0, Since(y)} /\ Since(y) <= posted + 1
        BY <1>1 DEF Joined
      <4>2. posted \in Nat
        BY <1>1, Sizes DEF Shapes
      <4> QED
        BY <4>1, <4>2
    <3>2. posted + 1 \in Nat
      BY <1>1, Sizes DEF Shapes
    <3>3. roster[c].knows \subseteq Clients
      BY <1>1, RosterFields
    <3> QED
      BY <3>1, <3>2, <3>3 DEF Capped
  <2>8. Max(known) \in Nat /\ Since(x) <= Max(known)
    BY <2>5, <2>6, <2>7, MaxIs
  <2>9. Newest(0, {j \in Held(c) : j < Max(known)}) = {}
    BY <1>1, Holding, NewestOfNone
  <2>10. i >= Max(known)
    BY <1>2, <1>10, <2>6, <2>9 DEF Eligible
  <2> QED
    BY <2>4, <2>8, <2>10 DEF Ids
<1>11. ASSUME world.window = 0 PROVE InBounds
  BY <1>2, <1>10, <1>11 DEF InBounds
<1>12. NonMembersRest
  BY <1>2 DEF NonMembersRest
<1> QED
  BY <1>1, <1>2, <1>6, <1>7, <1>8, <1>9, <1>11, <1>12, QuietKeeps, PagesStayCurrent

----------------------------------------------------------------------------
(* What a member serves and a page collects. *)

LEMMA ReadableAre ==
    ASSUME Shapes, Joined, NEW p \in Clients, NEW c \in Clients
    PROVE  /\ Readable(p, c) \subseteq Held(p)
           /\ world.window = 0 => \A i \in Readable(p, c) : ~Closed(c, i)
<1> DEFINE s == roster[p].since[c]
<1>1. Held(p) \in SUBSET Ids /\ s \in Nat /\ s \in {0, Since(c)} /\ Since(c) \in Nat /\ Since(Owner) = 0
  BY Holding, RosterFields, OwnerThere DEF Since, Joined
<1>2. Readable(p, c) \subseteq Held(p)
  <2>1. /\ Newest(world.window, Held(p)) \subseteq Held(p)
        /\ Newest(world.window, {i \in Held(p) : i < s}) \subseteq {i \in Held(p) : i < s}
    BY NewestAre
  <2> QED
    BY <2>1 DEF Readable
<1>3. ASSUME world.window = 0, NEW i \in Readable(p, c) PROVE ~(i < Since(c))
  <2>1. Newest(world.window, Held(p)) = {} /\ Newest(world.window, {j \in Held(p) : j < s}) = {}
    BY <1>1, <1>3, NewestOfNone
  <2>2. i \in Nat
    BY <1>1, <1>2, <1>3 DEF Ids
  <2>3. CASE c = Owner
    BY <1>1, <2>2, <2>3
  <2>4. CASE c # Owner /\ s = 0
    <3>1. p = Owner
      BY <1>3, <2>1, <2>4 DEF Readable
    <3> QED
      BY <1>1, <2>2, <2>4, <3>1 DEF Since
  <2>5. CASE c # Owner /\ s # 0
    <3>1. i >= s
      BY <1>3, <2>1, <2>5 DEF Readable
    <3> QED
      BY <1>1, <2>2, <2>5, <3>1
  <2> QED
    BY <2>3, <2>4, <2>5
<1> QED
  BY <1>2, <1>3 DEF Closed

LEMMA CopiesAre ==
    ASSUME HInv, NEW p \in Clients \cup {Node}, NEW c \in Clients, NEW i \in Ids, NEW v \in Copies(p, c, i)
    PROVE  v \in Seen(i) /\ v \in Version /\ (world.window = 0 => ~Closed(c, i))
<1>1. Shapes /\ Joined
  BY DEF HInv
<1>2. CASE p = Node
  <2>1. PICK r \in node : r.id = i /\ r.ver = v /\ r.epoch \in roster[c].keys
    BY <1>2 DEF Copies
  <2>2. r.epoch <= r.epoch
    BY <1>1 DEF Shapes, Replica
  <2>3. world.window = 0 => ~Closed(c, i)
    BY <2>1, <2>2 DEF HInv, Bounded, Sealed
  <2> QED
    BY <1>1, <2>1, <2>3, SeenAre
<1>3. CASE p # Node
  <2>1. p \in Clients /\ i \in Readable(p, c) /\ v = held[p][i]
    BY <1>3 DEF Copies
  <2>2. i \in Held(p) /\ (world.window = 0 => ~Closed(c, i))
    BY <1>1, <2>1, ReadableAre
  <2>3. v # None
    BY <2>1, <2>2, <1>1, Holding
  <2> QED
    BY <1>1, <2>1, <2>2, <2>3, SeenAre
<1> QED
  BY <1>2, <1>3

\* A message that was advertised was advertised at a revision.
LEMMA AdvertisedIs ==
    ASSUME NEW q, q.claims \in SUBSET Claim, NEW i, NEW k \in q.claims, k.id = i
    PROVE  Advertised(q, i) \in Nat
<1> DEFINE S == {l.rev : l \in {n \in q.claims : n.id = i}}
<1>1. S \in SUBSET Nat /\ S # {} /\ \A n \in S : n <= MaxRev
  BY Sizes DEF Claim
<1>2. Capped(S)
  BY <1>1, Sizes DEF Capped
<1>3. Max(S) \in S
  BY <1>1, <1>2, MaxIs
<1> QED
  BY <1>1, <1>3 DEF Advertised

\* A step of the page of a member c, to q: copies that were seen come in.
Collects(c, q) ==
    /\ q \in PageStates
    /\ q.claims = page[c].claims \/ q.got = {}
    /\ \A x \in q.got : x \in page[c].got \/ /\ x.id \in Ids /\ x.ver \in Seen(x.id)
                                             /\ x.ver.rev >= Advertised(page[c], x.id)
                                             /\ world.window = 0 => ~Closed(c, x.id)

LEMMA PageKeeps ==
    ASSUME HInv, NEW c \in Clients, IsMember(c), NEW q, Collects(c, q), page' = [page EXCEPT ![c] = q],
           UNCHANGED <<world, posted, held, net, node, roster, forgot, exposed>>
    PROVE  HInv' /\ AllAdvance
<1>1. Shapes /\ PageIsCurrent
  BY DEF HInv
<1>2. page' \in [Clients -> PageStates] /\ page'[c] = q /\ \A d \in Clients : d # c => page'[d] = page[d]
  BY <1>1 DEF Shapes, Collects
<1>3. Shapes'
  BY <1>1, <1>2 DEF Shapes
<1>4. Copying
  BY <1>2 DEF Copying, Moved, Collects
<1>5. PageIsCurrent'
  <2> SUFFICES ASSUME NEW d \in Clients, NEW x \in page'[d].got
               PROVE  x.ver.rev >= Advertised(page'[d], x.id)
    BY DEF PageIsCurrent
  <2>1. CASE page'[d] = page[d]
    BY <1>1, <2>1 DEF PageIsCurrent
  <2>2. CASE d = c /\ q.claims = page[c].claims
    <3>1. Advertised(q, x.id) = Advertised(page[c], x.id)
      BY <2>2 DEF Advertised
    <3>2. x.ver.rev >= Advertised(page[c], x.id)
      BY <1>1, <1>2, <2>2 DEF PageIsCurrent, Collects
    <3> QED
      BY <1>2, <2>2, <3>1, <3>2
  <2> QED
    BY <1>2, <2>1, <2>2 DEF Collects
<1>6. NewReplicas /\ NonMembersRest
  BY <1>2 DEF NewReplicas, NonMembersRest
<1>7. world.window = 0 => InBounds
  BY <1>2 DEF InBounds, Collects
<1> QED
  BY <1>3, <1>4, <1>5, <1>6, <1>7, QuietKeeps

LEMMA PagingMembers ==
    ASSUME HInv, NEW c \in Clients, page[c] # NoPage
    PROVE  IsMember(c)
  BY DEF HInv, Joined

LEMMA FetchKeeps ==
    ASSUME HInv, NEW c \in Clients, NEW a \in page[c].asked, Fetch(c, a)
    PROVE  HInv' /\ AllAdvance
<1> DEFINE q == page[c]
           rest == [q EXCEPT !.asked = @ \ {a}, !.tried = @ \cup {a}]
<1>1. Shapes
  BY DEF HInv
<1>2. q \in PageStates /\ a \in Ask /\ a.by \in Clients \cup {Node} /\ a.id \in Ids
  BY <1>1, PageFields DEF Ask
<1>3. IsMember(c)
  BY PagingMembers DEF NoPage
<1>4. rest \in PageStates /\ rest.claims = q.claims /\ rest.got = q.got
  BY <1>2 DEF PageStates
<1>5. UNCHANGED <<world, posted, held, net, node, roster, forgot, exposed>>
  BY DEF Fetch
<1>6. CASE page' = [page EXCEPT ![c] = rest]
  <2>1. Collects(c, rest)
    BY <1>4 DEF Collects
  <2> QED
    BY <1>3, <1>5, <1>6, <2>1, PageKeeps
<1>7. ASSUME NEW v \in Copies(a.by, c, a.id),
             page' = [page EXCEPT ![c] = [rest EXCEPT !.got = Accepted(q, a.by, a.id, v)]]
      PROVE  HInv' /\ AllAdvance
  <2> DEFINE x == [by |-> a.by, id |-> a.id, ver |-> v]
             u == [rest EXCEPT !.got = Accepted(q, a.by, a.id, v)]
  <2>1. v \in Seen(a.id) /\ v \in Version /\ (world.window = 0 => ~Closed(c, a.id))
    BY <1>2, <1>7, CopiesAre
  <2>2. x \in Copy
    BY <1>2, <2>1 DEF Copy
  <2>3. \A y \in Accepted(q, a.by, a.id, v) : y \in q.got \/ (y = x /\ v.rev >= Advertised(q, a.id))
    BY DEF Accepted, Acceptable
  <2>4. Accepted(q, a.by, a.id, v) \in SUBSET Copy
    BY <1>2, <2>2, <2>3 DEF PageStates
  <2>5. u \in PageStates /\ u.claims = q.claims /\ u.got = Accepted(q, a.by, a.id, v)
    BY <1>4, <2>4 DEF PageStates
  <2>6. Collects(c, u)
    BY <1>2, <2>1, <2>3, <2>5 DEF Collects
  <2> QED
    BY <1>3, <1>5, <1>7, <2>6, PageKeeps
<1> QED
  BY <1>6, <1>7 DEF Fetch

LEMMA AuditKeeps ==
    ASSUME HInv, NEW c \in Clients, NEW x \in page[c].got, Audit(c, x)
    PROVE  HInv' /\ AllAdvance
<1> DEFINE q == page[c]
<1>1. Shapes
  BY DEF HInv
<1>2. q \in PageStates /\ q.claims \in SUBSET Claim /\ x \in Copy /\ x.id \in Ids /\ x.ver \in Version
  BY <1>1, PageFields DEF Copy
<1>3. IsMember(c)
  BY PagingMembers DEF NoPage
<1>4. UNCHANGED <<world, posted, held, net, node, roster, forgot, exposed>>
  BY DEF Audit
<1>5. PICK k \in q.claims :
        /\ k.id = x.id
        /\ \E v \in Copies(k.by, c, x.id) :
             /\ v.rev > x.ver.rev
             /\ page' = [page EXCEPT ![c] = [q EXCEPT !.phase = "audited",
                            !.got = (@ \ {x}) \cup {[by |-> k.by, id |-> x.id, ver |-> v]}]]
  BY DEF Audit
<1>6. PICK v \in Copies(k.by, c, x.id) :
             /\ v.rev > x.ver.rev
             /\ page' = [page EXCEPT ![c] = [q EXCEPT !.phase = "audited",
                            !.got = (@ \ {x}) \cup {[by |-> k.by, id |-> x.id, ver |-> v]}]]
  BY <1>5
<1> DEFINE y == [by |-> k.by, id |-> x.id, ver |-> v]
           u == [q EXCEPT !.phase = "audited", !.got = (@ \ {x}) \cup {y}]
<1>7. k.by \in Clients \cup {Node} /\ Advertised(q, x.id) \in Nat
  BY <1>2, <1>5, AdvertisedIs DEF Claim
<1>8. v \in Seen(x.id) /\ v \in Version /\ (world.window = 0 => ~Closed(c, x.id))
  BY <1>2, <1>7, CopiesAre
<1>9. v.rev >= Advertised(q, x.id)
  <2>1. x.ver.rev >= Advertised(q, x.id)
    BY DEF HInv, PageIsCurrent
  <2>2. v.rev \in Nat /\ x.ver.rev \in Nat
    BY <1>2, <1>8, VersionFields
  <2> QED
    BY <1>6, <1>7, <2>1, <2>2
<1>10. y \in Copy
  BY <1>2, <1>7, <1>8 DEF Copy
<1>11. u \in PageStates /\ u.claims = q.claims /\ u.got = (q.got \ {x}) \cup {y}
  BY <1>2, <1>10 DEF PageStates
<1>12. Collects(c, u)
  BY <1>2, <1>8, <1>9, <1>11 DEF Collects
<1> QED
  BY <1>3, <1>4, <1>6, <1>12, PageKeeps

LEMMA RetryKeeps ==
    ASSUME HInv, NEW c \in Clients, Retry(c)
    PROVE  HInv' /\ AllAdvance
<1> DEFINE q == page[c]
           others(i) == {p \in Full(q, i) : [by |-> p, id |-> i] \notin q.tried}
           open == {i \in Wanted(q) : others(i) # {} /\ \A x \in q.got : x.id # i}
<1>1. Shapes
  BY DEF HInv
<1>2. q \in PageStates /\ q.claims \in SUBSET Claim
  BY <1>1, PageFields
<1>3. IsMember(c)
  BY PagingMembers DEF NoPage, Retry
<1>4. UNCHANGED <<world, posted, held, net, node, roster, forgot, exposed>>
  BY DEF Retry
<1>5. PICK pick \in [open -> Holders(c)] :
        page' = [page EXCEPT ![c] = [q EXCEPT !.phase = "retry",
                                       !.asked = {[by |-> pick[i], id |-> i] : i \in open}]]
  BY DEF Retry
<1>6. Holders(c) \subseteq Clients \cup {Node}
  BY <1>1, RosterFields DEF Holders
<1>7. open \subseteq Ids
  <2>1. Wanted(q) \subseteq {k.id : k \in q.claims}
    BY NewestAre DEF Wanted
  <2> QED
    BY <1>2, <2>1 DEF Claim
<1> DEFINE u == [q EXCEPT !.phase = "retry", !.asked = {[by |-> pick[i], id |-> i] : i \in open}]
<1>8. {[by |-> pick[i], id |-> i] : i \in open} \in SUBSET Ask
  <2> HIDE DEF open
  <2> QED
    BY <1>6, <1>7 DEF Ask
<1> HIDE DEF open
<1>9. u \in PageStates /\ u.claims = q.claims /\ u.got = q.got
  BY <1>2, <1>8 DEF PageStates
<1>10. Collects(c, u)
  BY <1>9 DEF Collects
<1> QED
  BY <1>3, <1>4, <1>5, <1>10, PageKeeps

LEMMA InventoriesAre ==
    ASSUME HInv, NEW p \in Clients \cup {Node}, NEW c \in Clients, NEW before, NEW inv \in Inventories(p, c, before)
    PROVE  inv \in SUBSET Claim
<1>1. Shapes /\ Joined
  BY DEF HInv
<1>2. CASE p = Node
  <2>1. inv \subseteq {[by |-> Node, id |-> r.id, rev |-> r.ver.rev] : r \in node}
    BY <1>2 DEF Inventories
  <2>2. \A r \in node : r.id \in Ids /\ r.ver.rev \in 0..MaxRev
    BY <1>1, VersionFields DEF Shapes, Replica
  <2> QED
    BY <2>1, <2>2 DEF Claim
<1>3. CASE p # Node
  <2> DEFINE ids == IF Serves(p, c) THEN Newest(PageLimit, {j \in Readable(p, c) : j < before}) ELSE {}
  <2>1. p \in Clients
    BY <1>3
  <2>2. inv = {[by |-> p, id |-> i, rev |-> held[p][i].rev] : i \in ids}
    BY <1>3 DEF Inventories
  <2>3. ids \subseteq Held(p)
    <3>1. Newest(PageLimit, {j \in Readable(p, c) : j < before}) \subseteq {j \in Readable(p, c) : j < before}
      BY NewestAre
    <3>2. Readable(p, c) \subseteq Held(p)
      BY <1>1, <2>1, ReadableAre
    <3> QED
      BY <3>1, <3>2
  <2>4. \A i \in ids : i \in Ids /\ held[p][i].rev \in 0..MaxRev
    BY <1>1, <2>1, <2>3, Holding, VersionFields
  <2> HIDE DEF ids
  <2> QED
    BY <2>1, <2>2, <2>4 DEF Claim
<1> QED
  BY <1>2, <1>3

LEMMA StartPageKeeps ==
    ASSUME HInv, NEW c \in Clients, StartPage(c)
    PROVE  HInv' /\ AllAdvance
<1>1. Shapes
  BY DEF HInv
<1>2. IsMember(c) /\ UNCHANGED <<world, posted, held, net, node, roster, forgot, exposed>>
  BY DEF StartPage
<1>3. PICK answering \in SUBSET Holders(c) :
         \E inv \in (IF Node \in answering THEN Inventories(Node, c, Older(c)) ELSE {{}}) :
           \E q \in {FirstRound(c, answering, inv)} : \E pick \in [Wanted(q) -> Holders(c)] :
             page' = [page EXCEPT ![c] = Assigned(q, pick)]
  BY DEF StartPage
<1>4. PICK inv \in (IF Node \in answering THEN Inventories(Node, c, Older(c)) ELSE {{}}) :
         \E q \in {FirstRound(c, answering, inv)} : \E pick \in [Wanted(q) -> Holders(c)] :
           page' = [page EXCEPT ![c] = Assigned(q, pick)]
  BY <1>3
<1>5. PICK q \in {FirstRound(c, answering, inv)} : \E pick \in [Wanted(q) -> Holders(c)] :
           page' = [page EXCEPT ![c] = Assigned(q, pick)]
  BY <1>4
<1> DEFINE claims == inv \cup UNION {UNION Inventories(p, c, Older(c)) : p \in answering \ {Node}}
<1>6. Holders(c) \subseteq Clients \cup {Node}
  BY <1>1, RosterFields DEF Holders
<1>7. claims \in SUBSET Claim
  <2>1. inv \in SUBSET Claim
    BY <1>4, InventoriesAre
  <2>2. \A p \in answering \ {Node} : UNION Inventories(p, c, Older(c)) \subseteq Claim
    BY <1>6, InventoriesAre
  <2> QED
    BY <2>1, <2>2
<1>8. Older(c) \in Nat
  <2>1. Held(c) \in SUBSET Ids
    BY <1>1, Holding
  <2>2. Held(c) # {} => Min(Held(c)) \in Held(c)
    BY <2>1, MinIs DEF Ids
  <2> QED
    BY <2>1, <2>2, Sizes DEF Older, Ids
<1>9. PICK pick \in [Wanted(q) -> Holders(c)] : page' = [page EXCEPT ![c] = Assigned(q, pick)]
  BY <1>5
<1>10. q = [NoPage EXCEPT !.phase = "first", !.before = Older(c), !.answered = answering # {}, !.claims = claims]
  BY <1>5 DEF FirstRound
<1> HIDE DEF claims
<1>11. q \in PageStates /\ q.claims = claims /\ q.got = {}
  BY <1>7, <1>8, <1>10 DEF PageStates, NoPage
<1>12. Wanted(q) \subseteq Ids
  <2>1. Wanted(q) \subseteq {k.id : k \in q.claims}
    BY NewestAre DEF Wanted
  <2> QED
    BY <1>7, <1>11, <2>1 DEF Claim
<1> DEFINE asked == {[by |-> pick[i], id |-> i] : i \in Wanted(q)}
           u == [q EXCEPT !.asked = asked]
<1>13. asked \in SUBSET Ask
  <2>1. \A i \in Wanted(q) : i \in Ids /\ pick[i] \in Clients \cup {Node}
    BY <1>6, <1>9, <1>12
  <2> QED
    BY <2>1 DEF Ask
<1> HIDE DEF asked
<1>14. u \in PageStates /\ u.got = {}
  BY <1>11, <1>13 DEF PageStates
<1>15. Collects(c, u)
  BY <1>14 DEF Collects
<1>16. page' = [page EXCEPT ![c] = u]
  BY <1>9 DEF asked, Assigned
<1> QED
  BY <1>2, <1>15, <1>16, PageKeeps

\* The end of a page: copies that were seen are merged.
LEMMA MergedKeeps ==
    ASSUME HInv, NEW c \in Clients, IsMember(c), NEW copies,
           \A x \in copies : x.id \in Ids /\ x.ver \in Seen(x.id) /\ (world.window = 0 => ~Closed(c, x.id)),
           held' = [held EXCEPT ![c] = MergedWith(c, copies)], page' = [page EXCEPT ![c] = NoPage],
           UNCHANGED <<world, posted, net, node, roster, forgot, exposed>>
    PROVE  HInv' /\ AllAdvance
<1>1. Shapes /\ PageIsCurrent
  BY DEF HInv
<1> DEFINE first(i) == (CHOOSE x \in copies : x.id = i).ver
<1>2. ASSUME NEW i \in Ids
      PROVE  \/ MergedWith(c, copies)[i] = held[c][i]
             \/ /\ MergedWith(c, copies)[i] \in Seen(i)
                /\ held[c][i] = None \/ MergedWith(c, copies)[i].rev > held[c][i].rev
                /\ world.window = 0 => ~Closed(c, i)
  <2>1. CASE \E x \in copies : x.id = i
    <3>1. PICK x \in copies : x.id = i /\ first(i) = x.ver
      BY <2>1
    <3>2. MergedWith(c, copies)[i] = Merged(held[c][i], first(i))
      BY <2>1 DEF MergedWith
    <3> QED
      BY <3>1, <3>2 DEF Merged
  <2>2. CASE ~\E x \in copies : x.id = i
    BY <2>2 DEF MergedWith
  <2> QED
    BY <2>1, <2>2
<1>3. MergedWith(c, copies) \in [Ids -> Version \cup {None}]
  <2>1. \A i \in Ids : MergedWith(c, copies)[i] \in Version \cup {None}
    BY <1>1, <1>2, Holding, SeenAre
  <2> QED
    BY <2>1 DEF MergedWith
<1>4. /\ held' \in [Clients -> [Ids -> Version \cup {None}]]
      /\ held'[c] = MergedWith(c, copies) /\ \A d \in Clients : d # c => held'[d] = held[d]
  BY <1>1, <1>3 DEF Shapes
<1>5. NoPage \in PageStates /\ NoPage.got = {}
  BY DEF NoPage, PageStates
<1>6. /\ page' \in [Clients -> PageStates]
      /\ \A d \in Clients : page'[d] = page[d] \/ page'[d].got = {}
      /\ \A d \in Clients : d # c => page'[d] = page[d]
  BY <1>1, <1>5 DEF Shapes
<1>7. Shapes'
  BY <1>1, <1>4, <1>6 DEF Shapes
<1>8. Copying
  <2>1. \A d \in Clients, i \in Ids : Moved(d, i)
    BY <1>2, <1>4 DEF Moved
  <2> QED
    BY <1>6, <2>1 DEF Copying
<1>9. PageIsCurrent'
  <2> SUFFICES ASSUME NEW d \in Clients, NEW x \in page'[d].got
               PROVE  x.ver.rev >= Advertised(page'[d], x.id)
    BY DEF PageIsCurrent
  <2>1. page'[d] = page[d]
    BY <1>6
  <2> QED
    BY <1>1, <2>1 DEF PageIsCurrent
<1>10. NewReplicas /\ NonMembersRest
  BY <1>4, <1>6 DEF NewReplicas, NonMembersRest
<1>11. world.window = 0 => InBounds
  <2>1. ASSUME world.window = 0, NEW d \in Clients, NEW i \in Ids, held'[d][i] # held[d][i] PROVE ~Closed(d, i)
    BY <1>2, <1>4, <2>1
  <2> QED
    BY <1>6, <2>1 DEF InBounds
<1> QED
  BY <1>7, <1>8, <1>9, <1>10, <1>11, QuietKeeps

LEMMA MergeKeeps ==
    ASSUME HInv, NEW c \in Clients, Merge(c)
    PROVE  HInv' /\ AllAdvance
<1>1. Shapes
  BY DEF HInv
<1>2. IsMember(c)
  BY PagingMembers DEF NoPage, Merge
<1>3. \A x \in page[c].got : x.id \in Ids /\ x.ver \in Seen(x.id) /\ (world.window = 0 => ~Closed(c, x.id))
  <2>1. page[c].got \subseteq Copy
    BY <1>1, PageFields
  <2> QED
    BY <1>1, <2>1, SeenAre DEF Copy, HInv, Bounded
<1> QED
  BY <1>2, <1>3, MergedKeeps DEF Merge

LEMMA MergeFromOwnerKeeps ==
    ASSUME HInv, NEW c \in Clients, MergeFromOwner(c)
    PROVE  HInv' /\ AllAdvance
<1> DEFINE ids == Newest(PageLimit, {i \in Readable(Owner, c) : i < page[c].before})
           copies == {[by |-> Owner, id |-> i, ver |-> held[Owner][i]] : i \in ids}
<1>1. Shapes /\ Joined
  BY DEF HInv
<1>2. IsMember(c)
  BY PagingMembers DEF NoPage, MergeFromOwner
<1>3. /\ held' = [held EXCEPT ![c] = MergedWith(c, copies)] /\ page' = [page EXCEPT ![c] = NoPage]
      /\ UNCHANGED <<world, posted, net, node, roster, forgot, exposed>>
  BY DEF MergeFromOwner
<1>4. ids \subseteq Readable(Owner, c)
  BY NewestAre
<1> HIDE DEF ids
<1>5. \A i \in ids : i \in Ids /\ held[Owner][i] \in Seen(i) /\ (world.window = 0 => ~Closed(c, i))
  BY <1>1, <1>4, OwnerThere, ReadableAre, Holding, SeenAre
<1>6. \A x \in copies : x.id \in Ids /\ x.ver \in Seen(x.id) /\ (world.window = 0 => ~Closed(c, x.id))
  BY <1>5
<1> HIDE DEF copies
<1> QED
  BY <1>2, <1>3, <1>6, MergedKeeps

----------------------------------------------------------------------------
(* The author. *)

\* A version is made of a message nobody has, or of the copy its author has.
LEMMA IssueKeeps ==
    ASSUME HInv, NEW w \in Clients, w \in world.writers, IsMember(w), NEW i \in Ids, NEW v \in Version,
           NEW kind \in {"send", "edit", "delete"}, Issue(w, i, kind, v),
           posted' \in 0..MaxMsgs, posted' >= posted, i <= posted',
           exposed' \in SUBSET Ids, exposed \subseteq exposed',
           \A x \in Clients : i < Since(x) => i \in exposed',
           \/ Seen(i) = {} /\ held[w][i] = None
           \/ held[w][i] # None /\ v.rev > held[w][i].rev /\ (held[w][i].gone => v.gone)
    PROVE  HInv' /\ AllAdvance
<1>1. Shapes /\ Latest /\ Numbered /\ Joined /\ Epochs /\ Informed /\ PageIsCurrent
  BY DEF HInv
<1>2. Epoch(w) \in Nat /\ Epoch(w) <= Epoch(Owner)
  BY <1>1, EpochIs
<1>3. roster[w].knows \subseteq Clients /\ \A c \in roster[w].knows : IsMember(c)
  BY <1>1, RosterFields DEF Joined
<1> DEFINE sent == {[to |-> c, kind |-> kind, id |-> i, ver |-> v, epoch |-> Epoch(w)] : c \in roster[w].knows \ {w}}
           kept == [id |-> i, ver |-> v, epoch |-> Epoch(w)]
<1>4. /\ held' = [held EXCEPT ![w][i] = v]
      /\ net' = net \cup sent
      /\ node' \subseteq node \cup {kept} /\ node \subseteq node'
      /\ UNCHANGED <<world, roster, page, bounds, forgot>>
  BY DEF Issue
<1>5. \A k \in sent : k.to \in Clients /\ IsMember(k.to) /\ k.kind = kind /\ k.id = i /\ k.ver = v /\ k.epoch = Epoch(w)
                      /\ k \in Packet
  BY <1>2, <1>3 DEF Packet
<1>6. kept.id = i /\ kept.ver = v /\ kept.epoch = Epoch(w) /\ kept \in Replica
  BY <1>2 DEF Replica
<1> HIDE DEF sent, kept
<1>7. /\ held' \in [Clients -> [Ids -> Version \cup {None}]]
      /\ held'[w][i] = v
      /\ \A d \in Clients, j \in Ids : d # w \/ j # i => held'[d][j] = held[d][j]
      /\ \A d \in Clients : d # w => held'[d] = held[d]
  BY <1>1, <1>4, OneChanged
<1>8. Shapes'
  BY <1>1, <1>4, <1>5, <1>6, <1>7 DEF Shapes
<1>9. ASSUME NEW j \in Ids, NEW u \in Seen(j)' PROVE u \in Seen(j) \/ (j = i /\ u = v)
  <2>1. CASE \E c \in Clients : u = held'[c][j] /\ u # None
    BY <1>1, <1>7, <2>1, SeenAre
  <2>2. CASE \E k \in net' : k.id = j /\ u = k.ver
    BY <1>1, <1>4, <1>5, <2>2, SeenAre
  <2>3. CASE \E r \in node' : r.id = j /\ u = r.ver
    BY <1>1, <1>4, <1>6, <2>3, SeenAre
  <2>4. CASE \E c \in Clients : \E x \in page[c].got : x.id = j /\ u = x.ver
    BY <1>1, <2>4, SeenAre
  <2> QED
    BY <1>4, <1>9, <2>1, <2>2, <2>3, <2>4 DEF Seen
<1>10. Numbered'
  <2> SUFFICES ASSUME NEW j \in Ids, j > posted' PROVE Seen(j)' = {}
    BY DEF Numbered
  <2>1. j > posted /\ j # i
    BY <1>1, Sizes DEF Shapes, Ids
  <2> QED
    BY <1>1, <1>9, <2>1 DEF Numbered
<1>11. ASSUME NEW a \in Clients, NEW j \in Ids, SolelyBy(a, j)'
       PROVE  Lasting(Seen(j))' /\ Leads(held[a][j], Seen(j))'
  <2>1. SolelyBy(a, j) /\ a = w
    BY <1>4, <1>11 DEF SolelyBy
  <2>2. Lasting(Seen(j)) /\ Leads(held[a][j], Seen(j))
    BY <1>1, <2>1 DEF Latest
  <2>3. CASE j # i
    <3>1. Seen(j)' \subseteq Seen(j) /\ held'[a][j] = held[a][j]
      BY <1>7, <1>9, <2>3
    <3> QED
      BY <2>2, <3>1 DEF Lasting, Leads
  <2>4. CASE j = i
    <3>1. Seen(i) \subseteq Version /\ v.rev \in Nat /\ v # None /\ \A u \in Seen(i) : u.rev \in Nat
      BY <1>1, SeenAre, VersionFields, NoneIsNoVersion
    <3>2. ASSUME NEW u \in Seen(i) PROVE u.rev < v.rev /\ (u.gone => v.gone)
      <4>1. held[w][i] # None /\ v.rev > held[w][i].rev /\ (held[w][i].gone => v.gone)
        BY <3>2
      <4>2. held[w][i] \in Seen(i) /\ u.rev <= held[w][i].rev
        BY <1>1, <2>1, <2>2, <2>4, <4>1, SeenAre DEF Leads
      <4>3. u.gone => held[w][i].gone
        BY <2>2, <2>4, <4>2 DEF Lasting
      <4> QED
        BY <3>1, <4>1, <4>2, <4>3
    <3>3. \A u \in Seen(i)' : u \in Seen(i) \/ u = v
      BY <1>9
    <3>4. Lasting(Seen(i))'
      <4> SUFFICES ASSUME NEW x \in Seen(i)', NEW y \in Seen(i)', x.gone, x.rev <= y.rev PROVE y.gone
        BY DEF Lasting
      <4>1. CASE y = v
        BY <3>2, <3>3, <4>1
      <4>2. CASE y \in Seen(i) /\ x = v
        <5>1. y.rev < v.rev /\ v.rev <= y.rev
          BY <3>2, <4>2
        <5> QED
          BY <3>1, <4>2, <5>1
      <4>3. CASE y \in Seen(i) /\ x \in Seen(i)
        BY <2>2, <2>4, <4>3 DEF Lasting
      <4> QED
        BY <3>3, <4>1, <4>2, <4>3
    <3>5. Leads(held[w][i], Seen(i))'
      <4> SUFFICES ASSUME NEW x \in Seen(i)' PROVE held'[w][i] # None /\ x.rev <= held'[w][i].rev
        BY DEF Leads
      <4>1. x.rev <= v.rev
        BY <3>1, <3>2, <3>3
      <4> QED
        BY <1>7, <3>1, <4>1
    <3> QED
      BY <2>1, <2>4, <3>4, <3>5
  <2> QED
    BY <2>3, <2>4
<1>12. Latest'
  BY <1>11 DEF Latest
<1>13. AllAdvance
  <2> SUFFICES ASSUME NEW c \in Clients, NEW j \in Ids PROVE Advances(c, j)
    BY DEF AllAdvance
  <2>1. CASE c # w \/ j # i
    <3>1. held'[c][j] = held[c][j]
      BY <1>7, <2>1
    <3> QED
      BY <3>1 DEF Advances
  <2>2. CASE c = w /\ j = i
    <3>1. held'[c][j] = v
      BY <1>7, <2>2
    <3> QED
      BY <2>2, <3>1 DEF Advances
  <2> QED
    BY <2>1, <2>2
<1>14. NewPackets /\ NewReplicas /\ NonMembersRest
  BY <1>2, <1>4, <1>5, <1>6, <1>7 DEF NewPackets, NewReplicas, NonMembersRest
<1>15. Joined' /\ Epochs' /\ Informed'
  BY <1>1, <1>4, <1>8, <1>14, RostersStay
<1>16. PageIsCurrent'
  BY <1>1, <1>4, PagesStayCurrent
<1>17. world.window = 0 => InBounds
  <2>1. ASSUME NEW x \in Clients PROVE ~Closed(x, i) \/ i \in exposed'
    BY DEF Closed
  <2>2. Sealed(i, Epoch(w)) \/ i \in exposed'
    BY <2>1 DEF Sealed
  <2>3. \A k \in net' : k \in net \/ Sealed(k.id, k.epoch) \/ k.id \in exposed'
    BY <1>4, <1>5, <2>2
  <2>4. \A r \in node' : r \in node \/ Sealed(r.id, r.epoch) \/ r.id \in exposed'
    BY <1>4, <1>6, <2>2
  <2>5. \A c \in Clients, j \in Ids : held'[c][j] # held[c][j] => ~Closed(c, j) \/ j \in exposed'
    BY <1>7, <2>1
  <2> QED
    BY <1>4, <2>3, <2>4, <2>5 DEF InBounds
<1>18. world'.window = 0 => Bounded'
  BY <1>1, <1>4, <1>8, <1>17, BoundsStay DEF HInv
<1> QED
  BY <1>8, <1>10, <1>12, <1>13, <1>15, <1>16, <1>18 DEF HInv

LEMMA PostKeeps ==
    ASSUME HInv, NEW w \in Clients, Post(w)
    PROVE  HInv' /\ AllAdvance
<1>1. Shapes /\ Numbered /\ Joined
  BY DEF HInv
<1>2. /\ w \in world.writers /\ IsMember(w) /\ posted < world.msgs /\ posted' = posted + 1
      /\ Issue(w, posted + 1, "send", First(w)) /\ exposed' = exposed
  BY DEF Post
<1>3. world.msgs \in 0..MaxMsgs /\ posted \in 0..MaxMsgs
  BY <1>1 DEF Shapes, World
<1>4. posted + 1 \in Ids /\ posted' \in 0..MaxMsgs /\ posted' >= posted /\ posted + 1 <= posted'
  BY <1>2, <1>3, Sizes DEF Ids
<1>5. First(w) \in Version
  BY Sizes DEF First, Version, Stamp
<1>6. Seen(posted + 1) = {} /\ held[w][posted + 1] = None
  <2>1. Seen(posted + 1) = {}
    BY <1>1, <1>3, <1>4, Sizes DEF Numbered
  <2> QED
    BY <1>1, <1>4, <2>1, SeenAre
<1>7. \A x \in Clients : ~(posted + 1 < Since(x))
  <2>1. \A x \in Clients : Since(x) \in Nat /\ Since(x) <= posted + 1
    BY <1>1, RosterFields, OwnerThere DEF Joined, Since
  <2> QED
    BY <1>3, <2>1, Sizes
<1>8. exposed \in SUBSET Ids
  BY <1>1 DEF Shapes
<1> QED
  BY <1>2, <1>4, <1>5, <1>6, <1>7, <1>8, IssueKeeps

LEMMA ReviseKeeps ==
    ASSUME HInv, NEW w \in Clients, NEW i \in Ids, NEW kind \in {"edit", "delete"}, NEW v,
           held[w][i] \in Version /\ held[w][i].rev < MaxRev =>
             v \in Version /\ v.rev = held[w][i].rev + 1 /\ (held[w][i].gone => v.gone),
           Revise(w, i, kind, v)
    PROVE  HInv' /\ AllAdvance
<1>1. Shapes /\ Numbered /\ Joined
  BY DEF HInv
<1>2. /\ w \in world.writers /\ i \in Held(w) /\ held[w][i].rev < world.revs /\ posted' = posted
      /\ Issue(w, i, kind, v) /\ exposed' = IF Bars(i) THEN exposed \cup {i} ELSE exposed
  BY DEF Revise
<1>3. held[w][i] \in Version /\ held[w][i] # None /\ held[w][i].rev \in Nat
  BY <1>1, <1>2, Holding, VersionFields
<1>4. held[w][i].rev < MaxRev
  <2>1. world.revs \in 0..MaxRev
    BY <1>1 DEF Shapes, World
  <2> QED
    BY <1>2, <1>3, <2>1, Sizes
<1>5. v \in Version /\ v.rev > held[w][i].rev /\ (held[w][i].gone => v.gone)
  BY <1>3, <1>4
<1>6. IsMember(w)
  BY <1>1, <1>2 DEF Joined
<1>7. posted \in 0..MaxMsgs /\ i <= posted /\ posted' >= posted
  <2>1. held[w][i] \in Seen(i)
    BY <1>1, <1>3, SeenAre
  <2> QED
    BY <1>1, <1>2, <2>1, Sizes DEF Numbered, Ids, Shapes
<1>8. exposed' \in SUBSET Ids /\ exposed \subseteq exposed'
  BY <1>1, <1>2 DEF Shapes
<1>9. \A x \in Clients : i < Since(x) => i \in exposed'
  <2>1. \A x \in Clients : Since(x) \in Nat /\ i \in Nat
    BY <1>1, RosterFields, OwnerThere DEF Since, Ids
  <2>2. (\E x \in Clients : i < Since(x)) => Bars(i)
    BY <2>1 DEF Bars, Since
  <2> QED
    BY <1>2, <2>2
<1> QED
  BY <1>2, <1>3, <1>5, <1>6, <1>7, <1>8, <1>9, IssueKeeps

LEMMA EditKeeps ==
    ASSUME HInv, NEW w \in Clients, NEW i \in Ids, EditMessage(w, i)
    PROVE  HInv' /\ AllAdvance
<1> DEFINE h == held[w][i]
           v == Edited(w, h)
<1>1. ASSUME h \in Version, h.rev < MaxRev PROVE v \in Version /\ v.rev = h.rev + 1 /\ (h.gone => v.gone)
  <2>1. h.rev + 1 \in 0..MaxRev /\ h.gone \in BOOLEAN
    BY <1>1, VersionFields, Sizes
  <2> HIDE DEF h
  <2> QED
    BY <2>1 DEF Edited, Version, Stamp
<1>2. Revise(w, i, "edit", v)
  BY DEF EditMessage
<1> HIDE DEF v
<1> QED
  BY <1>1, <1>2, ReviseKeeps

LEMMA DeleteKeeps ==
    ASSUME HInv, NEW w \in Clients, NEW i \in Ids, DeleteMessage(w, i)
    PROVE  HInv' /\ AllAdvance
<1> DEFINE h == held[w][i]
           v == Deleted(w, h)
<1>1. ASSUME h \in Version, h.rev < MaxRev PROVE v \in Version /\ v.rev = h.rev + 1 /\ (h.gone => v.gone)
  <2>1. h.rev + 1 \in 0..MaxRev /\ h.gone \in BOOLEAN
    BY <1>1, VersionFields, Sizes
  <2> HIDE DEF h
  <2> QED
    BY <1>1, <2>1 DEF Deleted, Version
<1>2. Revise(w, i, "delete", v)
  BY DEF DeleteMessage
<1> HIDE DEF v
<1> QED
  BY <1>1, <1>2, ReviseKeeps

----------------------------------------------------------------------------
(* Joins and re-pulls: what the owner answers is added to a store. *)

LEMMA AddedIs ==
    ASSUME Shapes, NEW c \in Clients, NEW ids, ids \subseteq Held(Owner),
           held' = [held EXCEPT ![c] = Added(@, ids, Owner)]
    PROVE  /\ held' \in [Clients -> [Ids -> Version \cup {None}]]
           /\ \A d \in Clients : d # c => held'[d] = held[d]
           /\ \A i \in Ids : held'[c][i] = held[c][i] \/ (i \in ids /\ held[c][i] = None /\ held'[c][i] \in Seen(i))
<1>1. held'[c] = Added(held[c], ids, Owner) /\ \A d \in Clients : d # c => held'[d] = held[d]
  BY DEF Shapes
<1>2. ASSUME NEW i \in Ids
      PROVE  \/ Added(held[c], ids, Owner)[i] = held[c][i]
             \/ i \in ids /\ held[c][i] = None /\ Added(held[c], ids, Owner)[i] \in Seen(i)
  <2>1. i \in ids => held[Owner][i] \in Seen(i)
    BY OwnerThere, Holding, SeenAre
  <2> QED
    BY <2>1 DEF Added
<1>3. Added(held[c], ids, Owner) \in [Ids -> Version \cup {None}]
  <2>1. \A i \in Ids : Added(held[c], ids, Owner)[i] \in Version \cup {None}
    BY <1>2, Holding, SeenAre
  <2> QED
    BY <2>1 DEF Added
<1> QED
  BY <1>1, <1>2, <1>3 DEF Shapes

LEMMA AddingCopies ==
    ASSUME Shapes, NEW c \in Clients, NEW ids, ids \subseteq Held(Owner),
           held' = [held EXCEPT ![c] = Added(@, ids, Owner)],
           roster' \in [Clients -> Rosters],
           UNCHANGED <<world, posted, net, node, page, forgot, exposed>>
    PROVE  Shapes' /\ Copying
<1>1. Shapes'
  BY AddedIs DEF Shapes
<1>2. \A d \in Clients, i \in Ids : Moved(d, i)
  BY AddedIs DEF Moved
<1> QED
  BY <1>1, <1>2 DEF Copying

\* A member takes the members and the newest key of the owner's record.
LEMMA LearningKeeps ==
    ASSUME HInv, NEW c \in Clients, IsMember(c), c # Owner, NEW r \in Rosters,
           r.knows = roster[Owner].knows, \A x \in Clients : r.since[x] \in {0, Since(x)},
           r.keys = roster[c].keys \cup {Epoch(Owner)}, roster' = [roster EXCEPT ![c] = r],
           NEW ids, ids \subseteq Held(Owner), world.window = 0 => \A i \in ids : ~Closed(c, i),
           held' = [held EXCEPT ![c] = Added(@, ids, Owner)],
           UNCHANGED <<world, posted, net, node, page, forgot, exposed>>
    PROVE  HInv' /\ AllAdvance
<1>1. Shapes /\ Latest /\ Numbered /\ Joined /\ Epochs /\ Informed /\ PageIsCurrent
  BY DEF HInv
<1>2. Epoch(Owner) \in Nat /\ Epoch(Owner) \in roster[Owner].keys /\ Owner \in Clients
  BY <1>1, EpochIs, OwnerThere
<1>5. roster' \in [Clients -> Rosters] /\ roster'[c] = r /\ \A d \in Clients : d # c => roster'[d] = roster[d]
  BY <1>1 DEF Shapes
<1>6. Shapes' /\ Copying
  BY <1>1, <1>5, AddingCopies
<1>7. Latest' /\ Numbered' /\ AllAdvance
  BY <1>1, <1>6, CopyingKeeps
<1>8. roster'[Owner] = roster[Owner]
  BY <1>2, <1>5
<1>9. (\A x \in Clients : Since(x)' = Since(x)) /\ Epoch(Owner)' = Epoch(Owner)
  BY <1>8 DEF Since, Epoch
<1>10. \A d \in Clients : IsMember(d)' <=> IsMember(d)
  <2>1. r # NotIn
    <3>1. NotIn.keys = {}
      BY DEF NotIn
    <3> QED
      BY <3>1
  <2> QED
    BY <1>5, <2>1 DEF IsMember, NotIn
\* Whoever has the newest key had one before that is no later.
<1>11. \A x \in Clients : \A k \in roster'[x].keys :
         \E old \in roster[x].keys : old \in Nat /\ k \in Nat /\ old <= k /\ old <= Epoch(Owner)
  <2> SUFFICES ASSUME NEW x \in Clients, NEW k \in roster'[x].keys
               PROVE  \E old \in roster[x].keys : old \in Nat /\ k \in Nat /\ old <= k /\ old <= Epoch(Owner)
    OBVIOUS
  <2>1. CASE k \in roster[x].keys
    <3>1. k \in Nat /\ k <= Epoch(Owner)
      BY <1>1, <2>1, EpochIs
    <3> QED
      BY <2>1, <3>1
  <2>2. CASE k \notin roster[x].keys
    <3>1. x = c /\ k = Epoch(Owner)
      BY <1>5, <2>2
    <3>2. PICK old \in roster[c].keys : TRUE
      BY <1>1 DEF Joined
    <3>3. old \in Nat /\ old <= Epoch(Owner)
      BY <1>1, <3>2, EpochIs
    <3> QED
      BY <1>2, <3>1, <3>2, <3>3
  <2> QED
    BY <2>1, <2>2
<1>12. Joined'
  <2>1. IsMember(Owner)' /\ Since(Owner)' = 0
    BY <1>1, <1>2, <1>9, <1>10 DEF Joined
  <2>2. \A d \in Clients : IsMember(d)' => roster'[d].keys # {} /\ (d # Owner => Since(d)' > 0)
    BY <1>1, <1>5, <1>9, <1>10 DEF Joined
  <2>3. \A d \in Clients : ~IsMember(d)' => Held(d)' = {} /\ page'[d] = NoPage /\ Since(d)' = 0
    <3> SUFFICES ASSUME NEW d \in Clients, ~IsMember(d)'
                 PROVE  Held(d)' = {} /\ page'[d] = NoPage /\ Since(d)' = 0
      OBVIOUS
    <3>1. ~IsMember(d) /\ d # c
      BY <1>10
    <3>2. held'[d] = held[d]
      BY <1>1, <3>1, AddedIs
    <3> QED
      BY <1>1, <1>9, <3>1, <3>2 DEF Joined, Held
  <2>4. \A d, x \in Clients : x \in roster'[d].knows => IsMember(x)'
    BY <1>1, <1>2, <1>5, <1>10 DEF Joined
  <2>5. \A d, x \in Clients : roster'[d].since[x] \in {0, Since(x)'}
    BY <1>1, <1>5, <1>9 DEF Joined
  <2>6. \A d \in Clients : Since(d)' <= posted' + 1
    BY <1>1, <1>9 DEF Joined
  <2>7. \A k \in net' : IsMember(k.to)'
    <3>1. \A k \in net : IsMember(k.to) /\ k.to \in Clients
      BY <1>1 DEF Joined, Shapes, Packet
    <3> QED
      BY <1>10, <3>1
  <2> QED
    BY <2>1, <2>2, <2>3, <2>4, <2>5, <2>6, <2>7 DEF Joined
<1>13. Epochs'
  <2>1. \A d \in Clients : \A k \in roster'[d].keys : k <= Epoch(Owner)'
    BY <1>1, <1>2, <1>5, <1>9 DEF Epochs
  <2> QED
    BY <1>1, <1>8, <1>9, <2>1 DEF Epochs
<1>14. Informed'
  <2> SUFFICES ASSUME NEW d \in Clients, NEW x \in Clients, NEW k \in roster'[x].keys, NEW e \in roster'[d].keys,
                      k <= e
               PROVE  x \in roster'[d].knows
    BY DEF Informed
  <2>1. PICK old \in roster[x].keys : old \in Nat /\ k \in Nat /\ old <= k /\ old <= Epoch(Owner)
    BY <1>11
  <2>2. CASE d = c
    <3>1. x \in roster[Owner].knows
      BY <1>1, <1>2, <2>1 DEF Informed
    <3> QED
      BY <1>5, <2>2, <3>1
  <2>3. CASE d # c
    <3>1. e \in roster[d].keys /\ e \in Nat
      BY <1>1, <1>5, <2>3, EpochIs
    <3>2. old <= e
      BY <2>1, <3>1
    <3> QED
      BY <1>1, <1>5, <2>1, <2>3, <3>1, <3>2 DEF Informed
  <2> QED
    BY <2>2, <2>3
<1>15. PageIsCurrent'
  BY <1>1, PagesStayCurrent
<1>16. ASSUME world.window = 0 PROVE Bounded'
  <2>1. Bounded
    BY <1>16 DEF HInv
  <2>2. \A x \in Clients : \A i : Closed(x, i)' <=> Closed(x, i)
    BY <1>9 DEF Closed
  <2>3. ASSUME NEW i, NEW e \in Nat, Sealed(i, e) PROVE Sealed(i, e)'
    <3> SUFFICES ASSUME NEW x \in Clients, NEW k \in roster'[x].keys, k <= e PROVE ~Closed(x, i)'
      BY DEF Sealed
    <3>1. PICK old \in roster[x].keys : old \in Nat /\ k \in Nat /\ old <= k /\ old <= Epoch(Owner)
      BY <1>11
    <3>2. ~Closed(x, i)
      BY <2>3, <3>1 DEF Sealed
    <3> QED
      BY <2>2, <3>2
  <2>4. (\A k \in net : k.epoch \in Nat) /\ (\A s \in node : s.epoch \in Nat)
    BY <1>1 DEF Shapes, Packet, Replica
  <2>5. (\A k \in net' : Sealed(k.id, k.epoch)') /\ (\A s \in node' : Sealed(s.id, s.epoch)')
    BY <2>1, <2>3, <2>4 DEF Bounded
  <2>6. ASSUME NEW d \in Clients, NEW i \in Held(d)' PROVE ~Closed(d, i)'
    <3>1. i \in Ids /\ held'[d][i] # None
      BY <2>6 DEF Held
    <3>2. held'[d][i] = held[d][i] \/ (d = c /\ i \in ids)
      BY <1>1, <3>1, AddedIs
    <3>3. ~Closed(d, i)
      BY <1>16, <2>1, <3>1, <3>2 DEF Bounded, Held
    <3> QED
      BY <2>2, <3>3
  <2>7. \A d \in Clients : \A x \in page'[d].got : ~Closed(d, x.id)'
    BY <2>1, <2>2 DEF Bounded
  <2> QED
    BY <2>5, <2>6, <2>7 DEF Bounded
<1> QED
  BY <1>6, <1>7, <1>12, <1>13, <1>14, <1>15, <1>16 DEF HInv

LEMMA LearnJoinKeeps ==
    ASSUME HInv, NEW c \in Clients, LearnJoin(c)
    PROVE  HInv' /\ AllAdvance
<1>1. Shapes /\ Joined /\ Epochs
  BY DEF HInv
<1>2. IsMember(c) /\ c # Owner /\ UNCHANGED <<world, posted, held, net, node, page, forgot, exposed>>
  BY DEF LearnJoin
<1> DEFINE knows == roster[Owner].knows
           keys == roster[c].keys \cup {Epoch(Owner)}
           r == [roster[c] EXCEPT !.knows = knows, !.keys = keys]
<1>3. roster[c] \in Rosters /\ roster[c].since \in [Clients -> Nat] /\ \A x \in Clients : roster[c].since[x] \in {0, Since(x)}
  BY <1>1, RosterFields DEF Joined
<1>4. knows \in SUBSET Clients /\ keys \in SUBSET Nat
  BY <1>1, OwnerThere, RosterFields, EpochIs
<1>5. roster' = [roster EXCEPT ![c] = r]
  BY <1>1 DEF LearnJoin, Shapes
<1> DEFINE ids == {}
<1>6. ids \subseteq Held(Owner) /\ (world.window = 0 => \A i \in ids : ~Closed(c, i))
      /\ held' = [held EXCEPT ![c] = Added(@, ids, Owner)]
  <2>1. held \in [Clients -> [Ids -> Version \cup {None}]]
    BY <1>1 DEF Shapes
  <2>2. Added(held[c], ids, Owner) = held[c]
    BY <2>1 DEF Added
  <2> QED
    BY <1>2, <2>1, <2>2
<1> HIDE DEF ids, knows, keys
<1>7. r \in Rosters /\ r.knows = knows /\ r.since = roster[c].since /\ r.keys = keys
  BY <1>3, <1>4 DEF Rosters
<1> HIDE DEF r
<1> QED
  BY <1>2, <1>3, <1>5, <1>6, <1>7, LearningKeeps DEF knows, keys

LEMMA RepullKeeps ==
    ASSUME HInv, NEW c \in Clients, Repull(c)
    PROVE  HInv' /\ AllAdvance
<1>1. Shapes /\ Joined /\ Epochs
  BY DEF HInv
<1>2. IsMember(c) /\ c # Owner /\ UNCHANGED <<world, posted, net, node, page, forgot, exposed>>
      /\ held' = [held EXCEPT ![c] = Added(@, Readable(Owner, c), Owner)]
  BY DEF Repull
<1> DEFINE knows == roster[Owner].knows
           since == roster[Owner].since
           keys == roster[c].keys \cup {Epoch(Owner)}
           r == [roster[c] EXCEPT !.knows = knows, !.since = since, !.keys = keys]
<1>3. roster[c] \in Rosters /\ since \in [Clients -> Nat] /\ \A x \in Clients : since[x] \in {0, Since(x)}
  BY <1>1, OwnerThere, RosterFields DEF Since
<1>4. knows \in SUBSET Clients /\ keys \in SUBSET Nat
  BY <1>1, OwnerThere, RosterFields, EpochIs
<1>5. roster' = [roster EXCEPT ![c] = r]
  BY <1>1 DEF Repull, Shapes
<1>6. Readable(Owner, c) \subseteq Held(Owner) /\ (world.window = 0 => \A i \in Readable(Owner, c) : ~Closed(c, i))
  BY <1>1, <1>2, OwnerThere, ReadableAre
<1> HIDE DEF knows, since, keys
<1>7. r \in Rosters /\ r.knows = knows /\ r.since = since /\ r.keys = keys
  BY <1>3, <1>4 DEF Rosters
<1> HIDE DEF r
<1> QED
  BY <1>2, <1>3, <1>5, <1>6, <1>7, LearningKeeps DEF knows, keys

\* The owner lets c in.
LEMMA JoinKeeps ==
    ASSUME HInv, NEW c \in Clients, Join(c)
    PROVE  HInv' /\ AllAdvance
<1> DEFINE own == roster[Owner]
           fresh == Epoch(Owner) + 1
           since == [own.since EXCEPT ![c] = posted + 1]
           r == [knows |-> own.knows \cup {c}, since |-> since, keys |-> own.keys \cup {fresh}]
           ids == Newest(world.window, Held(Owner))
<1>1. Shapes /\ Latest /\ Numbered /\ Joined /\ Epochs /\ Informed /\ PageIsCurrent
  BY DEF HInv
<1>2. /\ Epoch(Owner) \in Nat /\ Epoch(Owner) \in own.keys /\ Owner \in Clients
      /\ \A d \in Clients : \A k \in roster[d].keys : k \in Nat /\ k <= Epoch(Owner)
  BY <1>1, EpochIs, OwnerThere
<1>3. /\ ~IsMember(c) /\ c # Owner
      /\ roster' = [roster EXCEPT ![Owner] = r, ![c] = [r EXCEPT !.keys = {fresh}]]
      /\ held' = [held EXCEPT ![c] = Added(@, ids, Owner)]
      /\ UNCHANGED <<world, posted, net, node, page, forgot, exposed>>
  BY <1>1 DEF Join, Joined
<1>4. fresh \in Nat /\ fresh > Epoch(Owner) /\ posted \in Nat /\ posted + 1 > 0
  BY <1>1, <1>2, Sizes DEF Shapes
<1> HIDE DEF fresh
<1>5. own.knows \in SUBSET Clients /\ own.keys \in SUBSET Nat /\ own.since \in [Clients -> Nat]
  BY <1>1, <1>2, RosterFields
<1>6. since \in [Clients -> Nat] /\ since[c] = posted + 1 /\ \A x \in Clients : x # c => since[x] = Since(x)
  BY <1>4, <1>5 DEF Since
<1> HIDE DEF since
<1> DEFINE new == [r EXCEPT !.keys = {fresh}]
<1>7. /\ r \in Rosters /\ r.knows = own.knows \cup {c} /\ r.since = since /\ r.keys = own.keys \cup {fresh}
      /\ new \in Rosters /\ new.knows = own.knows \cup {c} /\ new.since = since /\ new.keys = {fresh}
  BY <1>4, <1>5, <1>6 DEF Rosters
<1> HIDE DEF r, new
<1>8. /\ roster' \in [Clients -> Rosters] /\ roster'[Owner] = r /\ roster'[c] = new
      /\ \A d \in Clients : d # c /\ d # Owner => roster'[d] = roster[d]
  BY <1>1, <1>2, <1>3, <1>7 DEF Shapes, new
<1>9. ids \subseteq Held(Owner)
  BY NewestAre
<1> HIDE DEF ids
<1>10. Shapes' /\ Copying
  BY <1>1, <1>3, <1>8, <1>9, AddingCopies
<1>11. Latest' /\ Numbered' /\ AllAdvance
  BY <1>1, <1>10, CopyingKeeps
<1>12. /\ \A x \in Clients : x # c => Since(x)' = Since(x)
       /\ Since(c)' = posted + 1
  BY <1>6, <1>7, <1>8 DEF Since
<1>13. Epoch(Owner)' = fresh /\ Capped(r.keys)
  <2>1. r.keys \in SUBSET Nat /\ r.keys # {} /\ fresh \in r.keys /\ \A k \in r.keys : k <= fresh
    BY <1>2, <1>4, <1>5, <1>7
  <2>2. Capped(r.keys)
    BY <1>4, <2>1 DEF Capped
  <2>3. Max(r.keys) \in r.keys /\ fresh <= Max(r.keys)
    BY <2>1, <2>2, MaxIs
  <2>4. Max(r.keys) = fresh
    BY <1>4, <2>1, <2>3
  <2> QED
    BY <1>8, <2>2, <2>4 DEF Epoch
<1>14. /\ IsMember(c)' /\ IsMember(Owner)'
       /\ \A d \in Clients : d # c => (IsMember(d)' <=> IsMember(d))
  <2>1. NotIn.keys = {}
    BY DEF NotIn
  <2>2. r # NotIn /\ new # NotIn
    BY <1>7, <2>1
  <2> QED
    BY <1>1, <1>8, <2>2 DEF IsMember, NotIn, Joined
\* Keys are as before, or the fresh one at the owner and the newcomer.
<1>15. \A d \in Clients : \A k \in roster'[d].keys :
         /\ k \in Nat /\ k <= fresh
         /\ (d # c /\ k \in roster[d].keys) \/ (d \in {c, Owner} /\ k = fresh)
  <2> SUFFICES ASSUME NEW d \in Clients, NEW k \in roster'[d].keys
               PROVE  /\ k \in Nat /\ k <= fresh
                      /\ (d # c /\ k \in roster[d].keys) \/ (d \in {c, Owner} /\ k = fresh)
    OBVIOUS
  <2>1. (d # c /\ k \in roster[d].keys) \/ (d \in {c, Owner} /\ k = fresh)
    BY <1>3, <1>7, <1>8
  <2>2. k \in roster[d].keys => k \in Nat /\ k <= Epoch(Owner)
    BY <1>2
  <2> QED
    BY <1>2, <1>4, <2>1, <2>2
<1>16. Joined'
  <2>1. IsMember(Owner)' /\ Since(Owner)' = 0
    BY <1>1, <1>2, <1>3, <1>12, <1>14 DEF Joined
  <2>2. \A d \in Clients : IsMember(d)' => roster'[d].keys # {} /\ (d # Owner => Since(d)' > 0)
    <3> SUFFICES ASSUME NEW d \in Clients, IsMember(d)'
                 PROVE  roster'[d].keys # {} /\ (d # Owner => Since(d)' > 0)
      OBVIOUS
    <3>1. CASE d = c
      BY <1>4, <1>7, <1>8, <1>12, <3>1
    <3>2. CASE d = Owner
      BY <1>7, <1>8, <3>2
    <3>3. CASE d # c /\ d # Owner
      BY <1>1, <1>8, <1>12, <1>14, <3>3 DEF Joined
    <3> QED
      BY <3>1, <3>2, <3>3
  <2>3. \A d \in Clients : ~IsMember(d)' => Held(d)' = {} /\ page'[d] = NoPage /\ Since(d)' = 0
    <3> SUFFICES ASSUME NEW d \in Clients, ~IsMember(d)'
                 PROVE  Held(d)' = {} /\ page'[d] = NoPage /\ Since(d)' = 0
      OBVIOUS
    <3>1. ~IsMember(d) /\ d # c
      BY <1>14
    <3>2. held'[d] = held[d]
      BY <1>1, <1>3, <1>9, <3>1, AddedIs
    <3> QED
      BY <1>1, <1>3, <1>12, <3>1, <3>2 DEF Joined, Held
  <2>4. \A d, x \in Clients : x \in roster'[d].knows => IsMember(x)'
    <3> SUFFICES ASSUME NEW d \in Clients, NEW x \in Clients, x \in roster'[d].knows, x # c PROVE IsMember(x)'
      BY <1>14
    <3>1. x \in roster[d].knows \/ x \in own.knows
      BY <1>7, <1>8
    <3> QED
      BY <1>1, <1>2, <1>14, <3>1 DEF Joined
  <2>5. \A d, x \in Clients : roster'[d].since[x] \in {0, Since(x)'}
    <3> SUFFICES ASSUME NEW d \in Clients, NEW x \in Clients PROVE roster'[d].since[x] \in {0, Since(x)'}
      OBVIOUS
    <3>1. CASE d \in {c, Owner}
      BY <1>7, <1>8, <3>1 DEF Since
    <3>2. CASE d \notin {c, Owner}
      <4>1. roster'[d] = roster[d] /\ roster[d].since[x] \in {0, Since(x)}
        BY <1>1, <1>8, <3>2 DEF Joined
      <4>2. Since(c) = 0
        BY <1>1, <1>3 DEF Joined
      <4> QED
        BY <1>12, <4>1, <4>2
    <3> QED
      BY <3>1, <3>2
  <2>6. \A d \in Clients : Since(d)' <= posted' + 1
    BY <1>1, <1>3, <1>4, <1>12 DEF Joined
  <2>7. \A k \in net' : IsMember(k.to)'
    <3>1. \A k \in net : IsMember(k.to) /\ k.to \in Clients
      BY <1>1 DEF Joined, Shapes, Packet
    <3> QED
      BY <1>3, <1>14, <3>1
  <2> QED
    BY <2>1, <2>2, <2>3, <2>4, <2>5, <2>6, <2>7 DEF Joined
<1>17. Epochs'
  <2>1. Capped(roster[Owner].keys)'
    BY <1>8, <1>13 DEF Capped
  <2>2. \A d \in Clients : \A k \in roster'[d].keys : k <= Epoch(Owner)'
    BY <1>13, <1>15
  <2>3. (\A k \in net : k.epoch \in Nat /\ k.epoch <= Epoch(Owner)) /\ (\A s \in node : s.epoch \in Nat /\ s.epoch <= Epoch(Owner))
    BY <1>1 DEF Epochs, Shapes, Packet, Replica
  <2>4. (\A k \in net' : k.epoch <= Epoch(Owner)') /\ (\A s \in node' : s.epoch <= Epoch(Owner)')
    BY <1>2, <1>3, <1>4, <1>13, <2>3
  <2> QED
    BY <2>1, <2>2, <2>4 DEF Epochs
<1>18. Informed'
  <2> SUFFICES ASSUME NEW d \in Clients, NEW x \in Clients, NEW k \in roster'[x].keys, NEW e \in roster'[d].keys,
                      k <= e
               PROVE  x \in roster'[d].knows
    BY DEF Informed
  <2>1. CASE d \in {c, Owner}
    <3>1. roster'[d].knows = own.knows \cup {c}
      BY <1>7, <1>8, <2>1
    <3>2. CASE x # c
      <4>1. \E old \in roster[x].keys : old <= Epoch(Owner)
        <5>1. CASE x = Owner
          BY <1>2, <5>1
        <5>2. CASE x # Owner
          BY <1>2, <1>15, <3>2, <5>2
        <5> QED
          BY <5>1, <5>2
      <4> QED
        BY <1>1, <1>2, <3>1, <4>1 DEF Informed
    <3> QED
      BY <3>1, <3>2
  <2>2. CASE d \notin {c, Owner}
    <3>1. roster'[d] = roster[d] /\ e \in roster[d].keys /\ e \in Nat /\ e <= Epoch(Owner)
      BY <1>2, <1>8, <2>2
    <3>2. k # fresh
      BY <1>2, <1>4, <3>1
    <3>3. k \in roster[x].keys
      BY <1>15, <3>2
    <3> QED
      BY <1>1, <3>1, <3>3 DEF Informed
  <2> QED
    BY <2>1, <2>2
<1>19. PageIsCurrent'
  BY <1>1, <1>3, PagesStayCurrent
<1>20. ASSUME world.window = 0 PROVE Bounded'
  <2>1. Bounded
    BY <1>20 DEF HInv
  <2>2. \A x \in Clients : \A i : x # c => (Closed(x, i)' <=> Closed(x, i))
    BY <1>3, <1>12 DEF Closed
  <2>3. ASSUME NEW i, NEW e \in Nat, e <= Epoch(Owner), Sealed(i, e) PROVE Sealed(i, e)'
    <3> SUFFICES ASSUME NEW x \in Clients, NEW k \in roster'[x].keys, k <= e PROVE ~Closed(x, i)'
      BY DEF Sealed
    <3>1. k # fresh
      BY <1>2, <1>4, <2>3
    <3>2. x # c /\ k \in roster[x].keys
      BY <1>15, <3>1
    <3> QED
      BY <2>2, <2>3, <3>2 DEF Sealed
  <2>4. /\ \A k \in net : k.epoch \in Nat /\ k.epoch <= Epoch(Owner)
        /\ \A s \in node : s.epoch \in Nat /\ s.epoch <= Epoch(Owner)
    BY <1>1 DEF Epochs, Shapes, Packet, Replica
  <2>5. (\A k \in net' : Sealed(k.id, k.epoch)') /\ (\A s \in node' : Sealed(s.id, s.epoch)')
    BY <1>3, <2>1, <2>3, <2>4 DEF Bounded
  <2>6. Held(c) = {} /\ page[c] = NoPage /\ ids = {}
    <3>1. Held(Owner) \in SUBSET Ids
      BY <1>1, <1>2, Holding
    <3> QED
      BY <1>1, <1>3, <1>20, <3>1, NewestOfNone DEF Joined, ids
  <2>7. ASSUME NEW d \in Clients, NEW i \in Held(d)' PROVE ~Closed(d, i)'
    <3>1. i \in Ids /\ held'[d][i] # None
      BY <2>7 DEF Held
    <3>2. held'[d][i] = held[d][i]
      BY <1>1, <1>3, <1>9, <2>6, <3>1, AddedIs
    <3>3. i \in Held(d) /\ d # c
      BY <2>6, <3>1, <3>2 DEF Held
    <3> QED
      BY <2>1, <2>2, <3>3 DEF Bounded
  <2>8. ASSUME NEW d \in Clients, NEW x \in page'[d].got PROVE ~Closed(d, x.id)'
    <3>1. x \in page[d].got /\ d # c
      BY <1>3, <2>6, <2>8 DEF NoPage
    <3> QED
      BY <2>1, <2>2, <3>1 DEF Bounded
  <2> QED
    BY <2>5, <2>7, <2>8 DEF Bounded
<1> QED
  BY <1>3, <1>10, <1>11, <1>16, <1>17, <1>18, <1>19, <1>20 DEF HInv

----------------------------------------------------------------------------
(* The system. *)

LEMMA StutterKeeps ==
    ASSUME HInv, vars' = vars
    PROVE  HInv' /\ AllAdvance
<1>1. Shapes /\ PageIsCurrent
  BY DEF HInv
<1>2. UNCHANGED <<world, posted, held, net, node, roster, page, forgot, exposed>>
  BY DEF vars
<1>3. Shapes'
  BY <1>1, <1>2 DEF Shapes
<1>4. PageIsCurrent'
  BY <1>1, <1>2, PagesStayCurrent
<1>5. Copying
  BY <1>2 DEF Copying, Moved
<1>6. NewReplicas /\ NonMembersRest /\ InBounds
  BY <1>2 DEF NewReplicas, NonMembersRest, InBounds
<1> QED
  BY <1>2, <1>3, <1>4, <1>5, <1>6, QuietKeeps

LEMMA HistoryStarts == Init => HInv
<1> SUFFICES ASSUME Init PROVE HInv
  OBVIOUS
<1>1. world \in World /\ Owner \in world.founders /\ world.founders \subseteq Clients /\ Owner \in Clients
  <2>1. world \in World /\ Owner \in world.founders
    BY WorldsOK DEF Init
  <2> QED
    BY <2>1, OwnerThere DEF World
<1> DEFINE full == Founding(world)
<1>2. /\ full \in Rosters /\ full.knows = world.founders /\ full.keys = {0}
      /\ \A x \in Clients : full.since[x] = IF x \in world.founders \ {Owner} THEN 1 ELSE 0
  BY <1>1 DEF Founding, Rosters
<1>3. NotIn \in Rosters /\ NotIn.knows = {} /\ NotIn.keys = {} /\ \A x \in Clients : NotIn.since[x] = 0
  BY DEF NotIn, Rosters
<1>4. full # NotIn
  BY <1>2, <1>3
<1> HIDE DEF full
<1>5. \A c \in Clients : roster[c] = IF c \in world.founders THEN full ELSE NotIn
  BY DEF Init, full
<1>6. \A c \in Clients : IsMember(c) <=> c \in world.founders
  BY <1>4, <1>5 DEF IsMember
<1>7. \A x \in Clients : Since(x) = IF x \in world.founders \ {Owner} THEN 1 ELSE 0
  BY <1>1, <1>2, <1>5 DEF Since
<1>8. NoPage \in PageStates /\ NoPage.got = {}
  BY DEF NoPage, PageStates
<1>9. /\ posted = 0 /\ net = {} /\ node = {} /\ page = [c \in Clients |-> NoPage]
      /\ held = [c \in Clients |-> [i \in Ids |-> None]] /\ forgot = [c \in Clients |-> {}] /\ exposed = {}
  BY DEF Init
<1>10. roster \in [Clients -> Rosters]
  BY <1>2, <1>3 DEF Init, full
<1>11. Shapes
  BY <1>1, <1>8, <1>9, <1>10, Sizes DEF Shapes
<1>12. \A c \in Clients : Held(c) = {} /\ page[c] = NoPage
  BY <1>9 DEF Held
<1>13. \A i \in Ids : Seen(i) = {}
  BY <1>8, <1>9 DEF Seen
<1>14. Latest /\ Numbered
  BY <1>13 DEF Latest, Lasting, Leads, Numbered
<1>15. Joined
  <2>1. \A c \in Clients : IsMember(c) => roster[c].keys # {} /\ (c # Owner => Since(c) > 0)
    BY <1>2, <1>5, <1>6, <1>7
  <2>2. \A c, x \in Clients : x \in roster[c].knows => IsMember(x)
    BY <1>2, <1>3, <1>5, <1>6
  <2>3. \A c, x \in Clients : roster[c].since[x] \in {0, Since(x)}
    BY <1>2, <1>3, <1>5, <1>7
  <2> QED
    BY <1>1, <1>6, <1>7, <1>9, <1>12, <2>1, <2>2, <2>3 DEF Joined
<1>16. Epochs
  <2>1. roster[Owner].keys = {0} /\ Capped({0})
    BY <1>1, <1>2, <1>5 DEF Capped
  <2>2. Epoch(Owner) = 0
    BY <2>1, MaxIs DEF Epoch
  <2>3. \A c \in Clients : \A k \in roster[c].keys : k = 0
    BY <1>2, <1>3, <1>5
  <2> QED
    BY <1>9, <2>1, <2>2, <2>3 DEF Epochs
<1>17. Informed
  BY <1>2, <1>3, <1>5 DEF Informed
<1>18. Bounded /\ PageIsCurrent
  BY <1>8, <1>9, <1>12 DEF Bounded, PageIsCurrent
<1> QED
  BY <1>11, <1>14, <1>15, <1>16, <1>17, <1>18 DEF HInv

LEMMA HistoryKeeps == HInv /\ [Next]_vars => HInv' /\ AllAdvance
<1> SUFFICES ASSUME HInv, [Next]_vars PROVE HInv' /\ AllAdvance
  OBVIOUS
<1>1. CASE vars' = vars
  BY <1>1, StutterKeeps
<1>2. ASSUME NEW c \in Clients, Post(c) \/ Join(c) \/ LearnJoin(c) \/ Repull(c) PROVE HInv' /\ AllAdvance
  BY <1>2, PostKeeps, JoinKeeps, LearnJoinKeeps, RepullKeeps
<1>3. ASSUME NEW c \in Clients, NEW i \in Ids,
             EditMessage(c, i) \/ DeleteMessage(c, i) \/ Repair(c, i) \/ Reload(c, i)
      PROVE  HInv' /\ AllAdvance
  BY <1>3, EditKeeps, DeleteKeeps, RepairKeeps, ReloadKeeps
<1>4. ASSUME NEW k \in net, Receive(k) PROVE HInv' /\ AllAdvance
  BY <1>4, ReceiveKeeps
<1>5. ASSUME NEW c \in Clients, StartPage(c) \/ Retry(c) \/ Merge(c) \/ MergeFromOwner(c) PROVE HInv' /\ AllAdvance
  BY <1>5, StartPageKeeps, RetryKeeps, MergeKeeps, MergeFromOwnerKeeps
<1>6. ASSUME NEW c \in Clients, NEW a \in page[c].asked, Fetch(c, a) PROVE HInv' /\ AllAdvance
  BY <1>6, FetchKeeps
<1>7. ASSUME NEW c \in Clients, NEW x \in page[c].got, Audit(c, x) PROVE HInv' /\ AllAdvance
  BY <1>7, AuditKeeps
<1> QED
  BY <1>1, <1>2, <1>3, <1>4, <1>5, <1>6, <1>7 DEF Next

LEMMA HistoryHolds == Spec => []HInv
<1>1. HInv /\ [Next]_vars => HInv'
  BY HistoryKeeps
<1> QED
  BY HistoryStarts, <1>1, PTL DEF Spec

\* Every version anywhere is a well-formed one, every page, record and ciphertext too.
THEOREM TypesHold == Spec => []TypeOK
<1>1. HInv => TypeOK
  <2> SUFFICES ASSUME HInv PROVE TypeOK
    OBVIOUS
  <2>1. Shapes
    BY DEF HInv
  <2>2. posted \in 0..MaxMsgs /\ net \subseteq Packet /\ node \subseteq Replica
    BY <2>1 DEF Shapes
  <2> QED
    BY <2>1, <2>2, Holding, RosterFields, PageFields DEF TypeOK
<1> QED
  BY <1>1, HistoryHolds, PTL

\* A page never settles for less than what was advertised, whichever holders answer and
\* in whatever order (fetchSwarmHistoryPage).
THEOREM PagesAreCurrent == Spec => []PageIsCurrent
<1>1. HInv => PageIsCurrent
  BY DEF HInv
<1> QED
  BY <1>1, HistoryHolds, PTL

\* What is stored is only replaced by a later version, and a deletion of an author with
\* one device that has not forgotten the message is for good (mergeHistoryMessages, handleChatOp).
THEOREM VersionsAdvance == Spec => VersionsOnlyAdvance
<1>1. HInv /\ [Next]_vars => [AllAdvance]_vars
  BY HistoryKeeps
<1>2. AllAdvance => \A c \in Clients, i \in Ids :
        held[c][i] # None =>
            /\ \/ held'[c][i] = held[c][i]
               \/ held'[c][i].rev > held[c][i].rev
               \/ held'[c][i] = None /\ i \in forgot'[c]
            /\ held[c][i].gone /\ held'[c][i] # None /\ (\E w \in Clients : SolelyBy(w, i))
                 => held'[c][i].gone
  BY DEF AllAdvance, Advances
<1> QED
  BY <1>1, <1>2, HistoryHolds, PTL DEF Spec, VersionsOnlyAdvance

\* By default a joiner holds nothing from before its boundary, through whichever member,
\* storage node or key it came, that was not signed or encrypted anew for all.
THEOREM JoinersKeepOut == Spec => []JoinBoundary
<1>1. HInv => JoinBoundary
  <2> SUFFICES ASSUME HInv, world.window = 0, NEW c \in Clients, NEW i \in Unearned(c) PROVE FALSE
    BY DEF JoinBoundary
  <2>1. i \in Held(c) /\ i < Since(c) /\ i \notin exposed
    BY DEF Unearned, Since
  <2> QED
    BY <2>1 DEF HInv, Bounded, Closed
<1> QED
  BY <1>1, HistoryHolds, PTL
=============================================================================
