----------------------- MODULE ChannelDeliveryProofs -----------------------
(***************************************************************************)
(* A member's live channel keys never roll back, and whatever it lost of   *)
(* the channel is explained by what it never held, for any number of       *)
(* members, revisions and messages, any buffer and legacy windows and any  *)
(* thresholds of the security mode.                                        *)
(***************************************************************************)
EXTENDS ChannelDelivery, ChannelCryptoProofs, FiniteSetTheorems, FunctionTheorems

LogEntry == [epoch : Nat, mode : Modes, members : SUBSET Peers]
Keyed(r) == r.epoch \in Nat /\ r.mode \in Modes

\* What the live keys rest on: every record the owner broadcast, and the stored one,
\* names a root; an answer on its way is one of the owner's records.
LogOK == log \in Seq(LogEntry) /\ Len(log) >= 1
RecOK == Keyed(rec)
ReplyOK == reply \in [prior : Int, rev : Int] /\ reply.rev <= Len(log)
IInv == LogOK /\ RecOK /\ ReplyOK /\ GroupOK(live)

\* What a step may do to the live keys.
LiveMoves(g, h) == h = g \/ h = NoGroup \/ SetRootFacts(g, h)

\* selectChannelSecurityMode names one of the two modes.
LEMMA SelectModeInModes == \A count, current : SelectMode(count, current) \in Modes
BY DEF SelectMode, Modes

\* What the owner stored as revision r names a root.
LEMMA StoredKeyed ==
    ASSUME LogOK, NEW r \in Rev
    PROVE  Keyed(Stored(r))
<1>1. log[r] \in LogEntry
  BY DEF LogOK, Rev
<1>2. QED
  BY <1>1 DEF Keyed, Stored, LogEntry

\* The owner's latest record is one of its records.
LEMMA LatestInLog == ASSUME LogOK PROVE Latest \in LogEntry
BY DEF LogOK, Latest

\* Seeding the live keys from a record is a setRoot.
LEMMA SeedMoves ==
    ASSUME NEW g, GroupOK(g), NEW r, Keyed(r)
    PROVE  SetRootFacts(g, SeedChannelRoot(g, r))
<1>1. r.epoch \in Nat /\ r.mode \in Modes
  BY DEF Keyed
<1> DEFINE h == SeedChannelRoot(g, r)
<1>2. h = SetRoot(g, r.epoch, r.epoch, r.mode)
  BY DEF SeedChannelRoot
<1> HIDE DEF h
<1>3. SetRootFacts(g, h)
  BY <1>1, <1>2, SetRootKeeps
<1>4. QED
  BY <1>3 DEF h

LEMMA InitOK == Init => IInv
<1> SUFFICES ASSUME Init PROVE IInv
  OBVIOUS
<1>1. PICK early \in SUBSET Others :
        log = <<[epoch |-> 0, members |-> {Owner, Me} \cup early,
                 mode |-> SelectMode(2 + Cardinality(early), "tree")]>>
  BY DEF Init
<1>2. [epoch |-> 0, members |-> {Owner, Me} \cup early,
       mode |-> SelectMode(2 + Cardinality(early), "tree")] \in LogEntry
  BY SelectModeInModes DEF LogEntry, Peers
<1>3. LogOK
  BY <1>1, <1>2 DEF LogOK
<1>4. 1 \in Rev
  BY <1>3 DEF LogOK, Rev
<1>5. RecOK
  BY <1>3, <1>4, StoredKeyed DEF Init, RecOK
<1>6. ReplyOK
  BY <1>3 DEF Init, ReplyOK, NoReply, LogOK
<1>7. GroupOK(live)
  BY NoGroupOK DEF Init
<1>8. QED
  BY <1>3, <1>5, <1>6, <1>7 DEF IInv

\* The owner's broadcasts leave my state alone and keep the log well-formed.
LEMMA BroadcastOK ==
    ASSUME IInv, NEW record \in LogEntry, Broadcast(record)
    PROVE  IInv' /\ live' = live
<1>1. log' = Append(log, record) /\ rec' = rec /\ live' = live /\ reply' = reply
  BY DEF Broadcast, myVars
<1>2. LogOK' /\ Len(log') >= Len(log) /\ Len(log) \in Nat /\ Len(log') \in Nat
  BY <1>1 DEF IInv, LogOK
<1>3. ReplyOK'
  BY <1>1, <1>2 DEF IInv, ReplyOK
<1>4. QED
  BY <1>1, <1>2, <1>3 DEF IInv, RecOK

\* A step of mine that leaves the log alone, stores a keyed record and either keeps
\* the live keys or seeds them from a keyed record.
LEMMA MineOK ==
    ASSUME IInv, log' = log, Keyed(rec'),
           reply' = reply \/ reply' = NoReply,
           live' = live \/ \E r : Keyed(r) /\ live' = SeedChannelRoot(live, r)
    PROVE  IInv' /\ LiveMoves(live, live')
<1>1. LogOK' /\ RecOK'
  BY DEF IInv, LogOK, RecOK
<1>2. ReplyOK'
  BY DEF IInv, LogOK, ReplyOK, NoReply
<1>3. GroupOK(live') /\ LiveMoves(live, live')
  <2>1. CASE live' = live
    BY <2>1 DEF IInv, LiveMoves
  <2>2. CASE \E r : Keyed(r) /\ live' = SeedChannelRoot(live, r)
    <3>1. SetRootFacts(live, live')
      BY <2>2, SeedMoves DEF IInv
    <3>2. QED
      BY <3>1 DEF SetRootFacts, LiveMoves
  <2>3. QED
    BY <2>1, <2>2
<1>4. QED
  BY <1>1, <1>2, <1>3 DEF IInv

LEMMA StepOK == IInv /\ [Next]_vars => IInv' /\ LiveMoves(live, live')
<1> SUFFICES ASSUME IInv, [Next]_vars PROVE IInv' /\ LiveMoves(live, live')
  OBVIOUS
<1>r. Keyed(rec) /\ LogOK /\ Latest \in LogEntry
  BY LatestInLog DEF IInv, RecOK
<1>1. ASSUME NEW p \in Others, Admit(p) PROVE IInv' /\ LiveMoves(live, live')
  <2>1. Rotated(Latest.members \cup {p}) \in LogEntry
    BY <1>r, SelectModeInModes DEF Rotated, LogEntry, Peers, Modes
  <2>2. QED
    BY <1>1, <2>1, BroadcastOK DEF Admit, LiveMoves
<1>2. ASSUME NEW p \in Others, Drop(p) PROVE IInv' /\ LiveMoves(live, live')
  <2>1. Rotated(Latest.members \ {p}) \in LogEntry
    BY <1>r, SelectModeInModes DEF Rotated, LogEntry, Peers, Modes
  <2>2. QED
    BY <1>2, <2>1, BroadcastOK DEF Drop, LiveMoves
<1>3. CASE Edit
  BY <1>3, <1>r, BroadcastOK DEF Edit, LiveMoves
<1>4. ASSUME NEW p \in Others, Hears(p) PROVE IInv' /\ LiveMoves(live, live')
  BY <1>4, <1>r, MineOK DEF Hears, myVars
<1>5. ASSUME NEW p \in Others \cup {Owner}, Send(p) PROVE IInv' /\ LiveMoves(live, live')
  BY <1>5, <1>r, MineOK DEF Send, myVars
<1>6. ASSUME NEW r \in Rev, ReceiveUpdate(r) PROVE IInv' /\ LiveMoves(live, live')
  <2>1. Keyed(Stored(r))
    BY <1>r, StoredKeyed
  <2>2. live' = SeedChannelRoot(live, Stored(r)) /\ rec' = Stored(r)
        /\ log' = log /\ reply' = reply
    BY <1>6 DEF ReceiveUpdate, InstallRoot
  <2>3. QED
    BY <2>1, <2>2, MineOK
<1>7. ASSUME NEW m \in sent, ReceiveChat(m) PROVE IInv' /\ LiveMoves(live, live')
  <2>1. live' = Seeded(m, rec, live) /\ rec' = rec /\ log' = log /\ reply' = reply
    BY <1>7 DEF ReceiveChat
  <2>2. live' = live \/ live' = SeedChannelRoot(live, rec)
    BY <2>1 DEF Seeded
  <2>3. QED
    BY <1>r, <2>1, <2>2, MineOK
<1>8. CASE Ask \/ Answer
  <2>1. log' = log /\ rec' = rec /\ live' = live
    BY <1>8 DEF Ask, Answer
  <2>2. ReplyOK'
    <3>1. Len(log) \in Nat /\ Len(log) >= 1 /\ rec.epoch \in Int
      BY <1>r DEF LogOK, Keyed
    <3>2. CASE Ask
      BY <2>1, <3>1, <3>2 DEF Ask, ReplyOK
    <3>3. CASE Answer
      BY <2>1, <3>1, <3>3 DEF Answer, IInv, ReplyOK
    <3>4. QED
      BY <1>8, <3>2, <3>3
  <2>3. QED
    BY <2>1, <2>2 DEF IInv, LogOK, RecOK, LiveMoves
<1>9. CASE LoseReply
  BY <1>9, <1>r, MineOK DEF LoseReply
<1>10. CASE TakeReply
  <2>1. reply.rev \in Rev
    BY <1>10 DEF TakeReply, IInv, ReplyOK, LogOK, Rev
  <2>2. Keyed(Stored(reply.rev))
    BY <1>r, <2>1, StoredKeyed
  <2>3. rec' = Stored(reply.rev) /\ log' = log /\ reply' = NoReply
    BY <1>10 DEF TakeReply
  <2>4. live' = live \/ live' = SeedChannelRoot(live, rec')
    BY <1>10 DEF TakeReply, InstallRoot
  <2>5. QED
    BY <2>2, <2>3, <2>4, MineOK
<1>11. CASE Restart
  <2>1. log' = log /\ rec' = rec /\ live' = NoGroup /\ reply' = NoReply
    BY <1>11 DEF Restart
  <2>2. ReplyOK'
    BY <2>1 DEF IInv, LogOK, ReplyOK, NoReply
  <2>3. QED
    BY <2>1, <2>2, NoGroupOK DEF IInv, LogOK, RecOK, LiveMoves
<1>12. CASE UNCHANGED vars
  BY <1>12, <1>r, MineOK DEF vars
<1>13. QED
  BY <1>1, <1>2, <1>3, <1>4, <1>5, <1>6, <1>7, <1>8, <1>9, <1>10, <1>11, <1>12 DEF Next

\* Setting a root, forgetting all of them or doing nothing is no roll-back.
LEMMA MovesNeverRollBack ==
    ASSUME LiveMoves(live, live'), GroupOK(live)
    PROVE  [live'.mode # "none" =>
              /\ live'.epoch >= live.epoch
              /\ live'.epoch = live.epoch => live' = live]_live
<1>1. NoGroup.mode = "none"
  BY DEF NoGroup
<1>2. QED
  BY <1>1 DEF LiveMoves, SetRootFacts

\* Whatever order the owner's updates, the answers to re-pulls and the members'
\* messages arrive in, the live keys of a client that runs on never go back to an
\* earlier epoch and never change at the epoch they are at (setRoot, channel.ts).
THEOREM KeysNeverRollBack == Spec => LiveNeverRollsBack
<1>1. Init => IInv
  BY InitOK
<1>2. IInv /\ [Next]_vars => IInv'
  BY StepOK
<1>3. IInv /\ [Next]_vars =>
        [live'.mode # "none" =>
            /\ live'.epoch >= live.epoch
            /\ live'.epoch = live.epoch => live' = live]_live
  BY StepOK, MovesNeverRollBack DEF IInv
<1>4. QED
  BY <1>1, <1>2, <1>3, PTL DEF Spec, LiveNeverRollsBack

----------------------------------------------------------------------------
(* The entries of a sequence at given positions.                            *)

\* How many of the positions ps come up to i: the place of i among them.
Place(ps, i) == Cardinality({k \in ps : k <= i})

LEMMA PlacesCount ==
    ASSUME NEW n \in Nat, NEW ps \in SUBSET (1..n)
    PROVE  /\ IsFiniteSet(ps) /\ Cardinality(ps) \in Nat
           /\ \A i \in ps : Place(ps, i) \in 1..Cardinality(ps)
           /\ \A i, k \in ps : Place(ps, i) = Place(ps, k) => i = k
           /\ \A j \in 1..Cardinality(ps) : \E i \in ps : Place(ps, i) = j
<1>1. IsFiniteSet(ps) /\ Cardinality(ps) \in Nat
  <2>1. IsFiniteSet(1..n)
    BY FS_Interval
  <2>2. IsFiniteSet(ps)
    BY <2>1, FS_Subset
  <2>3. QED
    BY <2>2, FS_CardinalityType
<1>2. \A T \in SUBSET ps : IsFiniteSet(T) /\ Cardinality(T) \in Nat /\ Cardinality(T) <= Cardinality(ps)
  BY <1>1, FS_Subset, FS_CardinalityType
<1>3. ASSUME NEW i \in ps PROVE Place(ps, i) \in 1..Cardinality(ps)
  <2> DEFINE T == {k \in ps : k <= i}
  <2>1. T \in SUBSET ps /\ i \in T
    OBVIOUS
  <2>2. Cardinality(T) # 0
    BY <1>2, <2>1, FS_EmptySet
  <2>3. QED
    BY <1>1, <1>2, <2>1, <2>2 DEF Place
<1>4. ASSUME NEW i \in ps, NEW k \in ps, i < k PROVE Place(ps, i) # Place(ps, k)
  <2> DEFINE T == {l \in ps : l <= i}
             U == {l \in ps : l <= k}
  <2>1. T \in SUBSET U /\ U \in SUBSET ps /\ k \in U /\ k \notin T
    <3>1. \A l \in ps : l \in Nat /\ (l <= i => l <= k)
      BY <1>4
    <3>2. k <= k /\ ~(k <= i)
      BY <1>4, <3>1
    <3>3. QED
      BY <3>1, <3>2
  <2> HIDE DEF T, U
  <2>2. Cardinality(T) # Cardinality(U)
    BY <1>2, <2>1, FS_Subset
  <2>3. QED
    BY <2>2 DEF Place, T, U
<1>5. \A i, k \in ps : Place(ps, i) = Place(ps, k) => i = k
  <2> SUFFICES ASSUME NEW i \in ps, NEW k \in ps, i # k PROVE Place(ps, i) # Place(ps, k)
    OBVIOUS
  <2>1. i < k \/ k < i
    OBVIOUS
  <2>2. QED
    BY <1>4, <2>1
<1>6. ASSUME NEW j \in 1..Cardinality(ps) PROVE \E i \in ps : Place(ps, i) = j
  <2> DEFINE c == Cardinality(ps)
             f == [i \in ps |-> Place(ps, i)]
  <2>1. f \in Injection(ps, 1..c)
    <3>1. f \in [ps -> 1..c]
      BY <1>3
    <3>2. \A a, b \in ps : f[a] = f[b] => a = b
      BY <1>5
    <3> HIDE DEF f
    <3>3. QED
      BY <3>1, <3>2, Fun_IsInj
  <2>2. IsFiniteSet(1..c) /\ Cardinality(1..c) = c
    BY <1>1, FS_Interval
  <2>3. f \in Surjection(ps, 1..c)
    <3> HIDE DEF f
    <3>1. QED
      BY <2>1, <2>2, FS_Injection
  <2>4. \E i \in ps : f[i] = j
    <3> HIDE DEF f
    <3>1. \A x \in 1..c : \E i \in ps : f[i] = x
      BY <2>3, Fun_SurjectionProperties
    <3>2. QED
      BY <3>1
  <2>5. QED
    BY <2>4
<1>7. QED
  BY <1>1, <1>3, <1>5, <1>6

IsPicked(t, s, ps) ==
    /\ \A j \in 1..Len(t) : \E i \in ps : t[j] = s[i]
    /\ \A i \in ps : \E j \in 1..Len(t) : t[j] = s[i]

LEMMA PickedFacts ==
    ASSUME NEW S, NEW s \in Seq(S), NEW ps \in SUBSET (1..Len(s)), NEW t, t = PickedAt(s, ps)
    PROVE  t \in Seq(S) /\ IsPicked(t, s, ps)
<1> DEFINE c == Cardinality(ps)
           at(j) == CHOOSE i \in ps : Place(ps, i) = j
<1>1. /\ c \in Nat
      /\ \A i \in ps : Place(ps, i) \in 1..c
      /\ \A i, k \in ps : Place(ps, i) = Place(ps, k) => i = k
      /\ \A j \in 1..c : \E i \in ps : Place(ps, i) = j
  <2>1. Len(s) \in Nat
    OBVIOUS
  <2>2. QED
    BY <2>1, PlacesCount, Zenon
<1>2. t = [j \in 1..c |-> s[at(j)]]
  BY DEF PickedAt, Place
<1>3. \A j \in 1..c : at(j) \in ps /\ Place(ps, at(j)) = j
  BY <1>1
<1> HIDE DEF c, at
<1>4. \A j \in 1..c : t[j] = s[at(j)] /\ t[j] \in S
  <2>1. \A i \in ps : s[i] \in S
    OBVIOUS
  <2>2. QED
    BY <1>2, <1>3, <2>1
<1>5. t \in Seq(S) /\ Len(t) = c
  BY <1>1, <1>2, <1>4
<1>6. ASSUME NEW i \in ps PROVE \E j \in 1..c : t[j] = s[i]
  <2>1. Place(ps, i) \in 1..c
    BY <1>1
  <2>2. at(Place(ps, i)) = i
    BY <1>1, <1>3, <2>1
  <2>3. QED
    BY <1>4, <2>1, <2>2
<1>7. QED
  BY <1>3, <1>4, <1>5, <1>6 DEF IsPicked

LEMMA IdsOf ==
    ASSUME NEW S, NEW s \in Seq(S), NEW x
    PROVE  x \in Ids(s) <=> \E i \in 1..Len(s) : s[i].id = x
BY DEF Ids

\* What Remaining keeps, and no more.
LaterOf(t, s, r) ==
    /\ \A j \in 1..Len(t) : \E i \in 1..Len(s) : t[j] = s[i] /\ ~(s[i].epoch <= r.epoch)
    /\ \A i \in 1..Len(s) : ~(s[i].epoch <= r.epoch) => s[i].id \in Ids(t)
LEMMA RemainingFacts ==
    ASSUME NEW S, NEW s \in Seq(S), NEW r, NEW t, t = Remaining(s, r)
    PROVE  t \in Seq(S) /\ LaterOf(t, s, r)
<1> DEFINE ps == (1..Len(s)) \ Ready(s, r)
<1>1. ps \in SUBSET (1..Len(s)) /\ t = PickedAt(s, ps)
  BY DEF Remaining
<1>2. \A i \in 1..Len(s) : i \in ps <=> ~(s[i].epoch <= r.epoch)
  BY DEF Ready
<1> HIDE DEF ps
<1>3. t \in Seq(S) /\ IsPicked(t, s, ps)
  BY <1>1, PickedFacts
<1>4. \A i \in ps : s[i].id \in Ids(t)
  BY <1>3, IdsOf DEF IsPicked
<1>5. QED
  BY <1>1, <1>2, <1>3, <1>4 DEF IsPicked, LaterOf

\* A push keeps to the entries and the new one.
PushedOnto(t, s, m) == \A j \in 1..Len(t) : t[j] = m \/ \E i \in 1..Len(s) : t[j] = s[i]
LEMMA PushFacts ==
    ASSUME NEW S, NEW s \in Seq(S), NEW m \in S, NEW t, t = Push(s, m)
    PROVE  t \in Seq(S) /\ PushedOnto(t, s, m)
<1> DEFINE all == Append(s, m)
           k == IF Len(all) > MaxBuffered THEN Len(all) - MaxBuffered ELSE 0
<1>1. all \in Seq(S) /\ Len(all) = Len(s) + 1 /\ Len(s) \in Nat
  OBVIOUS
<1>2. \A i \in 1..Len(all) : all[i] = m \/ \E l \in 1..Len(s) : all[i] = s[l]
  OBVIOUS
<1>3. k \in Nat /\ k <= Len(all)
  BY <1>1, BoundsAreNat
<1>4. t = SubSeq(all, 1 + k, Len(all))
  BY DEF Push
<1> HIDE DEF all, k
<1>5. t \in Seq(S) /\ Len(t) = Len(all) - k /\ \A j \in 1..Len(t) : t[j] = all[k + j]
  BY <1>1, <1>3, <1>4, SubSeqProperties
<1>6. \A j \in 1..Len(t) : k + j \in 1..Len(all)
  BY <1>1, <1>3, <1>5
<1>7. QED
  BY <1>2, <1>5, <1>6 DEF PushedOnto


----------------------------------------------------------------------------
(* What the live keys hold of the epochs they were given.                   *)

\* In the owner's log lg, the epoch e was under the mode md.
Named(lg, e, md) == \E r \in 1..Len(lg) : lg[r].epoch = e /\ lg[r].mode = md

\* Epochs only grow along the log; an epoch has one mode and one set of members, the
\* owner among them, and Crowd is never left.
EpochsOK(lg) ==
    /\ lg \in Seq(LogEntry)
    /\ \A i, j \in 1..Len(lg) : i <= j => lg[i].epoch <= lg[j].epoch
    /\ \A i, j \in 1..Len(lg) : lg[i].epoch = lg[j].epoch =>
         lg[i].mode = lg[j].mode /\ lg[i].members = lg[j].members
    /\ \A i, j \in 1..Len(lg) :
         (lg[i].epoch <= lg[j].epoch /\ lg[i].mode = "crowd") => lg[j].mode = "crowd"
    /\ \A i \in 1..Len(lg) : Owner \in lg[i].members

\* A ring is strictly descending; a root is that of its epoch.
Chain(ring) ==
    /\ \A i \in 1..Len(ring) : ring[i].root = ring[i].epoch
    /\ \A i, j \in 1..Len(ring) : i <= j => ring[j].epoch <= ring[i].epoch - (j - i)
InRing(ring, e) == \E i \in 1..Len(ring) : ring[i].epoch = e

\* ks: the epochs installed.  Those of the current mode within its legacy window are
\* in the ring; of the other mode, the one right before the current epoch is.
KeysOK(g, ks, lg) ==
    /\ \A md \in Modes : Chain(g.ring[md])
    /\ ks \subseteq Nat
    /\ g.mode = "none" => ks = {}
    /\ g.mode # "none" =>
         /\ Named(lg, g.epoch, g.mode)
         /\ g.epoch \in ks
         /\ \A e \in ks : e <= g.epoch
         /\ \A e \in ks : (Named(lg, e, g.mode) /\ e >= g.epoch - Window(g.mode))
                            => InRing(g.ring[g.mode], e)
         /\ (g.mode = "crowd" /\ g.epoch - 1 \in ks /\ Named(lg, g.epoch - 1, "tree"))
              => g.ring["tree"] # <<>> /\ Newest(g.ring["tree"]).epoch = g.epoch - 1

LEMMA InstallChain ==
    ASSUME NEW ring \in Seq(KeyEntry), Chain(ring), NEW epoch \in Nat, NEW window \in Nat,
           ring = <<>> \/ Newest(ring).epoch < epoch,
           NEW r, r = InstallEpochRoot(ring, epoch, epoch, window)
    PROVE  /\ Chain(r) /\ InRing(r, epoch)
           /\ \A e \in Nat : (InRing(ring, e) /\ e >= epoch - window) => InRing(r, e)
<1> DEFINE new == [epoch |-> epoch, root |-> epoch]
           all == <<new>> \o ring
           k == IF Len(all) < window + 1 THEN Len(all) ELSE window + 1
<1>1. /\ all \in Seq(KeyEntry) /\ Len(all) = 1 + Len(ring) /\ Len(ring) \in Nat
      /\ all[1] = new /\ \A i \in 1..Len(ring) : all[i + 1] = ring[i]
      /\ \A i \in 1..Len(all) : i = 1 \/ (i - 1 \in 1..Len(ring) /\ all[i] = ring[i - 1])
  <2>1. new \in KeyEntry
    BY DEF KeyEntry
  <2> HIDE DEF new
  <2>2. QED
    BY <2>1
<1>2. r = SubSeq(all, 1, k)
  <2>1. ~(ring # <<>> /\ epoch <= Newest(ring).epoch)
    <3>1. ring # <<>> => ring[1] \in KeyEntry
      OBVIOUS
    <3>2. QED
      BY <3>1 DEF Newest, KeyEntry
  <2>2. QED
    BY <2>1 DEF InstallEpochRoot, Cut
<1>3. k \in Nat /\ 1 <= k /\ k <= Len(all) /\ (k < Len(all) => k = window + 1)
  BY <1>1
<1>e. \A i \in 1..Len(ring) : ring[i].epoch \in Nat
  <2>1. \A i \in 1..Len(ring) : ring[i] \in KeyEntry
    OBVIOUS
  <2>2. QED
    BY <2>1 DEF KeyEntry
<1>n. new.epoch = epoch /\ new.root = epoch
  OBVIOUS
<1> HIDE DEF new, all, k
<1>4. Len(r) = k /\ \A i \in 1..k : r[i] = all[i]
  BY <1>1, <1>2, <1>3, SubSeqProperties
<1>5. \A i \in 1..Len(ring) : ring[i].epoch <= epoch - i
  <2>1. CASE ring = <<>>
    BY <2>1
  <2>2. CASE ring # <<>>
    <3>1. 1 \in 1..Len(ring) /\ ring[1].epoch < epoch
      BY <2>2 DEF Newest
    <3>2. \A i \in 1..Len(ring) : ring[i].epoch <= ring[1].epoch - (i - 1)
      BY <1>1, <3>1 DEF Chain
    <3>3. QED
      BY <1>e, <3>1, <3>2
  <2>3. QED
    BY <2>1, <2>2
<1>6. \A i \in 1..Len(all) : all[i].root = all[i].epoch
  BY <1>1, <1>n DEF Chain
<1>7. ASSUME NEW i \in 1..Len(all), NEW j \in 1..Len(all), i <= j
      PROVE  all[j].epoch <= all[i].epoch - (j - i)
  <2>1. CASE i = 1 /\ j = 1
    BY <1>1, <1>n, <2>1
  <2>2. CASE i = 1 /\ j # 1
    BY <1>1, <1>5, <1>n, <2>2
  <2>3. CASE i # 1
    <3>1. i - 1 \in 1..Len(ring) /\ j - 1 \in 1..Len(ring) /\ i - 1 <= j - 1
      BY <1>1, <1>7, <2>3
    <3>2. all[i] = ring[i - 1] /\ all[j] = ring[j - 1]
      BY <1>1, <1>7, <2>3
    <3>3. ring[j - 1].epoch <= ring[i - 1].epoch - ((j - 1) - (i - 1))
      BY <3>1 DEF Chain
    <3>4. QED
      BY <3>1, <3>2, <3>3
  <2>4. QED
    BY <2>1, <2>2, <2>3
<1>8. Chain(r)
  BY <1>1, <1>3, <1>4, <1>6, <1>7 DEF Chain
<1>9. InRing(r, epoch)
  BY <1>1, <1>3, <1>4, <1>n DEF InRing
<1>10. ASSUME NEW e \in Nat, InRing(ring, e), e >= epoch - window PROVE InRing(r, e)
  <2>1. PICK i \in 1..Len(ring) : ring[i].epoch = e
    BY <1>10 DEF InRing
  <2>2. i <= window
    BY <1>10, <1>5, <2>1
  <2>3. i + 1 \in 1..k /\ all[i + 1] = ring[i]
    BY <1>1, <1>3, <2>2
  <2>4. QED
    BY <1>4, <2>1, <2>3 DEF InRing
<1>11. QED
  BY <1>8, <1>9, <1>10

\* One epoch, one mode.
LEMMA OneMode ==
    ASSUME NEW lg, EpochsOK(lg), NEW e \in Nat, NEW f \in Nat, e <= f, NEW a, NEW b,
           Named(lg, e, a), Named(lg, f, b)
    PROVE  (e = f => a = b) /\ (a = "crowd" => b = "crowd")
BY DEF EpochsOK, Named

\* setRoot with a record of the log keeps what the keys hold.
LEMMA SetRootKeepsKeys ==
    ASSUME NEW lg, EpochsOK(lg), NEW g, GroupOK(g), NEW ks, KeysOK(g, ks, lg),
           NEW e \in Nat, NEW md \in Modes, Named(lg, e, md), NEW h, h = SetRoot(g, e, e, md)
    PROVE  /\ KeysOK(h, ks \cup {h.epoch}, lg) /\ GroupOK(h) /\ h.mode # "none"
           /\ \/ h = g /\ g.mode # "none" /\ e <= g.epoch
              \/ h.epoch = e /\ h.mode = md /\ (g.mode # "none" => e > g.epoch)
<1>1. SetRootFacts(g, h)
  BY SetRootKeeps
<1>g. /\ g.ring \in [Modes -> Seq(KeyEntry)] /\ g.epoch \in Int /\ g.mode \in Modes \cup {"none"}
      /\ g.mode # "none" => g.epoch \in Nat
  BY DEF GroupOK
<1>2. CASE g.mode # "none" /\ e <= g.epoch
  <2>1. h = g
    <3>1. CASE ~Accepts(g, e, e, md)
      BY <3>1 DEF SetRoot
    <3>2. CASE Accepts(g, e, e, md)
      <4>1. h.epoch = e /\ g.epoch = e
        BY <1>2, <1>g, <3>2 DEF SetRoot, Accepts
      <4>2. QED
        BY <1>1, <4>1 DEF SetRootFacts
    <3>3. QED
      BY <3>1, <3>2
  <2>2. ks \cup {h.epoch} = ks
    BY <1>2, <2>1 DEF KeysOK
  <2>3. QED
    BY <1>2, <2>1, <2>2
<1>3. CASE g.mode # "none" => e > g.epoch
  <2> DEFINE new == [m \in Modes |-> IF m = md
                       THEN InstallEpochRoot(g.ring[m], e, e, Window(m))
                       ELSE Retired(g.ring[m], e)]
  <2>1. Accepts(g, e, e, md)
    BY <1>3 DEF Accepts
  <2>2. h = [mode |-> md, epoch |-> e, ring |-> new]
    BY <2>1 DEF SetRoot
  <2>3. \A m \in Modes : g.ring[m] # <<>> =>
            /\ g.mode # "none" /\ Newest(g.ring[m]) \in KeyEntry /\ Newest(g.ring[m]).epoch <= g.epoch
            /\ (m # g.mode => g.epoch - 1 <= Newest(g.ring[m]).epoch)
            /\ (m = g.mode => Newest(g.ring[m]).epoch = g.epoch)
    <3> SUFFICES ASSUME NEW m \in Modes, g.ring[m] # <<>>
                 PROVE  /\ g.mode # "none" /\ Newest(g.ring[m]) \in KeyEntry
                        /\ Newest(g.ring[m]).epoch <= g.epoch
                        /\ (m # g.mode => g.epoch - 1 <= Newest(g.ring[m]).epoch)
                        /\ (m = g.mode => Newest(g.ring[m]).epoch = g.epoch)
      OBVIOUS
    <3>1. g.mode # "none"
      BY DEF GroupOK, NoGroup
    <3>2. Newest(g.ring[m]) \in KeyEntry
      BY <1>g DEF Newest
    <3>3. QED
      BY <1>g, <3>1, <3>2 DEF GroupOK, KeyEntry
  <2> DEFINE old == g.ring[md]
             r == InstallEpochRoot(old, e, e, Window(md))
  <2>4. new[md] = r /\ \A m \in Modes \ {md} : new[m] = Retired(g.ring[m], e)
    OBVIOUS
  <2>5. old \in Seq(KeyEntry) /\ Chain(old) /\ (old = <<>> \/ Newest(old).epoch < e) /\ Window(md) \in Nat
    <3>1. old # <<>> => Newest(old).epoch < e
      BY <1>3, <1>g, <2>3 DEF KeyEntry
    <3>2. QED
      BY <1>g, <3>1, WindowsAreNat DEF KeysOK, Window
  <2>6. /\ Chain(r) /\ InRing(r, e)
        /\ \A k \in Nat : (InRing(old, k) /\ k >= e - Window(md)) => InRing(r, k)
    <3> HIDE DEF old, r
    <3>1. r = InstallEpochRoot(old, e, e, Window(md))
      BY DEF r
    <3>2. QED
      BY <2>5, <3>1, InstallChain
  <2>7. \A m \in Modes \ {md} : new[m] = g.ring[m] \/ new[m] = <<>>
    BY <2>4 DEF Retired
  <2> HIDE DEF new, r
  <2>8. h.mode = md /\ h.epoch = e /\ h.ring = new /\ md # "none"
    BY <2>2 DEF Modes
  <2> DEFINE ks2 == ks \cup {e}
  <2>9. \A m \in Modes : Chain(h.ring[m])
    <3>1. Chain(<<>>)
      BY DEF Chain
    <3>2. QED
      BY <2>4, <2>6, <2>7, <2>8, <3>1 DEF KeysOK
  <2>10. ks2 \subseteq Nat /\ \A k \in ks2 : k <= e
    <3>1. g.mode = "none" => ks = {}
      BY DEF KeysOK
    <3>2. g.mode # "none" => \A k \in ks : k \in Nat /\ k <= e
      BY <1>3, <1>g DEF KeysOK
    <3>3. QED
      BY <3>1, <3>2
  <2>11. ASSUME NEW k \in ks2, Named(lg, k, md), k >= e - Window(md) PROVE InRing(r, k)
    <3>1. CASE k = e
      BY <2>6, <3>1
    <3>2. CASE k \in ks
      <4>1. g.mode # "none" /\ k <= g.epoch /\ g.epoch < e /\ k \in Nat /\ g.epoch \in Nat
            /\ Named(lg, g.epoch, g.mode)
        BY <1>3, <1>g, <3>2 DEF KeysOK
      <4>2. md = g.mode
        <5>1. md = "crowd" => g.mode = "crowd"
          BY <2>11, <4>1, OneMode
        <5>2. g.mode = "crowd" => md = "crowd"
          BY <4>1, OneMode
        <5>3. QED
          BY <1>g, <4>1, <5>1, <5>2 DEF Modes
      <4>3. k >= g.epoch - Window(g.mode)
        BY <2>5, <2>11, <4>1, <4>2
      <4>4. InRing(old, k)
        BY <2>11, <3>2, <4>1, <4>2, <4>3 DEF KeysOK
      <4>5. QED
        BY <2>6, <2>11, <4>1, <4>4
    <3>3. QED
      BY <3>1, <3>2
  <2>12. ASSUME md = "crowd", e - 1 \in ks2, Named(lg, e - 1, "tree")
         PROVE  new["tree"] # <<>> /\ Newest(new["tree"]).epoch = e - 1
    <3>1. e - 1 \in ks /\ g.mode # "none" /\ e - 1 <= g.epoch /\ g.epoch < e /\ e - 1 \in Nat
          /\ Named(lg, g.epoch, g.mode)
      BY <1>3, <1>g, <2>12 DEF KeysOK
    <3>2. g.epoch = e - 1
      BY <1>g, <3>1
    <3>3. g.mode = "tree"
      BY <1>g, <2>12, <3>1, <3>2, OneMode
    <3>4. g.ring["tree"] # <<>> /\ Newest(g.ring["tree"]).epoch = e - 1
      BY <3>1, <3>2, <3>3 DEF GroupOK
    <3>5. new["tree"] = Retired(g.ring["tree"], e) /\ ~(e - 1 < e - 1)
      BY <2>4, <2>12 DEF Modes
    <3>6. new["tree"] = g.ring["tree"]
      BY <3>4, <3>5 DEF Retired
    <3>7. QED
      BY <3>4, <3>6
  <2>13. KeysOK(h, ks2, lg)
    <3>1. h.ring[md] = r
      BY <2>4, <2>8
    <3> HIDE DEF ks2, old
    <3>2. e \in ks2
      BY DEF ks2
    <3>3. QED
      BY <2>8, <2>9, <2>10, <2>11, <2>12, <3>1, <3>2 DEF KeysOK
  <2>14. QED
    BY <1>1, <1>3, <2>8, <2>13 DEF SetRootFacts
<1>4. QED
  BY <1>2, <1>3, <1>g


----------------------------------------------------------------------------
(* Which messages the live keys can no longer open.                         *)

\* Of the epochs ks installed, up to f: m's was skipped, has left its ring, or was
\* under Tree, two epochs or more behind a Crowd.
Gone(m, g, ks, f) ==
    \/ m.epoch \notin ks /\ m.epoch < f
    \/ m.epoch < f - Window(m.mode)
    \/ m.mode = "tree" /\ g.mode = "crowd" /\ m.epoch < f - 1

IsMessage(m, lg) == m.epoch \in Nat /\ m.mode \in Modes /\ Named(lg, m.epoch, m.mode)
NamesIn(r, lg) == r.epoch \in Nat /\ r.mode \in Modes /\ Named(lg, r.epoch, r.mode)

LEMMA Disallowed ==
    ASSUME NEW lg, EpochsOK(lg), NEW m, IsMessage(m, lg), NEW r, NamesIn(r, lg),
           m.epoch <= r.epoch, ~ModeAllowed(m, r)
    PROVE  m.mode = "tree" /\ r.mode = "crowd" /\ m.epoch < r.epoch - 1
<1>1. /\ m.epoch \in Nat /\ r.epoch \in Nat /\ m.mode \in Modes /\ r.mode \in Modes
      /\ Named(lg, m.epoch, m.mode) /\ Named(lg, r.epoch, r.mode)
  BY DEF IsMessage, NamesIn
<1>2. m.mode # r.mode /\ ~(r.epoch > 0 /\ m.epoch = r.epoch - 1)
  BY DEF ModeAllowed
<1>3. m.epoch # r.epoch /\ (m.mode = "crowd" => r.mode = "crowd")
  BY <1>1, <1>2, OneMode
<1>4. QED
  BY <1>1, <1>2, <1>3 DEF Modes

LEMMA Unopened ==
    ASSUME NEW lg, EpochsOK(lg), NEW h, GroupOK(h), NEW ks, KeysOK(h, ks, lg), h.mode # "none",
           NEW m, IsMessage(m, lg), m.epoch <= h.epoch, ~OpensAs(h, m.mode, Wire(m))
    PROVE  Gone(m, h, ks, h.epoch)
<1>1. /\ m.epoch \in Nat /\ m.mode \in Modes /\ Named(lg, m.epoch, m.mode)
      /\ h.epoch \in Nat /\ h.mode \in Modes /\ Named(lg, h.epoch, h.mode)
      /\ h.ring \in [Modes -> Seq(KeyEntry)]
  BY DEF IsMessage, GroupOK, KeysOK
<1>2. Wire(m).mode = m.mode /\ Wire(m).epoch = m.epoch /\ Wire(m).root = m.epoch
  BY DEF Wire
<1>3. \A md \in Modes : \A i \in 1..Len(h.ring[md]) : h.ring[md][i].root = h.ring[md][i].epoch
  BY DEF KeysOK, Chain
<1>4. m.epoch \in ks \/ m.epoch < h.epoch
  BY <1>1 DEF KeysOK
<1>5. CASE m.epoch \notin ks
  BY <1>4, <1>5 DEF Gone
<1>6. CASE m.epoch \in ks /\ m.mode = h.mode
  <2>1. ~InRing(h.ring[m.mode], m.epoch)
    BY <1>1, <1>2, <1>3, <1>6 DEF OpensAs, InRing
  <2>2. ~(m.epoch >= h.epoch - Window(m.mode))
    BY <1>1, <1>6, <2>1 DEF KeysOK
  <2>3. Window(m.mode) \in Nat
    BY WindowsAreNat DEF Window
  <2>4. QED
    BY <1>1, <2>2, <2>3 DEF Gone
<1>7. CASE m.epoch \in ks /\ m.mode # h.mode
  <2>1. m.mode = "tree" /\ h.mode = "crowd" /\ m.epoch < h.epoch
    BY <1>1, <1>7, OneMode DEF Modes
  <2>2. CASE m.epoch = h.epoch - 1
    <3>1. h.ring["tree"] # <<>> /\ Newest(h.ring["tree"]).epoch = m.epoch
      BY <1>1, <1>7, <2>1, <2>2 DEF KeysOK
    <3>2. 1 \in 1..Len(h.ring["tree"]) /\ h.ring["tree"][1].epoch = m.epoch
          /\ h.ring["tree"][1].root = m.epoch
      BY <1>1, <1>3, <2>1, <3>1 DEF Newest
    <3>3. OpensAs(h, m.mode, Wire(m))
      BY <1>2, <2>1, <2>2, <3>1, <3>2 DEF OpensAs
    <3>4. QED
      BY <3>3
  <2>3. CASE m.epoch # h.epoch - 1
    BY <1>1, <2>1, <2>3 DEF Gone
  <2>4. QED
    BY <2>2, <2>3
<1>8. QED
  BY <1>5, <1>6, <1>7

\* Seeding g with r either changes nothing or moves the keys on to r.
SeededFrom(g, r, h) ==
    \/ h = g /\ g.mode # "none" /\ r.epoch <= g.epoch
    \/ h.epoch = r.epoch /\ h.mode = r.mode /\ (g.mode # "none" => r.epoch > g.epoch)

\* Seeding with a record of the log.
LEMMA SeedKeepsKeys ==
    ASSUME NEW lg, EpochsOK(lg), NEW g, GroupOK(g), NEW ks, KeysOK(g, ks, lg),
           NEW r, NamesIn(r, lg), NEW h, h = SeedChannelRoot(g, r)
    PROVE  /\ KeysOK(h, ks \cup {h.epoch}, lg) /\ GroupOK(h) /\ h.mode # "none"
           /\ h.epoch \in Nat /\ r.epoch <= h.epoch /\ SeededFrom(g, r, h)
<1>1. r.epoch \in Nat /\ r.mode \in Modes /\ Named(lg, r.epoch, r.mode)
  BY DEF NamesIn
<1>2. h = SetRoot(g, r.epoch, r.epoch, r.mode)
  BY DEF SeedChannelRoot
<1>3. /\ KeysOK(h, ks \cup {h.epoch}, lg) /\ GroupOK(h) /\ h.mode # "none"
      /\ \/ h = g /\ g.mode # "none" /\ r.epoch <= g.epoch
         \/ h.epoch = r.epoch /\ h.mode = r.mode /\ (g.mode # "none" => r.epoch > g.epoch)
  BY <1>1, <1>2, SetRootKeepsKeys
<1>4. h.epoch \in Nat /\ r.epoch <= h.epoch
  BY <1>1, <1>3 DEF GroupOK
<1>5. QED
  BY <1>3, <1>4 DEF SeededFrom

LEMMA Undecoded ==
    ASSUME NEW lg, EpochsOK(lg), NEW g, GroupOK(g), NEW ks, KeysOK(g, ks, lg),
           NEW r, NamesIn(r, lg), NEW h, h = SeedChannelRoot(g, r),
           NEW m, IsMessage(m, lg), m.epoch <= r.epoch,
           \/ ~Decodes(m, r, g) \/ ~Decodes(m, r, h)
    PROVE  Gone(m, h, ks \cup {h.epoch}, h.epoch)
<1>1. /\ KeysOK(h, ks \cup {h.epoch}, lg) /\ GroupOK(h) /\ h.mode # "none"
      /\ h.epoch \in Nat /\ r.epoch <= h.epoch
  BY SeedKeepsKeys
<1>2. SeedChannelRoot(h, r) = h
  <2>1. PICK k : k = SeedChannelRoot(h, r)
    OBVIOUS
  <2>2. SeededFrom(h, r, k)
    <3>1. PICK ks2 : ks2 = ks \cup {h.epoch}
      OBVIOUS
    <3>2. KeysOK(h, ks2, lg)
      BY <1>1, <3>1
    <3>3. QED
      BY <1>1, <2>1, <3>2, SeedKeepsKeys, Zenon
  <2>3. r.epoch \in Nat /\ ~(r.epoch > h.epoch)
    BY <1>1 DEF NamesIn
  <2>4. QED
    BY <1>1, <2>1, <2>2, <2>3 DEF SeededFrom
<1>3. ~ModeAllowed(m, r) \/ ~OpensAs(h, m.mode, Wire(m))
  BY <1>2 DEF Decodes
<1>4. m.epoch \in Nat /\ r.epoch \in Nat
  BY DEF IsMessage, NamesIn
<1>5. CASE ~OpensAs(h, m.mode, Wire(m))
  BY <1>1, <1>4, <1>5, Unopened
<1>6. CASE ~ModeAllowed(m, r)
  <2>1. m.mode = "tree" /\ r.mode = "crowd" /\ m.epoch < r.epoch - 1
    BY <1>6, Disallowed
  <2>2. h.mode = "crowd"
    <3>1. /\ Named(lg, h.epoch, h.mode) /\ Named(lg, r.epoch, r.mode)
      BY <1>1 DEF KeysOK, NamesIn
    <3>2. QED
      BY <1>1, <1>4, <2>1, <3>1, OneMode
  <2>3. QED
    BY <1>1, <1>4, <2>1, <2>2 DEF Gone
<1>7. QED
  BY <1>3, <1>5, <1>6

\* Epochs and modes only move on.
KeyStep(g, ks, f, h, ks2, f2) ==
    /\ f \in Nat /\ f2 \in Nat /\ f <= f2
    /\ \A e \in ks2 : e \in ks \/ e >= f2
    /\ g.mode = "crowd" => h.mode = "crowd"
LEMMA GoneStays ==
    ASSUME NEW m, m.epoch \in Nat, NEW g, NEW ks, NEW f, NEW h, NEW ks2, NEW f2,
           KeyStep(g, ks, f, h, ks2, f2), Gone(m, g, ks, f)
    PROVE  Gone(m, h, ks2, f2)
<1>1. Window(m.mode) \in Nat
  BY WindowsAreNat DEF Window
<1>2. f \in Nat /\ f2 \in Nat /\ f <= f2
  BY DEF KeyStep
<1>3. CASE m.epoch \notin ks /\ m.epoch < f
  <2>1. m.epoch \notin ks2
    BY <1>2, <1>3 DEF KeyStep
  <2>2. QED
    BY <1>2, <1>3, <2>1 DEF Gone
<1>4. CASE m.epoch < f - Window(m.mode)
  BY <1>1, <1>2, <1>4 DEF Gone
<1>5. CASE m.mode = "tree" /\ g.mode = "crowd" /\ m.epoch < f - 1
  BY <1>2, <1>5 DEF Gone, KeyStep
<1>6. QED
  BY <1>3, <1>4, <1>5 DEF Gone


----------------------------------------------------------------------------
(* The invariant.                                                           *)

HeldOK == \A p \in Others : held[p] > 0 => held[p] \in Rev /\ p \in log[held[p]].members
\* A message was sealed by a member of the epoch it names.
SealedIn(m, lg) ==
    \E r \in 1..Len(lg) : /\ lg[r].epoch = m.epoch /\ lg[r].mode = m.mode
                          /\ m.from \in lg[r].members
SentOK ==
    /\ IsFiniteSet(sent)
    /\ \A m \in sent : m.id \in 1..Cardinality(sent) /\ SealedIn(m, log)
    /\ \A m, n \in sent : m.id = n.id => m = n
    /\ heard \subseteq 1..Cardinality(sent)
RecAt == rec.rev \in Rev /\ rec = Stored(rec.rev)
BufOK == buffer \in Seq(sent) /\ \A i \in 1..Len(buffer) : buffer[i].epoch > rec.epoch
\* The live keys are not behind the record, nor the record behind what a re-pull
\* remembers; while there are no keys, the record has not moved since.
AskOK ==
    /\ live.mode # "none" => rec.epoch <= live.epoch
    /\ reply # NoReply =>
         /\ reply.prior \in Nat /\ reply.prior <= rec.epoch
         /\ live.mode = "none" => reply.prior = rec.epoch
         /\ reply.rev > 0 => log[reply.rev].epoch >= reply.prior
Front == IF live.mode = "none" THEN rec.epoch ELSE live.epoch
Accounted(m) ==
    \/ m.id \in store \cup evicted \cup Ids(buffer)
    \/ RemovedSince(m)
    \/ Gone(m, live, keyed, Front)
Explained == \A m \in sent : m.id \in heard => Accounted(m)
CInv ==
    /\ IInv /\ EpochsOK(log) /\ HeldOK /\ SentOK /\ RecAt /\ BufOK
    /\ KeysOK(live, keyed, log) /\ AskOK /\ Explained

LEMMA Sizes ==
    ASSUME IInv
    PROVE  /\ Len(log) \in Nat /\ Len(log) >= 1 /\ log \in Seq(LogEntry)
           /\ \A i \in Rev : log[i] \in LogEntry /\ log[i].epoch \in Nat /\ log[i].mode \in Modes
<1>1. log \in Seq(LogEntry) /\ Len(log) >= 1
  BY DEF IInv, LogOK
<1>2. \A i \in Rev : log[i] \in LogEntry
  BY <1>1 DEF Rev
<1>3. QED
  BY <1>1, <1>2 DEF LogEntry

LEMMA SentAre ==
    ASSUME CInv, NEW m \in sent
    PROVE  IsMessage(m, log) /\ m.id \in 1..Cardinality(sent)
<1>1. SealedIn(m, log) /\ m.id \in 1..Cardinality(sent)
  BY DEF CInv, SentOK
<1>2. \A i \in 1..Len(log) : log[i].epoch \in Nat /\ log[i].mode \in Modes
  BY Sizes DEF CInv, Rev
<1>3. QED
  BY <1>1, <1>2 DEF SealedIn, IsMessage, Named

LEMMA StoredNames ==
    ASSUME CInv, NEW i \in Rev
    PROVE  /\ NamesIn(Stored(i), log) /\ Stored(i).epoch = log[i].epoch
           /\ Stored(i).members = log[i].members /\ Stored(i).rev = i
BY Sizes DEF CInv, Rev, Stored, NamesIn, Named

LEMMA RecNames ==
    ASSUME CInv
    PROVE  NamesIn(rec, log) /\ rec.epoch \in Nat /\ rec.epoch = log[rec.rev].epoch
           /\ rec.members = log[rec.rev].members
<1>1. rec.rev \in Rev /\ rec = Stored(rec.rev)
  BY DEF CInv, RecAt
<1>2. QED
  BY <1>1, StoredNames DEF NamesIn

LEMMA FrontIsNat == ASSUME CInv PROVE Front \in Nat
BY RecNames DEF CInv, IInv, GroupOK, Front

\* A message whose author is no member at a later or its own epoch was removed since.
LEMMA NotListed ==
    ASSUME CInv, NEW m \in sent, NEW i \in Rev, m.epoch <= log[i].epoch, m.from \notin log[i].members
    PROVE  RemovedSince(m)
<1>1. PICK j \in 1..Len(log) : log[j].epoch = m.epoch /\ m.from \in log[j].members
  BY DEF CInv, SentOK, SealedIn
<1>2. log[i].epoch # m.epoch
  BY <1>1 DEF CInv, EpochsOK, Rev
<1>3. log[i].epoch \in Nat /\ m.epoch \in Nat
  BY <1>1, Sizes DEF CInv, Rev
<1>4. QED
  BY <1>2, <1>3 DEF RemovedSince

\* What is in the buffer under an id is the message of that id.
LEMMA HeldMessage ==
    ASSUME CInv, NEW m \in sent, m.id \in Ids(buffer)
    PROVE  \E i \in 1..Len(buffer) : buffer[i] = m
<1>1. PICK i \in 1..Len(buffer) : buffer[i].id = m.id
  BY DEF Ids
<1>2. buffer[i] \in sent
  BY DEF CInv, BufOK
<1>3. QED
  BY <1>1, <1>2 DEF CInv, SentOK

\* A step of mine that leaves the owner's side alone.
MineSame == UNCHANGED <<log, held, sent>> /\ heard' \subseteq heard \cup {m.id : m \in sent}
LEMMA MineOthers ==
    ASSUME CInv, IInv', MineSame
    PROVE  /\ EpochsOK(log)' /\ HeldOK' /\ SentOK'
<1>1. log' = log /\ held' = held /\ sent' = sent
  BY DEF MineSame
<1>2. heard' \subseteq 1..Cardinality(sent)
  BY DEF MineSame, CInv, SentOK
<1>3. QED
  BY <1>1, <1>2 DEF CInv, HeldOK, SentOK, Rev

\* setRoot with a record of the log moves keys and front on.
LEMMA SeedStep ==
    ASSUME CInv, NEW r, NamesIn(r, log), NEW h, h = SeedChannelRoot(live, r), NEW ks2,
           ks2 \subseteq keyed \cup {h.epoch},
           live.mode = "none" => rec.epoch <= r.epoch
    PROVE  KeyStep(live, keyed, Front, h, ks2, h.epoch)
<1>1. /\ KeysOK(h, keyed \cup {h.epoch}, log) /\ h.mode # "none"
      /\ h.epoch \in Nat /\ r.epoch <= h.epoch /\ SeededFrom(live, r, h)
  BY SeedKeepsKeys DEF CInv, IInv
<1>2. Front \in Nat /\ rec.epoch \in Nat /\ r.epoch \in Nat
  BY FrontIsNat, RecNames DEF NamesIn
<1>3. live.mode # "none" => live.epoch <= h.epoch /\ live.epoch \in Nat
  BY <1>1, <1>2 DEF SeededFrom, CInv, IInv, GroupOK
<1>4. Front <= h.epoch
  BY <1>1, <1>2, <1>3 DEF Front
<1>5. live.mode = "crowd" => h.mode = "crowd"
  <2>1. CASE live.mode # "none"
    <3>1. Named(log, live.epoch, live.mode) /\ Named(log, h.epoch, h.mode)
      BY <1>1, <2>1 DEF KeysOK, CInv
    <3>2. QED
      BY <1>1, <1>3, <2>1, <3>1, OneMode DEF CInv
  <2>2. QED
    BY <2>1
<1>6. \A e \in ks2 : e \in keyed \/ e >= h.epoch
  BY <1>1
<1>7. QED
  BY <1>1, <1>2, <1>4, <1>5, <1>6 DEF KeyStep

\* Installing the root of the owner's revision i, and replaying what waited for it.
LEMMA InstallKeepsAll ==
    ASSUME CInv, IInv', NEW i \in Rev, rec' = Stored(i), InstallRoot(Stored(i)),
           UNCHANGED <<log, held, sent, heard, evicted>>, AskOK',
           live.mode = "none" => rec.epoch <= log[i].epoch
    PROVE  CInv'
<1> DEFINE r == Stored(i)
           h == SeedChannelRoot(live, r)
<1>1. NamesIn(r, log) /\ r.epoch = log[i].epoch /\ r.members = log[i].members /\ r.rev = i
  BY StoredNames
<1>2. /\ live' = h /\ store' = store \cup Replayed(buffer, r, h)
      /\ buffer' = Remaining(buffer, r) /\ keyed' = keyed \cup {h.epoch}
      /\ log' = log /\ sent' = sent /\ heard' = heard /\ evicted' = evicted /\ rec' = r
  BY DEF InstallRoot
<1>3. EpochsOK(log)' /\ HeldOK' /\ SentOK'
  BY MineOthers DEF MineSame
<1> HIDE DEF r
<1>4. RecAt'
  <2>1. Stored(i)' = Stored(i) /\ Rev' = Rev
    BY <1>2 DEF Stored, Rev
  <2>2. QED
    BY <1>1, <1>2, <2>1 DEF RecAt, r
<1>5. /\ KeysOK(h, keyed \cup {h.epoch}, log) /\ h.mode # "none" /\ h.epoch \in Nat
      /\ r.epoch <= h.epoch
  BY <1>1, SeedKeepsKeys DEF CInv, IInv
<1>6. KeyStep(live, keyed, Front, h, keyed \cup {h.epoch}, h.epoch)
  BY <1>1, SeedStep
<1>7. r.epoch \in Nat /\ buffer \in Seq(sent)
  BY <1>1 DEF NamesIn, CInv, BufOK
<1>b. buffer' \in Seq(sent) /\ LaterOf(buffer', buffer, r)
  BY <1>2, <1>7, RemainingFacts
<1>8. BufOK'
  <2>1. \A m \in sent : m.epoch \in Nat
    BY SentAre DEF IsMessage
  <2>2. \A l \in 1..Len(buffer) : buffer[l] \in sent
    BY <1>7
  <2>3. \A j \in 1..Len(buffer') : buffer'[j].epoch > r.epoch
    BY <1>7, <1>b, <2>1, <2>2 DEF LaterOf
  <2>4. QED
    BY <1>2, <1>b, <2>3 DEF BufOK
<1> HIDE DEF h
<1>9. ASSUME NEW m \in sent, m.id \in heard PROVE Accounted(m)'
  <2>1. IsMessage(m, log) /\ m.epoch \in Nat
    BY SentAre DEF IsMessage
  <2>2. Front' = h.epoch
    BY <1>2, <1>5 DEF Front
  <2>3. RemovedSince(m) => RemovedSince(m)'
    BY <1>2 DEF RemovedSince, Rev
  <2>4. Gone(m, h, keyed \cup {h.epoch}, h.epoch) => Accounted(m)'
    BY <1>2, <2>2 DEF Accounted
  <2>5. CASE m.id \in store \cup evicted
    BY <1>2, <2>5 DEF Accounted
  <2>6. CASE RemovedSince(m)
    BY <2>3, <2>6 DEF Accounted
  <2>7. CASE Gone(m, live, keyed, Front)
    BY <1>6, <2>1, <2>4, <2>7, GoneStays
  <2>8. CASE m.id \in Ids(buffer)
    <3>1. PICK l \in 1..Len(buffer) : buffer[l] = m
      BY <2>8, HeldMessage
    <3>2. CASE ~(m.epoch <= r.epoch)
      BY <1>b, <3>1, <3>2 DEF Accounted, LaterOf
    <3>3. CASE m.epoch <= r.epoch /\ m.from \notin r.members
      BY <1>1, <2>3, <3>3, NotListed DEF Accounted
    <3>4. CASE m.epoch <= r.epoch /\ m.from \in r.members /\ Decodes(m, r, h)
      <4>1. m.id \in Replayed(buffer, r, h)
        BY <3>1, <3>4 DEF Replayed, Ready
      <4>2. QED
        BY <1>2, <4>1 DEF Accounted
    <3>5. CASE m.epoch <= r.epoch /\ ~Decodes(m, r, h)
      <4>1. h = SeedChannelRoot(live, r)
        BY DEF h
      <4>2. Gone(m, h, keyed \cup {h.epoch}, h.epoch)
        BY <1>1, <2>1, <3>5, <4>1, Undecoded DEF CInv, IInv
      <4>3. QED
        BY <2>4, <4>2
    <3>6. QED
      BY <3>2, <3>3, <3>4, <3>5
  <2>9. QED
    BY <1>9, <2>5, <2>6, <2>7, <2>8 DEF CInv, Explained, Accounted
<1>10. Explained'
  BY <1>2, <1>9 DEF Explained
<1>11. KeysOK(live, keyed, log)'
  BY <1>2, <1>5
<1>12. QED
  BY <1>3, <1>4, <1>8, <1>10, <1>11 DEF CInv


----------------------------------------------------------------------------
(* My other steps.                                                          *)

\* Nothing changes but the record, under the same front, and the re-pull.
LEMMA QuietKeepsAll ==
    ASSUME CInv, IInv', UNCHANGED <<log, held, sent, live, store, buffer, heard, evicted, keyed>>,
           RecAt', BufOK', AskOK', Front' = Front
    PROVE  CInv'
<1>1. EpochsOK(log)' /\ HeldOK' /\ SentOK'
  BY MineOthers DEF MineSame
<1>2. Explained'
  BY DEF CInv, Explained, Accounted, RemovedSince, Rev
<1>3. KeysOK(live, keyed, log)'
  BY DEF CInv
<1>4. QED
  BY <1>1, <1>2, <1>3 DEF CInv

LEMMA RecKept ==
    ASSUME CInv, log' = log, rec' = rec
    PROVE  RecAt'
BY DEF CInv, RecAt, Rev, Stored

LEMMA StillKeepsAll ==
    ASSUME CInv, IInv', UNCHANGED <<log, held, sent, rec, live, store, buffer, heard, evicted, keyed>>,
           AskOK'
    PROVE  CInv'
<1>1. RecAt'
  BY RecKept
<1>2. BufOK' /\ Front' = Front
  BY DEF CInv, BufOK, Front
<1>3. QED
  BY <1>1, <1>2, QuietKeepsAll

LEMMA AskingKeepsAll == ASSUME CInv, IInv', Ask \/ Answer \/ LoseReply PROVE CInv'
<1>1. UNCHANGED <<log, held, sent, rec, live, store, buffer, heard, evicted, keyed>>
  BY DEF Ask, Answer, LoseReply
<1>2. live.mode # "none" => rec.epoch <= live.epoch
  BY DEF CInv, AskOK
<1>3. CASE Ask
  <2>1. reply'.prior = rec.epoch /\ reply'.rev = 0 /\ rec.epoch \in Nat
    BY <1>3, RecNames DEF Ask
  <2>2. AskOK'
    BY <1>1, <1>2, <2>1 DEF AskOK
  <2>3. QED
    BY <1>1, <2>2, StillKeepsAll
<1>4. CASE Answer
  <2>1. reply # NoReply /\ reply \in [prior : Int, rev : Int]
    BY <1>4 DEF Answer, NoReply, CInv, IInv, ReplyOK
  <2>2. reply'.prior = reply.prior /\ reply'.rev = Len(log)
    BY <1>4, <2>1 DEF Answer
  <2>3. /\ reply.prior \in Nat /\ reply.prior <= rec.epoch
        /\ live.mode = "none" => reply.prior = rec.epoch
    BY <2>1 DEF CInv, AskOK
  <2>4. log[Len(log)].epoch >= reply.prior
    <3>1. rec.rev \in Rev /\ Len(log) \in 1..Len(log) /\ rec.rev <= Len(log)
      BY Sizes DEF CInv, RecAt, Rev
    <3>2. rec.epoch <= log[Len(log)].epoch
      BY <3>1, RecNames DEF CInv, EpochsOK, Rev
    <3>3. rec.epoch \in Nat /\ log[Len(log)].epoch \in Nat
      BY <3>1, RecNames, Sizes DEF CInv, Rev
    <3>4. QED
      BY <2>3, <3>2, <3>3
  <2>5. AskOK'
    BY <1>1, <1>2, <2>2, <2>3, <2>4 DEF AskOK
  <2>6. QED
    BY <1>1, <2>5, StillKeepsAll
<1>5. CASE LoseReply
  <2>1. AskOK'
    BY <1>1, <1>2, <1>5 DEF LoseReply, AskOK
  <2>2. QED
    BY <1>1, <2>1, StillKeepsAll
<1>6. QED
  BY <1>3, <1>4, <1>5

LEMMA UpdateKeepsAll == ASSUME CInv, IInv', NEW i \in Rev, ReceiveUpdate(i) PROVE CInv'
<1> DEFINE r == Stored(i)
           h == SeedChannelRoot(live, r)
<1>1. /\ rec' = r /\ InstallRoot(r) /\ i > rec.rev
      /\ UNCHANGED <<log, held, sent, reply, heard, evicted>> /\ live' = h
  BY DEF ReceiveUpdate, InstallRoot, Fresh
<1>2. NamesIn(r, log) /\ r.epoch = log[i].epoch
  BY StoredNames
<1> HIDE DEF r
<1>3. rec.epoch <= r.epoch /\ rec.epoch \in Nat /\ r.epoch \in Nat
  <2>1. rec.rev \in Rev /\ rec.rev \in Nat /\ i \in Nat
    BY DEF CInv, RecAt, Rev
  <2>2. log[rec.rev].epoch <= log[i].epoch
    BY <1>1, <2>1 DEF CInv, EpochsOK, Rev
  <2>3. QED
    BY <1>2, <2>2, RecNames DEF NamesIn
<1>4. h.mode # "none" /\ r.epoch <= h.epoch
  BY <1>2, SeedKeepsKeys DEF CInv, IInv
<1> HIDE DEF h
<1>5. AskOK'
  <2>1. live'.mode # "none" /\ rec'.epoch <= live'.epoch
    BY <1>1, <1>4
  <2>2. reply # NoReply => /\ reply.prior \in Nat /\ reply.prior <= rec.epoch
                           /\ reply.rev > 0 => log[reply.rev].epoch >= reply.prior
    BY DEF CInv, AskOK
  <2>3. reply # NoReply => reply.prior <= r.epoch
    BY <1>3, <2>2
  <2>4. QED
    BY <1>1, <2>1, <2>2, <2>3 DEF AskOK
<1>6. QED
  BY <1>1, <1>2, <1>3, <1>5, InstallKeepsAll DEF r

LEMMA TakeReplyKeepsAll == ASSUME CInv, IInv', TakeReply PROVE CInv'
<1>0. PICK i : i = reply.rev
  OBVIOUS
<1>1. i \in Rev /\ reply.rev = i /\ reply # NoReply
  BY <1>0 DEF TakeReply, CInv, IInv, ReplyOK, LogOK, Rev, NoReply
<1> DEFINE r == Stored(i)
<1>2. NamesIn(r, log) /\ r.epoch = log[i].epoch /\ r.epoch \in Nat /\ r.rev = i
  BY <1>1, StoredNames DEF NamesIn
<1>3. /\ rec' = r /\ reply' = NoReply
      /\ UNCHANGED <<log, held, sent, heard, evicted>>
  BY <1>0 DEF TakeReply
<1>4. /\ reply.prior \in Nat /\ reply.prior <= rec.epoch
      /\ live.mode = "none" => reply.prior = rec.epoch
      /\ log[i].epoch >= reply.prior
  BY <1>1, Sizes DEF CInv, AskOK, Rev
<1>5. CASE Advanced(rec'.epoch)
  <2>1. InstallRoot(r) /\ live' = SeedChannelRoot(live, r)
    BY <1>3, <1>5 DEF TakeReply, InstallRoot
  <2>2. r.epoch > reply.prior
    BY <1>3, <1>5 DEF Advanced
  <2> HIDE DEF r
  <2>3. AskOK'
    <3>1. r.epoch <= live'.epoch
      BY <1>2, <2>1, SeedKeepsKeys DEF CInv, IInv
    <3>2. QED
      BY <1>3, <3>1 DEF AskOK
  <2>4. live.mode = "none" => rec.epoch <= log[i].epoch
    BY <1>2, <1>4, <2>2
  <2>5. QED
    BY <1>1, <1>3, <2>1, <2>3, <2>4, InstallKeepsAll DEF r
<1>6. CASE ~Advanced(rec'.epoch)
  <2>1. UNCHANGED <<live, store, buffer, keyed>>
    BY <1>6 DEF TakeReply
  <2>2. r.epoch = reply.prior
    BY <1>2, <1>3, <1>4, <1>6 DEF Advanced
  <2>3. Stored(i)' = Stored(i) /\ Rev' = Rev
    BY <1>3 DEF Stored, Rev
  <2>4. RecAt'
    BY <1>1, <1>2, <1>3, <2>3 DEF RecAt
  <2> HIDE DEF r
  <2>5. rec.epoch \in Nat
    BY RecNames
  <2>6. BufOK'
    <3>1. \A m \in sent : m.epoch \in Nat
      BY SentAre DEF IsMessage
    <3>2. \A l \in 1..Len(buffer) : buffer[l].epoch \in Nat /\ buffer[l].epoch > rec.epoch
      BY <3>1 DEF CInv, BufOK
    <3>3. \A l \in 1..Len(buffer) : buffer[l].epoch > r.epoch
      BY <1>4, <2>2, <2>5, <3>2
    <3>4. QED
      BY <1>3, <2>1, <3>3 DEF CInv, BufOK
  <2>7. live.mode # "none" => r.epoch <= live.epoch
    <3>1. live.mode # "none" => rec.epoch <= live.epoch /\ live.epoch \in Nat
      BY DEF CInv, AskOK, IInv, GroupOK
    <3>2. QED
      BY <1>4, <2>2, <2>5, <3>1
  <2>8. AskOK'
    BY <1>3, <2>1, <2>7 DEF AskOK
  <2>9. Front' = Front
    BY <1>3, <1>4, <2>1, <2>2 DEF Front
  <2>10. QED
    BY <1>3, <2>1, <2>4, <2>6, <2>8, <2>9, QuietKeepsAll
<1>7. QED
  BY <1>5, <1>6

LEMMA RestartKeepsAll == ASSUME CInv, IInv', Restart PROVE CInv'
<1>1. /\ live' = NoGroup /\ buffer' = <<>> /\ reply' = NoReply /\ heard' = heard \cap store
      /\ keyed' = {} /\ UNCHANGED <<log, held, sent, rec, store>>
  BY DEF Restart
<1>2. EpochsOK(log)' /\ HeldOK' /\ SentOK'
  <2>1. heard \subseteq {m.id : m \in sent} \cup heard
    OBVIOUS
  <2>2. QED
    BY <1>1, MineOthers DEF MineSame
<1>3. RecAt' /\ BufOK' /\ Explained'
  BY <1>1, RecKept DEF BufOK, Explained, Accounted
<1>4. KeysOK(live, keyed, log)'
  <2>1. \A md \in Modes : NoGroup.ring[md] = <<>>
    BY DEF NoGroup
  <2>2. NoGroup.mode = "none" /\ Chain(<<>>)
    BY DEF NoGroup, Chain
  <2>3. QED
    BY <1>1, <2>1, <2>2 DEF KeysOK
<1>5. AskOK'
  BY <1>1 DEF AskOK, NoGroup
<1>6. QED
  BY <1>2, <1>3, <1>4, <1>5 DEF CInv

\* What a message does to the keys.
LEMMA ChatSeeds ==
    ASSUME CInv, NEW m \in sent, live' = Seeded(m, rec, live),
           keyed' = keyed \cup ({live'.epoch} \ {-1}), rec' = rec, log' = log
    PROVE  /\ KeysOK(live, keyed, log)'
           /\ KeyStep(live, keyed, Front, live', keyed', Front')
           /\ live'.mode # "none" => rec.epoch <= live'.epoch
           /\ live'.mode = "none" => live.mode = "none"
           /\ ModeAllowed(m, rec) =>
                /\ live' = SeedChannelRoot(live, rec) /\ keyed' = keyed \cup {live'.epoch}
                /\ Front' = live'.epoch
           /\ ~ModeAllowed(m, rec) => live' = live /\ keyed' = keyed /\ Front' = Front
<1>1. NamesIn(rec, log) /\ rec.epoch \in Nat /\ Front \in Nat
  BY RecNames, FrontIsNat
<1>2. CASE ModeAllowed(m, rec)
  <2>1. live' = SeedChannelRoot(live, rec)
    BY <1>2 DEF Seeded
  <2>2. /\ KeysOK(live', keyed \cup {live'.epoch}, log) /\ live'.mode # "none"
        /\ live'.epoch \in Nat /\ rec.epoch <= live'.epoch
    BY <1>1, <2>1, SeedKeepsKeys DEF CInv, IInv
  <2>3. keyed' = keyed \cup {live'.epoch}
    BY <2>2
  <2>4. KeyStep(live, keyed, Front, live', keyed', live'.epoch)
    BY <1>1, <2>1, <2>3, SeedStep
  <2>5. Front' = live'.epoch
    BY <2>2 DEF Front
  <2>6. QED
    BY <1>2, <2>1, <2>2, <2>3, <2>4, <2>5
<1>3. CASE ~ModeAllowed(m, rec)
  <2>1. live' = live
    BY <1>3 DEF Seeded
  <2>2. keyed' = keyed
    <3>1. live.mode = "none" => live.epoch = -1
      BY DEF CInv, IInv, GroupOK, NoGroup
    <3>2. live.mode # "none" => live.epoch \in keyed
      BY DEF CInv, KeysOK
    <3>3. QED
      BY <2>1, <3>1, <3>2
  <2>3. Front' = Front
    BY <2>1 DEF Front
  <2>4. KeyStep(live, keyed, Front, live', keyed', Front')
    BY <1>1, <2>1, <2>2, <2>3 DEF KeyStep
  <2>5. QED
    BY <1>3, <2>1, <2>2, <2>3, <2>4 DEF CInv, AskOK
<1>4. QED
  BY <1>2, <1>3

\* A message of this epoch or an older one that does not open is out of reach.
LEMMA ChatGone ==
    ASSUME CInv, NEW m \in sent, live' = Seeded(m, rec, live),
           keyed' = keyed \cup ({live'.epoch} \ {-1}), rec' = rec, log' = log,
           ~Decodes(m, rec, live), m.epoch <= rec.epoch
    PROVE  Gone(m, live', keyed', Front')
<1>1. NamesIn(rec, log) /\ rec.epoch \in Nat /\ IsMessage(m, log) /\ m.epoch \in Nat
  BY RecNames, SentAre DEF IsMessage
<1>2. CASE ModeAllowed(m, rec)
  <2>1. /\ live' = SeedChannelRoot(live, rec) /\ keyed' = keyed \cup {live'.epoch}
        /\ Front' = live'.epoch
    BY <1>2, ChatSeeds
  <2>2. Gone(m, live', keyed \cup {live'.epoch}, live'.epoch)
    BY <1>1, <2>1, Undecoded DEF CInv, IInv
  <2>3. QED
    BY <2>1, <2>2
<1>3. CASE ~ModeAllowed(m, rec)
  <2>1. live' = live /\ keyed' = keyed /\ Front' = Front
    BY <1>3, ChatSeeds
  <2>2. m.mode = "tree" /\ rec.mode = "crowd" /\ m.epoch < rec.epoch - 1
    BY <1>1, <1>3, Disallowed DEF CInv
  <2>3. CASE live.mode = "none"
    <3>1. keyed = {} /\ Front = rec.epoch
      BY <2>3 DEF CInv, KeysOK, Front
    <3>2. QED
      BY <1>1, <2>1, <2>2, <3>1 DEF Gone
  <2>4. CASE live.mode # "none"
    <3>1. rec.epoch <= live.epoch /\ live.epoch \in Nat /\ Front = live.epoch
          /\ Named(log, live.epoch, live.mode) /\ Named(log, rec.epoch, rec.mode)
      BY <1>1, <2>4 DEF CInv, AskOK, IInv, GroupOK, Front, KeysOK, NamesIn
    <3>2. live.mode = "crowd"
      BY <1>1, <2>2, <3>1, OneMode DEF CInv
    <3>3. QED
      BY <1>1, <2>1, <2>2, <3>1, <3>2 DEF Gone
  <2>5. QED
    BY <2>3, <2>4
<1>4. QED
  BY <1>2, <1>3


LEMMA ChatKeepsAll == ASSUME CInv, IInv', NEW m \in sent, ReceiveChat(m) PROVE CInv'
<1> DEFINE listed == m.from \in rec.members
           decoded == Decodes(m, rec, live)
           hold == ~decoded /\ WorthHolding(m, rec) /\ m.id \notin Ids(buffer)
<1>1. /\ live' = Seeded(m, rec, live) /\ keyed' = keyed \cup ({live'.epoch} \ {-1})
      /\ UNCHANGED <<log, held, sent, rec, reply>>
      /\ store' = IF decoded /\ listed THEN store \cup {m.id} ELSE store
      /\ buffer' = IF hold THEN Push(buffer, m) ELSE buffer
      /\ evicted' = evicted \cup (IF hold THEN (Ids(buffer) \cup {m.id}) \ Ids(buffer') ELSE {})
      /\ heard' = IF listed THEN heard \cup {m.id} ELSE heard
  BY DEF ReceiveChat
<1>2. EpochsOK(log)' /\ HeldOK' /\ SentOK'
  <2>1. heard' \subseteq heard \cup {n.id : n \in sent}
    BY <1>1
  <2>2. QED
    BY <1>1, <2>1, MineOthers DEF MineSame
<1>3. RecAt'
  BY <1>1, RecKept
<1>4. /\ KeysOK(live, keyed, log)'
      /\ KeyStep(live, keyed, Front, live', keyed', Front')
      /\ live'.mode # "none" => rec.epoch <= live'.epoch
      /\ live'.mode = "none" => live.mode = "none"
  BY <1>1, ChatSeeds
<1>5. AskOK'
  BY <1>1, <1>4 DEF CInv, AskOK
<1>6. BufOK'
  <2>1. CASE hold
    <3>1. buffer \in Seq(sent)
      BY DEF CInv, BufOK
    <3>2. buffer' \in Seq(sent) /\ PushedOnto(buffer', buffer, m)
      BY <1>1, <2>1, <3>1, PushFacts
    <3>3. m.epoch > rec.epoch
      BY <2>1 DEF WorthHolding
    <3>4. QED
      BY <1>1, <3>2, <3>3 DEF CInv, BufOK, PushedOnto
  <2>2. CASE ~hold
    BY <1>1, <2>2 DEF CInv, BufOK
  <2>3. QED
    BY <2>1, <2>2
<1>7. ASSUME NEW n \in sent, Accounted(n) PROVE Accounted(n)'
  <2>1. store \subseteq store' /\ evicted \subseteq evicted' /\ Ids(buffer) \subseteq Ids(buffer') \cup evicted'
    BY <1>1
  <2>2. RemovedSince(n) => RemovedSince(n)'
    BY <1>1 DEF RemovedSince, Rev
  <2>3. Gone(n, live, keyed, Front) => Gone(n, live', keyed', Front')
    BY <1>4, SentAre, GoneStays DEF IsMessage
  <2>4. QED
    BY <1>7, <2>1, <2>2, <2>3 DEF Accounted
<1>8. listed => Accounted(m)'
  <2> SUFFICES ASSUME listed PROVE Accounted(m)'
    OBVIOUS
  <2>1. CASE decoded
    BY <1>1, <2>1 DEF Accounted
  <2>2. CASE ~decoded /\ m.epoch > rec.epoch
    <3>1. m.id \in Ids(buffer) \/ hold
      BY <2>2 DEF WorthHolding
    <3>2. m.id \in Ids(buffer') \cup evicted'
      BY <1>1, <3>1
    <3>3. QED
      BY <3>2 DEF Accounted
  <2>3. CASE ~decoded /\ ~(m.epoch > rec.epoch)
    <3>1. m.epoch <= rec.epoch
      BY <2>3, SentAre, RecNames DEF IsMessage
    <3>2. Gone(m, live', keyed', Front')
      BY <1>1, <2>3, <3>1, ChatGone
    <3>3. QED
      BY <3>2 DEF Accounted
  <2>4. QED
    BY <2>1, <2>2, <2>3
<1>9. Explained'
  <2> SUFFICES ASSUME NEW n \in sent, n.id \in heard' PROVE Accounted(n)'
    BY <1>1 DEF Explained
  <2>1. CASE n.id \in heard
    BY <1>7, <2>1 DEF CInv, Explained
  <2>2. CASE n.id \notin heard
    <3>1. listed /\ n.id = m.id
      BY <1>1, <2>2
    <3>2. n = m
      BY <3>1 DEF CInv, SentOK
    <3>3. QED
      BY <1>8, <3>1, <3>2
  <2>3. QED
    BY <2>1, <2>2
<1>10. QED
  BY <1>2, <1>3, <1>4, <1>5, <1>6, <1>9 DEF CInv

----------------------------------------------------------------------------
(* The steps of the others.                                                 *)

\* What the owner appends: the next epoch, or the last one again.
NextRecord(e) ==
    \/ e = Latest
    \/ e.epoch = Latest.epoch + 1 /\ Owner \in e.members /\ (Latest.mode = "crowd" => e.mode = "crowd")

LEMMA LongerLog ==
    ASSUME CInv, NEW e \in LogEntry, NextRecord(e), NEW lg, lg = Append(log, e)
    PROVE  /\ EpochsOK(lg) /\ Len(lg) = Len(log) + 1 /\ lg[Len(lg)] = e
           /\ \A i \in 1..Len(log) : lg[i] = log[i] /\ i \in 1..Len(lg)
           /\ \A f, md : (Named(lg, f, md) /\ f <= Latest.epoch) => Named(log, f, md)
<1>1. /\ Len(log) \in Nat /\ Len(log) >= 1 /\ log \in Seq(LogEntry) /\ Latest \in LogEntry
      /\ Latest = log[Len(log)] /\ Len(log) \in 1..Len(log)
  BY Sizes, LatestInLog DEF CInv, IInv, Latest
<1>2. /\ lg \in Seq(LogEntry) /\ Len(lg) = Len(log) + 1 /\ lg[Len(lg)] = e
      /\ \A i \in 1..Len(log) : lg[i] = log[i] /\ i \in 1..Len(lg)
      /\ \A i \in 1..Len(lg) : i \in 1..Len(log) \/ (i = Len(lg) /\ lg[i] = e)
  BY <1>1
<1>3. \A i \in 1..Len(log) : log[i].epoch \in Nat /\ log[i].epoch <= Latest.epoch
  BY <1>1, Sizes DEF CInv, EpochsOK, Rev
<1>4. /\ \A i, j \in 1..Len(log) : i <= j => log[i].epoch <= log[j].epoch
      /\ \A i, j \in 1..Len(log) : log[i].epoch = log[j].epoch =>
           log[i].mode = log[j].mode /\ log[i].members = log[j].members
      /\ \A i, j \in 1..Len(log) :
           (log[i].epoch <= log[j].epoch /\ log[i].mode = "crowd") => log[j].mode = "crowd"
      /\ \A i \in 1..Len(log) : Owner \in log[i].members
  BY DEF CInv, EpochsOK
<1>5. /\ e.epoch \in Nat /\ Latest.epoch \in Nat /\ Latest.epoch <= e.epoch /\ Owner \in e.members
      /\ e.epoch <= Latest.epoch => e = Latest
      /\ Latest.mode = "crowd" => e.mode = "crowd"
  BY <1>1, <1>4 DEF NextRecord, LogEntry
<1>6. \A i, j \in 1..Len(lg) : i <= j => lg[i].epoch <= lg[j].epoch
  <2> SUFFICES ASSUME NEW i \in 1..Len(lg), NEW j \in 1..Len(lg), i <= j
               PROVE  lg[i].epoch <= lg[j].epoch
    OBVIOUS
  <2>1. CASE j \in 1..Len(log)
    <3>1. i \in 1..Len(log)
      BY <1>1, <2>1
    <3>2. QED
      BY <1>2, <1>4, <2>1, <3>1
  <2>2. CASE j = Len(lg) /\ i \in 1..Len(log)
    BY <1>2, <1>3, <1>5, <2>2
  <2>3. CASE j = Len(lg) /\ i = Len(lg)
    BY <1>2, <1>5, <2>3
  <2>4. QED
    BY <1>2, <2>1, <2>2, <2>3
<1>7. \A i \in 1..Len(lg) : \E k \in 1..Len(log) :
        lg[i] = log[k] \/ (lg[i] = e /\ k = Len(log) /\ e # Latest /\ e.epoch > Latest.epoch)
  <2> SUFFICES ASSUME NEW i \in 1..Len(lg)
               PROVE \E k \in 1..Len(log) : lg[i] = log[k]
                        \/ (lg[i] = e /\ k = Len(log) /\ e # Latest /\ e.epoch > Latest.epoch)
    OBVIOUS
  <2>1. e = Latest \/ e.epoch > Latest.epoch
    BY <1>5
  <2>2. CASE i \in 1..Len(log)
    BY <1>2, <2>2
  <2>3. CASE i = Len(lg) /\ lg[i] = e
    BY <1>1, <1>5, <2>1, <2>3
  <2>4. QED
    BY <1>2, <2>2, <2>3
<1>8. ASSUME NEW i \in 1..Len(lg), NEW j \in 1..Len(lg)
      PROVE  /\ lg[i].epoch = lg[j].epoch => lg[i].mode = lg[j].mode /\ lg[i].members = lg[j].members
             /\ (lg[i].epoch <= lg[j].epoch /\ lg[i].mode = "crowd") => lg[j].mode = "crowd"
  <2>1. PICK k \in 1..Len(log) :
          lg[i] = log[k] \/ (lg[i] = e /\ k = Len(log) /\ e # Latest /\ e.epoch > Latest.epoch)
    BY <1>7
  <2>2. PICK l \in 1..Len(log) :
          lg[j] = log[l] \/ (lg[j] = e /\ l = Len(log) /\ e # Latest /\ e.epoch > Latest.epoch)
    BY <1>7
  <2>3. CASE lg[i] = log[k] /\ lg[j] = log[l]
    BY <1>4, <2>3
  <2>4. CASE lg[i] = log[k] /\ lg[j] = e /\ e.epoch > Latest.epoch
    <3>1. log[k].epoch <= Latest.epoch /\ log[k].epoch \in Nat
      BY <1>3
    <3>2. log[k].mode = "crowd" => Latest.mode = "crowd"
      BY <1>1, <1>4, <3>1
    <3>3. QED
      BY <1>5, <2>4, <3>1, <3>2
  <2>5. CASE lg[i] = e /\ lg[j] = log[l] /\ e.epoch > Latest.epoch
    <3>1. log[l].epoch <= Latest.epoch /\ log[l].epoch \in Nat
      BY <1>3
    <3>2. QED
      BY <1>5, <2>5, <3>1
  <2>6. CASE lg[i] = e /\ lg[j] = e
    BY <2>6
  <2>7. QED
    BY <2>1, <2>2, <2>3, <2>4, <2>5, <2>6
<1>9. \A i \in 1..Len(lg) : Owner \in lg[i].members
  BY <1>2, <1>4, <1>5
<1>10. EpochsOK(lg)
  BY <1>2, <1>6, <1>8, <1>9 DEF EpochsOK
<1>11. ASSUME NEW f, NEW md, Named(lg, f, md), f <= Latest.epoch PROVE Named(log, f, md)
  <2>1. PICK i \in 1..Len(lg) : lg[i].epoch = f /\ lg[i].mode = md
    BY <1>11 DEF Named
  <2>2. PICK k \in 1..Len(log) :
          lg[i] = log[k] \/ (lg[i] = e /\ k = Len(log) /\ e # Latest /\ e.epoch > Latest.epoch)
    BY <1>7
  <2>3. lg[i] = log[k]
    BY <1>5, <1>11, <2>1, <2>2
  <2>4. QED
    BY <2>1, <2>3 DEF Named
<1>12. QED
  BY <1>2, <1>10, <1>11

LEMMA OwnerKeepsAll ==
    ASSUME CInv, IInv', NEW e \in LogEntry, NextRecord(e), Broadcast(e),
           \A p \in Others : \/ held'[p] = held[p]
                             \/ held'[p] = Len(log') /\ p \in e.members
    PROVE  CInv'
<1>1. /\ log' = Append(log, e)
      /\ UNCHANGED <<sent, rec, live, buffer, store, reply, heard, evicted, keyed>>
  BY DEF Broadcast, myVars
<1>2. /\ EpochsOK(log') /\ Len(log') = Len(log) + 1 /\ log'[Len(log')] = e
      /\ \A i \in 1..Len(log) : log'[i] = log[i] /\ i \in 1..Len(log')
      /\ \A f, md : (Named(log', f, md) /\ f <= Latest.epoch) => Named(log, f, md)
  <2>1. PICK lg : lg = Append(log, e)
    OBVIOUS
  <2>2. log' = lg
    BY <1>1, <2>1
  <2>3. QED
    BY <2>1, <2>2, LongerLog
<1>3. Len(log) \in Nat /\ Len(log') \in 1..Len(log')
  BY <1>2, Sizes DEF CInv
<1>4. HeldOK'
  <2> SUFFICES ASSUME NEW p \in Others, held'[p] > 0 PROVE held'[p] \in Rev' /\ p \in log'[held'[p]].members
    BY DEF HeldOK
  <2>1. CASE held'[p] = held[p]
    BY <1>2, <2>1 DEF CInv, HeldOK, Rev
  <2>2. CASE held'[p] = Len(log') /\ p \in e.members
    BY <1>2, <1>3, <2>2 DEF Rev
  <2>3. QED
    BY <2>1, <2>2
<1>5. SentOK'
  <2>1. \A m \in sent : SealedIn(m, log')
    BY <1>2 DEF CInv, SentOK, SealedIn
  <2>2. QED
    BY <1>1, <2>1 DEF CInv, SentOK
<1>6. RecAt'
  BY <1>1, <1>2 DEF CInv, RecAt, Rev, Stored
<1>7. KeysOK(live, keyed, log)'
  <2>1. \A f, md : Named(log, f, md) => Named(log', f, md)
    BY <1>2 DEF Named
  <2>2. CASE live.mode = "none"
    BY <1>1, <2>2 DEF CInv, KeysOK
  <2>3. CASE live.mode # "none"
    <3>1. live.epoch \in Nat /\ Named(log, live.epoch, live.mode) /\ \A f \in keyed : f \in Nat /\ f <= live.epoch
      BY <2>3 DEF CInv, IInv, GroupOK, KeysOK
    <3>2. live.epoch <= Latest.epoch /\ Latest.epoch \in Nat
      <4>1. PICK i \in 1..Len(log) : log[i].epoch = live.epoch
        BY <3>1 DEF Named
      <4>2. i <= Len(log) /\ Len(log) \in 1..Len(log)
        BY <4>1, Sizes DEF CInv
      <4>3. QED
        BY <4>1, <4>2, Sizes DEF CInv, EpochsOK, Latest, Rev
    <3>3. \A f, md : (f \in keyed /\ Named(log', f, md)) => Named(log, f, md)
      BY <1>2, <3>1, <3>2
    <3>4. QED
      BY <1>1, <2>1, <2>3, <3>1, <3>3 DEF CInv, KeysOK
  <2>4. QED
    BY <2>2, <2>3
<1>8. AskOK'
  <2>1. reply # NoReply /\ reply.rev > 0 => reply.rev \in 1..Len(log)
    BY Sizes DEF CInv, IInv, ReplyOK
  <2>2. QED
    BY <1>1, <1>2, <2>1 DEF CInv, AskOK
<1>9. Explained'
  <2>1. \A m : RemovedSince(m) => RemovedSince(m)'
    BY <1>2 DEF RemovedSince, Rev
  <2>2. QED
    BY <1>1, <2>1 DEF CInv, Explained, Accounted, Front
<1>10. BufOK'
  BY <1>1 DEF CInv, BufOK
<1>11. QED
  BY <1>2, <1>4, <1>5, <1>6, <1>7, <1>8, <1>9, <1>10 DEF CInv


LEMMA RotatedFollows ==
    ASSUME CInv, NEW ms \in SUBSET Peers, Owner \in ms
    PROVE  Rotated(ms) \in LogEntry /\ NextRecord(Rotated(ms)) /\ Rotated(ms).members = ms
<1>1. Latest \in LogEntry
  BY LatestInLog DEF CInv, IInv
<1>2. QED
  BY <1>1, SelectModeInModes DEF Rotated, LogEntry, NextRecord, Modes

LEMMA OwnerIsMember == ASSUME CInv PROVE Latest \in LogEntry /\ Owner \in Latest.members
<1>1. Len(log) \in 1..Len(log) /\ Latest \in LogEntry
  BY Sizes, LatestInLog DEF CInv, IInv
<1>2. QED
  BY <1>1 DEF CInv, EpochsOK, Latest

LEMMA AdmitKeepsAll == ASSUME CInv, IInv', NEW p \in Others, Admit(p) PROVE CInv'
<1> DEFINE ms == Latest.members \cup {p}
<1>1. ms \in SUBSET Peers /\ Owner \in ms /\ p \in ms
  BY OwnerIsMember DEF LogEntry, Peers
<1>2. Broadcast(Rotated(ms)) /\ held' = [held EXCEPT ![p] = Len(log')]
  BY DEF Admit
<1> HIDE DEF ms
<1>3. \A q \in Others : held'[q] = held[q] \/ (held'[q] = Len(log') /\ q = p)
  BY <1>2
<1>4. QED
  BY <1>1, <1>2, <1>3, RotatedFollows, OwnerKeepsAll

LEMMA DropKeepsAll == ASSUME CInv, IInv', NEW p \in Others, Drop(p) PROVE CInv'
<1> DEFINE ms == Latest.members \ {p}
<1>1. ms \in SUBSET Peers /\ Owner \in ms
  BY OwnerIsMember, PeersDiffer DEF LogEntry
<1>2. Broadcast(Rotated(ms)) /\ held' = held
  BY DEF Drop
<1> HIDE DEF ms
<1>3. QED
  BY <1>1, <1>2, RotatedFollows, OwnerKeepsAll

LEMMA EditKeepsAll == ASSUME CInv, IInv', Edit PROVE CInv'
<1>1. Latest \in LogEntry /\ NextRecord(Latest)
  BY OwnerIsMember DEF NextRecord
<1>2. Broadcast(Latest) /\ held' = held
  BY DEF Edit
<1>3. QED
  BY <1>1, <1>2, OwnerKeepsAll

LEMMA HearsKeepsAll == ASSUME CInv, IInv', NEW p \in Others, Hears(p) PROVE CInv'
<1>1. PICK r \in Rev : p \in log[r].members /\ held' = [held EXCEPT ![p] = r]
  BY DEF Hears
<1>2. UNCHANGED <<log, sent, rec, live, buffer, store, reply, heard, evicted, keyed>>
  BY DEF Hears, myVars
<1>3. HeldOK'
  BY <1>1, <1>2 DEF CInv, HeldOK, Rev
<1>4. Explained' /\ RecAt'
  BY <1>2, RecKept DEF CInv, Explained, Accounted, RemovedSince, Rev, Front
<1>5. QED
  BY <1>2, <1>3, <1>4 DEF CInv, SentOK, BufOK, AskOK

LEMMA SendKeepsAll == ASSUME CInv, IInv', NEW p \in Others \cup {Owner}, Send(p) PROVE CInv'
<1> DEFINE r == IF p = Owner THEN Len(log) ELSE held[p]
           n == Cardinality(sent)
           x == [id |-> n + 1, from |-> p, mode |-> log[r].mode, epoch |-> log[r].epoch]
<1>1. r \in 1..Len(log) /\ p \in log[r].members
  <2>1. CASE p = Owner
    BY <2>1, OwnerIsMember, Sizes DEF CInv, Latest
  <2>2. CASE p # Owner
    BY <2>2 DEF Send, CInv, HeldOK, Rev
  <2>3. QED
    BY <2>1, <2>2
<1>2. /\ sent' = sent \cup {x}
      /\ UNCHANGED <<log, held, rec, live, buffer, store, reply, heard, evicted, keyed>>
  BY DEF Send, Latest, myVars
<1>3. IsFiniteSet(sent) /\ n \in Nat /\ \A m \in sent : m.id \in 1..n
  BY FS_CardinalityType DEF CInv, SentOK
<1>4. x.id = n + 1 /\ SealedIn(x, log)
  BY <1>1 DEF SealedIn
<1> HIDE DEF x, r, n
<1>5. x \notin sent
  BY <1>3, <1>4
<1>6. IsFiniteSet(sent') /\ Cardinality(sent') = n + 1
  BY <1>2, <1>3, <1>5, FS_AddElement DEF n
<1>7. heard \subseteq 1..n
  BY DEF CInv, SentOK, n
<1>8. SentOK'
  <2>1. \A m \in sent' : m.id \in 1..(n + 1) /\ SealedIn(m, log)
    BY <1>2, <1>3, <1>4 DEF CInv, SentOK
  <2>2. \A m, k \in sent' : m.id = k.id => m = k
    <3>1. \A m \in sent : m.id # x.id
      BY <1>3, <1>4
    <3>2. QED
      BY <1>2, <3>1 DEF CInv, SentOK
  <2>3. heard' \subseteq 1..(n + 1)
    BY <1>2, <1>3, <1>7
  <2>4. QED
    BY <1>2, <1>6, <2>1, <2>2, <2>3 DEF SentOK
<1>9. HeldOK' /\ RecAt' /\ AskOK'
  BY <1>2, RecKept DEF CInv, HeldOK, AskOK, Rev
<1>10. BufOK'
  <2>1. buffer \in Seq(sent')
    <3>1. buffer \in Seq(sent)
      BY DEF CInv, BufOK
    <3>2. \A i \in 1..Len(buffer) : buffer[i] \in sent'
      BY <1>2, <3>1
    <3>3. QED
      BY <3>1, <3>2
  <2>2. QED
    BY <1>2, <2>1 DEF CInv, BufOK
<1>11. Explained'
  <2> SUFFICES ASSUME NEW m \in sent', m.id \in heard PROVE Accounted(m)'
    BY <1>2 DEF Explained
  <2>1. m \in sent
    BY <1>2, <1>3, <1>4, <1>7
  <2>2. Accounted(m)
    BY <2>1 DEF CInv, Explained
  <2>3. QED
    BY <1>2, <2>2 DEF Accounted, RemovedSince, Rev, Front
<1>12. QED
  BY <1>2, <1>8, <1>9, <1>10, <1>11 DEF CInv

----------------------------------------------------------------------------
(* The theorem.                                                             *)

LEMMA StartsAccounted == Init => CInv
<1> SUFFICES ASSUME Init PROVE CInv
  OBVIOUS
<1>1. PICK early \in SUBSET Others :
        /\ log = <<[epoch |-> 0, members |-> {Owner, Me} \cup early,
                    mode |-> SelectMode(2 + Cardinality(early), "tree")]>>
        /\ held = [p \in Others |-> IF p \in early THEN 1 ELSE 0]
  BY DEF Init
<1>2. IInv
  BY InitOK
<1>3. /\ Len(log) = 1 /\ log[1].epoch = 0 /\ log[1].members = {Owner, Me} \cup early
      /\ log \in Seq(LogEntry)
  BY <1>1, <1>2 DEF IInv, LogOK
<1>4. EpochsOK(log)
  <2>1. \A i \in 1..Len(log) : i = 1
    BY <1>3
  <2>2. QED
    BY <1>3, <2>1 DEF EpochsOK
<1>5. HeldOK
  BY <1>1, <1>3 DEF HeldOK, Rev
<1>6. SentOK
  BY FS_EmptySet DEF Init, SentOK
<1>7. RecAt
  BY <1>3 DEF Init, RecAt, Rev, Stored
<1>8. BufOK /\ AskOK /\ Explained
  BY DEF Init, BufOK, AskOK, Explained, NoGroup
<1>9. KeysOK(live, keyed, log)
  <2>1. \A md \in Modes : NoGroup.ring[md] = <<>>
    BY DEF NoGroup
  <2>2. NoGroup.mode = "none" /\ Chain(<<>>)
    BY DEF NoGroup, Chain
  <2>3. QED
    BY <2>1, <2>2 DEF Init, KeysOK
<1>10. QED
  BY <1>2, <1>4, <1>5, <1>6, <1>7, <1>8, <1>9 DEF CInv

LEMMA StaysAccounted == CInv /\ [Next]_vars => CInv'
<1> SUFFICES ASSUME CInv, [Next]_vars PROVE CInv'
  OBVIOUS
<1>1. IInv'
  BY StepOK DEF CInv
<1>2. ASSUME NEW p \in Others, Admit(p) \/ Drop(p) \/ Hears(p) PROVE CInv'
  BY <1>1, <1>2, AdmitKeepsAll, DropKeepsAll, HearsKeepsAll
<1>3. CASE Edit
  BY <1>1, <1>3, EditKeepsAll
<1>4. ASSUME NEW p \in Others \cup {Owner}, Send(p) PROVE CInv'
  BY <1>1, <1>4, SendKeepsAll
<1>5. ASSUME NEW r \in Rev, ReceiveUpdate(r) PROVE CInv'
  BY <1>1, <1>5, UpdateKeepsAll
<1>6. ASSUME NEW m \in sent, ReceiveChat(m) PROVE CInv'
  BY <1>1, <1>6, ChatKeepsAll
<1>7. CASE Ask \/ Answer \/ LoseReply
  BY <1>1, <1>7, AskingKeepsAll
<1>8. CASE TakeReply
  BY <1>1, <1>8, TakeReplyKeepsAll
<1>9. CASE Restart
  BY <1>1, <1>9, RestartKeepsAll
<1>10. CASE UNCHANGED vars
  <2>1. UNCHANGED <<log, held, sent, rec, live, store, buffer, reply, heard, evicted, keyed>>
    BY <1>10 DEF vars
  <2>2. AskOK'
    BY <2>1 DEF CInv, AskOK
  <2>3. QED
    BY <1>1, <2>1, <2>2, StillKeepsAll
<1>11. QED
  BY <1>2, <1>3, <1>4, <1>5, <1>6, <1>7, <1>8, <1>9, <1>10 DEF Next

\* A message that reached me from an author my record lists is stored or waits for a
\* root that can still come; else the buffer was full, its author was removed since, or
\* its epoch was skipped or has left the legacy windows: it is never lost in any other
\* way, whatever order updates, re-pulls and messages arrive in (handleChatSend,
\* bufferFutureEpochChannelMessage, replayBufferedChannelMessages of inbound.ts).
THEOREM LossesAreExplained == Spec => []LossIsExplained
<1>1. CInv => LossIsExplained
  <2> SUFFICES ASSUME CInv, NEW m \in sent, m.id \in heard
               PROVE  \/ m.id \in store \cup evicted
                      \/ m.id \in Ids(buffer) /\ m.epoch > rec.epoch
                      \/ RemovedSince(m)
                      \/ OutOfReach(m)
    BY DEF LossIsExplained
  <2>1. Accounted(m)
    BY DEF CInv, Explained
  <2>2. m.id \in Ids(buffer) => m.epoch > rec.epoch
    BY HeldMessage DEF CInv, BufOK
  <2>3. Gone(m, live, keyed, Front) => OutOfReach(m)
    <3> DEFINE front == IF live.epoch > rec.epoch THEN live.epoch ELSE rec.epoch
    <3>1. front = Front
      <4>1. rec.epoch \in Nat /\ (live.mode = "none" => live.epoch = -1)
            /\ (live.mode # "none" => live.epoch \in Nat /\ rec.epoch <= live.epoch)
        BY RecNames DEF CInv, IInv, GroupOK, NoGroup, AskOK
      <4>2. QED
        BY <4>1 DEF Front
    <3> HIDE DEF front
    <3>2. (m.mode = "tree" /\ live.mode = "crowd") => {m.mode} # {rec.mode, live.mode}
      OBVIOUS
    <3>3. QED
      BY <3>1, <3>2 DEF Gone, OutOfReach, front
  <2>4. QED
    BY <2>1, <2>2, <2>3 DEF Accounted
<1>2. QED
  BY <1>1, StartsAccounted, StaysAccounted, PTL DEF Spec
=============================================================================
