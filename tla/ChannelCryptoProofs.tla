------------------------ MODULE ChannelCryptoProofs ------------------------
(***************************************************************************)
(* What setRoot preserves, for any legacy windows and any roots offered to *)
(* it in any order: the invariant of a client's live channel keys, and     *)
(* that they never roll back.                                              *)
(***************************************************************************)
EXTENDS ChannelCrypto, SequenceTheorems, TLAPS

KeyEntry == [epoch : Nat, root : Nat]

\* The current mode's ring is headed by the current epoch; the other ring, if it is
\* not empty, by that epoch or the one before.
GroupOK(g) ==
    /\ g \in [mode : Modes \cup {"none"}, epoch : Int, ring : [Modes -> Seq(KeyEntry)]]
    /\ g.mode = "none" => g = NoGroup
    /\ g.mode # "none" =>
         /\ g.epoch \in Nat
         /\ g.ring[g.mode] # <<>> /\ Newest(g.ring[g.mode]).epoch = g.epoch
         /\ \A m \in Modes \ {g.mode} : g.ring[m] # <<>> =>
              g.epoch - 1 <= Newest(g.ring[m]).epoch /\ Newest(g.ring[m]).epoch <= g.epoch

LEMMA NoGroupOK == GroupOK(NoGroup)
BY DEF GroupOK, NoGroup, Modes

\* Putting an entry in front of a ring and cutting it keeps the entry.
LEMMA CutKeepsNewest ==
    ASSUME NEW ring \in Seq(KeyEntry), NEW e \in KeyEntry, NEW n \in Nat, n >= 1,
           NEW r, r = Cut(<<e>> \o ring, n)
    PROVE  r \in Seq(KeyEntry) /\ r # <<>> /\ Newest(r) = e
<1> DEFINE all == <<e>> \o ring
           k == IF Len(all) < n THEN Len(all) ELSE n
<1>1. all \in Seq(KeyEntry) /\ Len(all) = 1 + Len(ring) /\ all[1] = e /\ Len(ring) \in Nat
  OBVIOUS
<1>2. k \in Nat /\ 1 <= k /\ k <= Len(all)
  BY <1>1
<1>3. r = SubSeq(all, 1, k)
  BY DEF Cut
<1> HIDE DEF all, k
<1>4. r \in Seq(KeyEntry) /\ Len(r) = k /\ r[1] = all[1]
  BY <1>1, <1>2, <1>3, SubSeqProperties
<1>5. QED
  BY <1>1, <1>2, <1>4 DEF Newest

\* installEpochRoot: a ring never rolls back.
InstallFacts(ring, epoch, r) ==
    /\ r \in Seq(KeyEntry) /\ r # <<>>
    /\ (ring = <<>> \/ Newest(ring).epoch < epoch) => Newest(r).epoch = epoch
    /\ (ring # <<>> /\ epoch <= Newest(ring).epoch) => r = ring

LEMMA InstallKeeps ==
    ASSUME NEW ring \in Seq(KeyEntry), NEW epoch \in Nat, NEW root \in Nat,
           NEW window \in Nat
    PROVE  InstallFacts(ring, epoch, InstallEpochRoot(ring, epoch, root, window))
<1> DEFINE r == InstallEpochRoot(ring, epoch, root, window)
<1> DEFINE e == [epoch |-> epoch, root |-> root]
<1>1. e \in KeyEntry
  BY DEF KeyEntry
<1> HIDE DEF r
<1>2. CASE ring # <<>> /\ epoch <= Newest(ring).epoch
  <2>1. r = ring
    BY <1>2 DEF InstallEpochRoot, r
  <2>2. ring[1] \in KeyEntry
    BY <1>2
  <2>3. ~(Newest(ring).epoch < epoch)
    BY <1>2, <2>2 DEF Newest, KeyEntry
  <2>4. QED
    BY <1>2, <2>1, <2>3 DEF InstallFacts, r
<1>3. CASE ~(ring # <<>> /\ epoch <= Newest(ring).epoch)
  <2>1. r = Cut(<<e>> \o ring, window + 1)
    BY <1>3 DEF InstallEpochRoot, r
  <2>2. window + 1 \in Nat /\ window + 1 >= 1
    OBVIOUS
  <2>3. r \in Seq(KeyEntry) /\ r # <<>> /\ Newest(r) = e
    BY <1>1, <2>1, <2>2, CutKeepsNewest
  <2>4. QED
    BY <1>3, <2>3 DEF InstallFacts, r
<1>4. QED
  BY <1>2, <1>3 DEF r

\* setRoot keeps the invariant, never moves the epoch back, and at the epoch it
\* already has changes nothing at all.
SetRootFacts(g, h) ==
    /\ GroupOK(h) /\ h.mode # "none"
    /\ h.epoch >= g.epoch
    /\ h.epoch = g.epoch => h = g

LEMMA SetRootKeeps ==
    ASSUME NEW g, GroupOK(g), NEW epoch \in Nat, NEW root \in Nat, NEW mode \in Modes,
           NEW h, h = SetRoot(g, epoch, root, mode)
    PROVE  SetRootFacts(g, h)
<1> DEFINE new == [m \in Modes |-> IF m = mode
                     THEN InstallEpochRoot(g.ring[m], epoch, root, Window(m))
                     ELSE Retired(g.ring[m], epoch)]
<1>g. /\ g.ring \in [Modes -> Seq(KeyEntry)] /\ g.epoch \in Int
      /\ g.mode \in Modes \cup {"none"}
      /\ g = [mode |-> g.mode, epoch |-> g.epoch, ring |-> g.ring]
  BY DEF GroupOK
<1>w. Window(mode) \in Nat
  BY WindowsAreNat DEF Window
<1>1. CASE ~Accepts(g, epoch, root, mode)
  <2>1. h = g
    BY <1>1 DEF SetRoot
  <2>2. g.mode # "none"
    BY <1>1 DEF Accepts
  <2>3. QED
    BY <1>g, <2>1, <2>2 DEF SetRootFacts
<1>2. CASE Accepts(g, epoch, root, mode) /\ g.mode # "none" /\ epoch = g.epoch
  <2>1. mode = g.mode /\ g.ring[mode] # <<>> /\ Newest(g.ring[mode]).epoch = epoch
    BY <1>2, <1>g DEF Accepts, GroupOK
  <2>2. InstallEpochRoot(g.ring[mode], epoch, root, Window(mode)) = g.ring[mode]
    BY <2>1 DEF InstallEpochRoot
  <2>3. ASSUME NEW m \in Modes \ {mode} PROVE Retired(g.ring[m], epoch) = g.ring[m]
    <3>1. CASE g.ring[m] = <<>>
      BY <3>1 DEF Retired
    <3>2. CASE g.ring[m] # <<>>
      <4>1. g.ring[m][1] \in KeyEntry
        BY <3>2, <1>g
      <4>2. epoch - 1 <= Newest(g.ring[m]).epoch /\ Newest(g.ring[m]).epoch \in Nat
        BY <1>2, <2>1, <3>2, <4>1 DEF GroupOK, Newest, KeyEntry
      <4>3. ~(Newest(g.ring[m]).epoch < epoch - 1)
        BY <4>2
      <4>4. QED
        BY <4>3 DEF Retired
    <3>3. QED
      BY <3>1, <3>2
  <2>4. new = g.ring
    BY <1>g, <2>2, <2>3
  <2>5. h = [mode |-> mode, epoch |-> epoch, ring |-> new]
    BY <1>2 DEF SetRoot
  <2>6. h = g
    BY <1>2, <1>g, <2>1, <2>4, <2>5
  <2>7. QED
    BY <1>2, <1>g, <2>6 DEF SetRootFacts
<1>3. CASE Accepts(g, epoch, root, mode) /\ (g.mode = "none" \/ epoch > g.epoch)
  <2>1. h = [mode |-> mode, epoch |-> epoch, ring |-> new]
    BY <1>3 DEF SetRoot
  <2>2. epoch > g.epoch
    BY <1>3 DEF GroupOK, NoGroup
  <2>3. ASSUME NEW m \in Modes, g.ring[m] # <<>>
        PROVE  Newest(g.ring[m]) \in KeyEntry /\ Newest(g.ring[m]).epoch < epoch
    <3>1. g.ring[m][1] \in KeyEntry
      BY <1>g, <2>3
    <3>2. g.mode # "none"
      BY <2>3 DEF GroupOK, NoGroup
    <3>3. Newest(g.ring[m]).epoch <= g.epoch
      BY <1>g, <2>3, <3>2 DEF GroupOK
    <3>4. QED
      BY <1>g, <2>2, <3>1, <3>3 DEF Newest, KeyEntry
  <2>4. /\ new[mode] \in Seq(KeyEntry) /\ new[mode] # <<>>
        /\ Newest(new[mode]).epoch = epoch
    <3> DEFINE old == g.ring[mode]
               r == InstallEpochRoot(old, epoch, root, Window(mode))
    <3>1. new[mode] = r
      OBVIOUS
    <3>2. old \in Seq(KeyEntry)
      BY <1>g
    <3>3. old = <<>> \/ Newest(old).epoch < epoch
      BY <2>3
    <3> HIDE DEF new, old
    <3>4. InstallFacts(old, epoch, r)
      BY <1>w, <3>2, InstallKeeps
    <3>5. QED
      BY <3>1, <3>3, <3>4 DEF InstallFacts
  <2>5. ASSUME NEW m \in Modes \ {mode}
        PROVE  /\ new[m] \in Seq(KeyEntry)
               /\ new[m] # <<>> => /\ epoch - 1 <= Newest(new[m]).epoch
                                   /\ Newest(new[m]).epoch <= epoch
    <3>1. new[m] = Retired(g.ring[m], epoch)
      OBVIOUS
    <3>2. g.ring[m] \in Seq(KeyEntry) /\ <<>> \in Seq(KeyEntry)
      BY <1>g
    <3>3. CASE new[m] = <<>>
      BY <3>2, <3>3
    <3>4. CASE new[m] # <<>>
      <4>1. new[m] = g.ring[m] /\ ~(Newest(g.ring[m]).epoch < epoch - 1)
        BY <3>1, <3>4 DEF Retired
      <4>2. Newest(g.ring[m]).epoch < epoch /\ Newest(g.ring[m]).epoch \in Nat
        BY <2>3, <3>4, <4>1 DEF KeyEntry
      <4>3. epoch - 1 <= Newest(g.ring[m]).epoch /\ Newest(g.ring[m]).epoch <= epoch
        BY <4>1, <4>2
      <4>4. QED
        BY <3>2, <4>1, <4>3
    <3>5. QED
      BY <3>3, <3>4
  <2> HIDE DEF new
  <2>6. new \in [Modes -> Seq(KeyEntry)]
    <3>1. \A m \in Modes : new[m] \in Seq(KeyEntry)
      BY <2>4, <2>5
    <3>2. QED
      BY <3>1 DEF new
  <2>7. mode # "none"
    BY DEF Modes
  <2>8. h.mode = mode /\ h.epoch = epoch /\ h.ring = new
    BY <2>1
  <2>9. h \in [mode : Modes \cup {"none"}, epoch : Int, ring : [Modes -> Seq(KeyEntry)]]
    BY <2>1, <2>6
  <2>10. GroupOK(h)
    BY <2>4, <2>5, <2>7, <2>8, <2>9 DEF GroupOK
  <2>11. QED
    BY <1>g, <2>2, <2>7, <2>8, <2>10 DEF SetRootFacts
<1>4. QED
  <2>1. Accepts(g, epoch, root, mode) => (g.mode = "none" \/ epoch > g.epoch \/ epoch = g.epoch)
    BY DEF Accepts
  <2>2. QED
    BY <1>1, <1>2, <1>3, <2>1
=============================================================================
