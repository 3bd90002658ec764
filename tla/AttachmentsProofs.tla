------------------------- MODULE AttachmentsProofs -------------------------
(***************************************************************************)
(* Attachments, for any blobs, peers and quotas.  The usage record is right*)
(* because only the operation at the head of the queue has begun: what it  *)
(* read is still so when it writes.  A cancelled upload leaves nothing     *)
(* because fragments come with their manifest, and because an upload has at*)
(* most one operation in the queue, of the kind its phase waits for.  A    *)
(* steady peer is used because it delivers what it is asked for, or else   *)
(* stops being steady for every blob.                                      *)
(***************************************************************************)
EXTENDS Attachments, FiniteSetTheorems, SequenceTheorems, TLAPS

StoreTypes ==
    /\ cache \in SUBSET Fragments
    /\ usage \in Usages
    /\ queue \in Seq(Operations)

\* What a begun operation read is what is there.
WithinQuota(op, u) == op.sponsor \in Peers => u.by[op.sponsor] + Cardinality(Added(op)) <= SponsorRoom
UpToDate(op, c, u) ==
    /\ op.seen = u
    /\ op.known = {i \in op.need : Has(c, op.blob, i)}
    /\ WithinQuota(op, u)
    /\ op.step = "write" => Fits(op, u)

StoreInv ==
    /\ StoreTypes
    /\ StoreIsAccounted
    /\ \A k \in DOMAIN queue : k # 1 => queue[k].step = "queued"
    /\ \A k \in DOMAIN queue : queue[k].step # "queued" => UpToDate(queue[k], cache, usage)

----------------------------------------------------------------------------
(* Counting. *)

LEMMA PartsAreFinite == ASSUME NEW F \in SUBSET Fragments PROVE IsFiniteSet(F) /\ Cardinality(F) \in Nat
  BY FragmentsAreFinite, FS_Subset, FS_CardinalityType

LEMMA CardinalityLess ==
    ASSUME NEW F \in SUBSET Fragments, NEW V \in SUBSET F
    PROVE  /\ Cardinality(F \ V) = Cardinality(F) - Cardinality(V)
           /\ Cardinality(F \ V) \in Nat /\ Cardinality(F) \in Nat /\ Cardinality(V) \in Nat
  <1>1. IsFiniteSet(F) /\ Cardinality(F) \in Nat /\ Cardinality(V) \in Nat /\ Cardinality(F \ V) \in Nat
    BY PartsAreFinite
  <1>2. F \cap V = V
    OBVIOUS
  <1> QED  BY <1>1, <1>2, FS_Difference

LEMMA CardinalityMore ==
    ASSUME NEW F \in SUBSET Fragments, NEW G \in SUBSET Fragments, F \cap G = {}
    PROVE  /\ Cardinality(F \cup G) = Cardinality(F) + Cardinality(G)
           /\ Cardinality(F) \in Nat /\ Cardinality(G) \in Nat
  <1>1. IsFiniteSet(F) /\ IsFiniteSet(G) /\ Cardinality(F) \in Nat /\ Cardinality(G) \in Nat
    BY PartsAreFinite
  <1>2. Cardinality(F \cup G) = Cardinality(F) + Cardinality(G) - Cardinality({})
    BY <1>1, FS_Union
  <1> QED  BY <1>1, <1>2, FS_EmptySet

\* The record without some of the fragments it counts.
LEMMA MinusCounts ==
    ASSUME StoreTypes, StoreIsAccounted, NEW V \in SUBSET cache
    PROVE  /\ Minus(usage, V) \in Usages
           /\ Minus(usage, V).total = Cardinality(cache \ V) /\ Minus(usage, V).total <= usage.total
           /\ \A s \in Peers :
                /\ Minus(usage, V).by[s] = Cardinality(OfSponsor(cache \ V, s))
                /\ Minus(usage, V).by[s] <= usage.by[s]
  <1> DEFINE u == Minus(usage, V)
  <1>1. u.total = Cardinality(cache \ V) /\ u.total <= usage.total /\ u.total \in Int
    BY CardinalityLess DEF StoreTypes, StoreIsAccounted, Minus, Floor
  <1>2. ASSUME NEW s \in Peers
        PROVE  /\ u.by[s] = Cardinality(OfSponsor(cache \ V, s))
               /\ u.by[s] <= usage.by[s] /\ u.by[s] \in Int
    <2>1. /\ OfSponsor(V, s) \in SUBSET OfSponsor(cache, s) /\ OfSponsor(cache, s) \in SUBSET Fragments
          /\ OfSponsor(cache \ V, s) = OfSponsor(cache, s) \ OfSponsor(V, s)
      BY DEF OfSponsor, StoreTypes
    <2>2. /\ Cardinality(OfSponsor(cache \ V, s)) = Cardinality(OfSponsor(cache, s)) - Cardinality(OfSponsor(V, s))
          /\ Cardinality(OfSponsor(cache \ V, s)) \in Nat /\ Cardinality(OfSponsor(cache, s)) \in Nat
          /\ Cardinality(OfSponsor(V, s)) \in Nat
      BY <2>1, CardinalityLess
    <2>3. u.by[s] = Floor(usage.by[s] - Cardinality(OfSponsor(V, s)))
      BY DEF Minus
    <2> QED  BY <2>2, <2>3 DEF StoreIsAccounted, Floor
  <1>3. u \in Usages
    BY <1>1, <1>2 DEF Minus, Usages
  <1> QED  BY <1>1, <1>2, <1>3

LEMMA LessIsAccounted ==
    ASSUME StoreTypes, StoreIsAccounted, NEW V \in SUBSET cache, cache' = cache \ V, usage' = Minus(usage, V)
    PROVE  StoreIsAccounted'
  <1>1. usage'.total = Cardinality(cache') /\ usage'.total <= Room
    <2>1. usage.total <= Room /\ usage.total \in Int /\ Room \in Int
      BY RoomsAreNat DEF StoreTypes, StoreIsAccounted, Usages
    <2>2. usage'.total = Cardinality(cache') /\ usage'.total <= usage.total /\ usage'.total \in Int
      BY MinusCounts DEF Usages
    <2> QED  BY <2>1, <2>2
  <1>2. ASSUME NEW s \in Peers
        PROVE  usage'.by[s] = Cardinality(OfSponsor(cache', s)) /\ usage'.by[s] <= SponsorRoom
    <2>1. usage.by[s] <= SponsorRoom /\ usage.by[s] \in Int /\ SponsorRoom \in Int
      BY RoomsAreNat DEF StoreTypes, StoreIsAccounted, Usages
    <2>2. /\ usage'.by[s] = Cardinality(OfSponsor(cache', s))
          /\ usage'.by[s] <= usage.by[s] /\ usage'.by[s] \in Int
      BY MinusCounts DEF Usages
    <2> QED  BY <2>1, <2>2
  <1> QED  BY <1>1, <1>2 DEF StoreIsAccounted

\* The fragments an up-to-date operation adds are new, and all of one sponsor.
LEMMA AddedAreNew ==
    ASSUME StoreTypes, NEW op \in Operations, UpToDate(op, cache, usage)
    PROVE  /\ Added(op) \in SUBSET Fragments /\ cache \cap Added(op) = {}
           /\ \A s \in Peers : OfSponsor(Added(op), s) = IF s = op.sponsor THEN Added(op) ELSE {}
  <1>1. Added(op) \in SUBSET Fragments
    BY DEF Added, Operations, Fragments
  <1>2. cache \cap Added(op) = {}
    BY DEF Added, Operations, UpToDate, Has
  <1>3. ASSUME NEW s \in Peers PROVE OfSponsor(Added(op), s) = IF s = op.sponsor THEN Added(op) ELSE {}
    BY DEF OfSponsor, Added
  <1> QED  BY <1>1, <1>2, <1>3

LEMMA PlusCounts ==
    ASSUME StoreTypes, StoreIsAccounted, NEW op \in Operations, UpToDate(op, cache, usage), Fits(op, usage)
    PROVE  LET u == Plus(usage, Added(op)) IN
           /\ u \in Usages
           /\ u.total = Cardinality(cache \cup Added(op)) /\ u.total <= Room
           /\ \A s \in Peers :
                /\ u.by[s] = Cardinality(OfSponsor(cache \cup Added(op), s))
                /\ u.by[s] <= SponsorRoom
  <1> DEFINE A == Added(op)
             u == Plus(usage, A)
  <1>1. A \in SUBSET Fragments /\ cache \cap A = {} /\ cache \in SUBSET Fragments
    BY AddedAreNew DEF StoreTypes
  <1>2. /\ Cardinality(cache \cup A) = Cardinality(cache) + Cardinality(A)
        /\ Cardinality(A) \in Nat /\ Cardinality(cache) \in Nat
    BY <1>1, CardinalityMore
  <1>3. u.total = Cardinality(cache \cup A) /\ u.total <= Room /\ u.total \in Int
    BY <1>2 DEF Plus, StoreIsAccounted, Fits
  <1>4. ASSUME NEW s \in Peers
        PROVE  /\ u.by[s] = Cardinality(OfSponsor(cache \cup A, s))
               /\ u.by[s] <= SponsorRoom /\ u.by[s] \in Int
    <2>1. /\ OfSponsor(cache \cup A, s) = OfSponsor(cache, s) \cup OfSponsor(A, s)
          /\ OfSponsor(cache, s) \cap OfSponsor(A, s) = {}
          /\ OfSponsor(cache, s) \in SUBSET Fragments /\ OfSponsor(A, s) \in SUBSET Fragments
      BY <1>1 DEF OfSponsor
    <2>2. /\ Cardinality(OfSponsor(cache \cup A, s)) = Cardinality(OfSponsor(cache, s)) + Cardinality(OfSponsor(A, s))
          /\ Cardinality(OfSponsor(cache, s)) \in Nat /\ Cardinality(OfSponsor(A, s)) \in Nat
      BY <2>1, CardinalityMore
    <2>3. u.by[s] = usage.by[s] + Cardinality(OfSponsor(A, s))
      BY DEF Plus
    <2>4. OfSponsor(A, s) = IF s = op.sponsor THEN A ELSE {}
      BY AddedAreNew
    <2>5. usage.by[s] <= SponsorRoom /\ usage.by[s] = Cardinality(OfSponsor(cache, s))
      BY DEF StoreIsAccounted
    <2>6. s = op.sponsor => usage.by[s] + Cardinality(A) <= SponsorRoom
      BY DEF UpToDate, WithinQuota
    <2> QED  BY <2>2, <2>3, <2>4, <2>5, <2>6, RoomsAreNat, FS_EmptySet
  <1>5. u \in Usages
    BY <1>3, <1>4 DEF Plus, Usages
  <1> QED  BY <1>3, <1>4, <1>5

----------------------------------------------------------------------------
(* The head of the queue. *)

LEMMA HeadRemoved ==
    ASSUME NEW S, NEW q \in Seq(S), 1 \in DOMAIN q
    PROVE  /\ RemoveAt(q, 1) \in Seq(S)
           /\ DOMAIN RemoveAt(q, 1) = 1..(Len(q) - 1)
           /\ \A k \in 1..(Len(q) - 1) : RemoveAt(q, 1)[k] = q[k + 1] /\ k + 1 \in DOMAIN q
  <1> DEFINE t == SubSeq(q, 2, Len(q))
  <1>1. RemoveAt(q, 1) = SubSeq(q, 1, 0) \o t
    BY DEF RemoveAt
  <1>2. SubSeq(q, 1, 0) = <<>>
    BY SubSeqEmpty
  <1>3. Len(q) \in Nat /\ Len(q) >= 1 /\ DOMAIN q = 1..Len(q) /\ \A k \in 2..Len(q) : q[k] \in S
    OBVIOUS
  <1>4. /\ t \in Seq(S)
        /\ Len(t) = IF 2 <= Len(q) THEN Len(q) - 2 + 1 ELSE 0
        /\ \A k \in 1..(Len(q) - 2 + 1) : t[k] = q[2 + k - 1]
    BY <1>3, SubSeqProperties
  <1> HIDE DEF t
  <1>5. Len(t) = Len(q) - 1
    <2> DEFINE n == Len(q)
               m == Len(t)
    <2>1. n \in Nat /\ n >= 1 /\ m = IF 2 <= n THEN n - 2 + 1 ELSE 0
      BY <1>3, <1>4
    <2> HIDE DEF n, m
    <2>2. m = n - 1
      BY <2>1
    <2> QED  BY <2>2 DEF n, m
  <1>6. \A k \in 1..(Len(q) - 1) : t[k] = q[k + 1] /\ k + 1 \in DOMAIN q
    <2> SUFFICES ASSUME NEW k \in 1..(Len(q) - 1) PROVE t[k] = q[k + 1] /\ k + 1 \in DOMAIN q
      OBVIOUS
    <2>1. k \in 1..(Len(q) - 2 + 1) /\ 2 + k - 1 = k + 1 /\ k + 1 \in 1..Len(q)
      BY <1>3
    <2> QED  BY <2>1, <1>3, <1>4
  <1>7. RemoveAt(q, 1) = t
    BY <1>1, <1>2, <1>4
  <1>8. DOMAIN t = 1..(Len(q) - 1)
    BY <1>4, <1>5
  <1> QED  BY <1>4, <1>6, <1>7, <1>8

\* The head ends, and the next operation has not begun.
LEMMA HeadEnds ==
    ASSUME StoreInv, 1 \in DOMAIN queue, queue' = RemoveAt(queue, 1),
           cache' \in SUBSET Fragments, usage' \in Usages, StoreIsAccounted'
    PROVE  StoreInv'
  <1>1. queue \in Seq(Operations)
    BY DEF StoreInv, StoreTypes
  <1>2. /\ queue' \in Seq(Operations)
        /\ \A k \in DOMAIN queue' : queue'[k].step = "queued"
    BY <1>1, HeadRemoved DEF StoreInv
  <1> QED  BY <1>2 DEF StoreInv, StoreTypes

\* The head goes on with what it has read.
LEMMA HeadGoesOn ==
    ASSUME StoreInv, 1 \in DOMAIN queue, NEW op \in Operations, queue' = [queue EXCEPT ![1] = op],
           cache' \in SUBSET Fragments, usage' \in Usages, StoreIsAccounted', UpToDate(op, cache', usage')
    PROVE  StoreInv'
  <1>1. queue \in Seq(Operations)
    BY DEF StoreInv, StoreTypes
  <1>2. /\ queue' \in Seq(Operations) /\ DOMAIN queue' = DOMAIN queue
        /\ queue'[1] = op /\ \A k \in DOMAIN queue : k # 1 => queue'[k] = queue[k]
    BY <1>1
  <1>3. \A k \in DOMAIN queue' : k # 1 => queue'[k].step = "queued"
    BY <1>2 DEF StoreInv
  <1>4. \A k \in DOMAIN queue' : queue'[k].step # "queued" => UpToDate(queue'[k], cache', usage')
    BY <1>2, <1>3
  <1> QED  BY <1>2, <1>3, <1>4 DEF StoreInv, StoreTypes

\* An operation that may run is the head.
LEMMA RunsFirst ==
    ASSUME StoreInv, NEW k, NEW step, AtStep(k, step)
    PROVE  k = 1 /\ 1 \in DOMAIN queue /\ queue[1] \in Operations /\ queue[1].step = step
  BY DEF AtStep, MayRun, StoreInv, StoreTypes

----------------------------------------------------------------------------
(* The steps of the store. *)

LEMMA EnqueueKeeps ==
    ASSUME StoreInv, NEW op \in Operations, op.step = "queued", Enqueue(op)
    PROVE  StoreInv'
  <1>1. /\ queue' \in Seq(Operations) /\ DOMAIN queue' = 1..(Len(queue) + 1)
        /\ \A k \in DOMAIN queue : queue'[k] = queue[k]
        /\ queue'[Len(queue) + 1] = op
    BY DEF StoreInv, StoreTypes, Enqueue
  <1>2. \A k \in DOMAIN queue' : k \in DOMAIN queue \/ k = Len(queue) + 1
    BY <1>1 DEF StoreInv, StoreTypes
  <1>3. StoreTypes' /\ StoreIsAccounted'
    BY <1>1 DEF StoreInv, StoreTypes, StoreIsAccounted, Enqueue
  <1>4. \A k \in DOMAIN queue' : k # 1 => queue'[k].step = "queued"
    BY <1>1, <1>2 DEF StoreInv
  <1>5. \A o : UpToDate(o, cache, usage) => UpToDate(o, cache', usage')
    BY DEF UpToDate, WithinQuota, Fits, Added, Has, Enqueue
  <1>6. \A k \in DOMAIN queue' : queue'[k].step # "queued" => UpToDate(queue'[k], cache', usage')
    BY <1>1, <1>2, <1>5 DEF StoreInv
  <1> QED  BY <1>3, <1>4, <1>6 DEF StoreInv

LEMMA CancelledKeeps == ASSUME StoreInv, NEW k, Cancelled(k) PROVE StoreInv'
  <1>1. 1 \in DOMAIN queue /\ queue' = RemoveAt(queue, 1)
    BY DEF Cancelled, After, MayRun
  <1>2. cache' \in SUBSET Fragments /\ usage' \in Usages /\ StoreIsAccounted'
    BY DEF Cancelled, StoreInv, StoreTypes, StoreIsAccounted
  <1> QED  BY <1>1, <1>2, HeadEnds

LEMMA RefusedKeeps == ASSUME StoreInv, NEW k, Refused(k) PROVE StoreInv'
  <1>1. 1 \in DOMAIN queue /\ queue' = RemoveAt(queue, 1)
    BY RunsFirst DEF Refused, After
  <1>2. cache' \in SUBSET Fragments /\ usage' \in Usages /\ StoreIsAccounted'
    BY DEF Refused, StoreInv, StoreTypes, StoreIsAccounted
  <1> QED  BY <1>1, <1>2, HeadEnds

LEMMA BeginKeeps == ASSUME StoreInv, NEW k, Begin(k) PROVE StoreInv'
  <1> DEFINE read == Look(queue[1])
             op == [read EXCEPT !.step = IF Fits(read, usage) THEN "write" ELSE "evict"]
  <1>1. k = 1 /\ 1 \in DOMAIN queue /\ queue[1] \in Operations
    BY RunsFirst DEF Begin
  <1>2. /\ queue' = [queue EXCEPT ![1] = op] /\ Affords(read, usage)
        /\ cache' = cache /\ usage' = usage
    BY <1>1 DEF Begin
  <1>3. /\ op \in Operations /\ op.blob = read.blob /\ op.need = read.need
        /\ op.sponsor = read.sponsor /\ op.known = read.known /\ op.seen = usage
        /\ op.known = {i \in op.need : Has(cache, op.blob, i)}
        /\ op.step = "write" => Fits(read, usage)
    BY <1>1 DEF Look, Operations, Steps, StoreInv, StoreTypes
  <1>4. Added(op) = Added(read)
    BY <1>3 DEF Added
  <1>5. UpToDate(op, cache, usage)
    BY <1>2, <1>3, <1>4 DEF UpToDate, WithinQuota, Affords, Fits
  <1>6. UpToDate(op, cache', usage')
    BY <1>2, <1>5 DEF UpToDate, WithinQuota, Fits, Added, Has
  <1>7. cache' \in SUBSET Fragments /\ usage' \in Usages /\ StoreIsAccounted'
    BY <1>2 DEF StoreInv, StoreTypes, StoreIsAccounted
  <1> HIDE DEF op, read
  <1> QED  BY <1>1, <1>2, <1>3, <1>6, <1>7, HeadGoesOn

LEMMA EvictKeeps == ASSUME StoreInv, NEW k, Evict(k) PROVE StoreInv'
  <1> DEFINE op == queue[1]
  <1>1. k = 1 /\ 1 \in DOMAIN queue /\ op \in Operations /\ op.step = "evict"
    BY RunsFirst DEF Evict
  <1>2. UpToDate(op, cache, usage)
    BY <1>1 DEF StoreInv
  <1>3. PICK V \in Victims(op) :
          /\ cache' = cache \ V /\ usage' = Minus(usage, V)
          /\ queue' = IF Fits(op, Minus(usage, V))
                      THEN [queue EXCEPT ![1].step = "write", ![1].seen = Minus(usage, V)]
                      ELSE RemoveAt(queue, 1)
    BY <1>1, <1>2 DEF Evict, After, UpToDate
  <1>4. V \in SUBSET cache /\ \A f \in V : ~(f.blob = op.blob /\ f.index \in op.need)
    BY DEF Victims, Evictable
  <1> HIDE DEF op
  <1>5. /\ usage' \in Usages /\ usage'.total = Cardinality(cache \ V) /\ usage'.total <= usage.total
        /\ \A s \in Peers :
             usage'.by[s] = Cardinality(OfSponsor(cache \ V, s)) /\ usage'.by[s] <= usage.by[s]
    BY <1>3, <1>4, MinusCounts DEF StoreInv
  <1>6. cache' \in SUBSET Fragments
    BY <1>3 DEF StoreInv, StoreTypes
  <1>7. StoreIsAccounted'
    BY <1>3, <1>4, LessIsAccounted DEF StoreInv
  <1>8. CASE ~Fits(op, usage')
    BY <1>1, <1>3, <1>5, <1>6, <1>7, <1>8, HeadEnds
  <1>9. CASE Fits(op, usage')
    <2> DEFINE new == [op EXCEPT !.step = "write", !.seen = usage']
    <2>1. queue' = [queue EXCEPT ![1] = new]
      BY <1>1, <1>3, <1>9 DEF op, StoreInv, StoreTypes
    <2>2. /\ new \in Operations /\ new.seen = usage' /\ new.step = "write" /\ new.known = op.known
          /\ new.need = op.need /\ new.blob = op.blob /\ new.sponsor = op.sponsor
      BY <1>1, <1>5 DEF Operations, Steps
    <2>3. Added(new) = Added(op) /\ Cardinality(Added(op)) \in Nat
      BY <2>2, <1>1, <1>2, AddedAreNew, PartsAreFinite DEF Added, StoreInv
    <2>4. \A i \in op.need : Has(cache \ V, op.blob, i) <=> Has(cache, op.blob, i)
      BY <1>4 DEF Has
    <2>5. new.known = {i \in new.need : Has(cache', new.blob, i)}
      BY <2>2, <2>4, <1>2, <1>3 DEF UpToDate
    <2>6. WithinQuota(new, usage')
      BY <2>2, <2>3, <1>2, <1>5, RoomsAreNat DEF UpToDate, WithinQuota, Usages, StoreInv, StoreTypes
    <2>7. UpToDate(new, cache', usage')
      BY <2>2, <2>3, <2>5, <2>6, <1>9 DEF UpToDate, Fits
    <2> HIDE DEF new
    <2> QED  BY <2>1, <2>2, <2>7, <1>1, <1>5, <1>6, <1>7, HeadGoesOn
  <1> QED  BY <1>8, <1>9

LEMMA WriteKeeps == ASSUME StoreInv, NEW k, Write(k) PROVE StoreInv'
  <1> DEFINE op == queue[1]
  <1>1. k = 1 /\ 1 \in DOMAIN queue /\ op \in Operations /\ op.step = "write"
    BY RunsFirst DEF Write
  <1>2. UpToDate(op, cache, usage) /\ Fits(op, usage)
    BY <1>1 DEF StoreInv, UpToDate
  <1>3. /\ queue' = RemoveAt(queue, 1)
        /\ cache' = {f \in cache : ~(f.blob = op.blob /\ f.index \in op.need \ op.known)} \cup Added(op)
        /\ usage' = IF Added(op) = {} THEN usage ELSE Plus(usage, Added(op))
    BY <1>1, <1>2 DEF Write, After, UpToDate
  <1> HIDE DEF op
  <1>4. cache' = cache \cup Added(op)
    BY <1>2, <1>3 DEF UpToDate, Has
  <1>5. cache' \in SUBSET Fragments
    BY <1>1, <1>2, <1>4, AddedAreNew DEF StoreInv, StoreTypes
  <1>6. usage' \in Usages /\ StoreIsAccounted'
    <2>1. CASE Added(op) = {}
      BY <2>1, <1>3, <1>4 DEF StoreInv, StoreTypes, StoreIsAccounted
    <2>2. CASE Added(op) # {}
      BY <2>2, <1>1, <1>2, <1>3, <1>4, PlusCounts DEF StoreInv, StoreIsAccounted
    <2> QED  BY <2>1, <2>2
  <1> QED  BY <1>1, <1>3, <1>5, <1>6, HeadEnds

LEMMA DiscardKeeps == ASSUME StoreInv, NEW k, Discard(k) PROVE StoreInv'
  <1> DEFINE gone == IF queue[1].blob \in manifests THEN OfBlob(cache, queue[1].blob) ELSE {}
  <1>1. k = 1 /\ 1 \in DOMAIN queue
    BY RunsFirst DEF Discard
  <1>2. queue' = RemoveAt(queue, 1) /\ cache' = cache \ gone /\ usage' = Minus(usage, gone)
    BY <1>1 DEF Discard, After
  <1>3. gone \in SUBSET cache
    BY DEF OfBlob
  <1> HIDE DEF gone
  <1>4. /\ usage' \in Usages /\ usage'.total = Cardinality(cache \ gone) /\ usage'.total <= usage.total
        /\ \A s \in Peers :
             usage'.by[s] = Cardinality(OfSponsor(cache \ gone, s)) /\ usage'.by[s] <= usage.by[s]
    BY <1>2, <1>3, MinusCounts DEF StoreInv
  <1>5. cache' \in SUBSET Fragments
    BY <1>2 DEF StoreInv, StoreTypes
  <1>6. StoreIsAccounted'
    BY <1>2, <1>3, LessIsAccounted DEF StoreInv
  <1> QED  BY <1>1, <1>2, <1>4, <1>5, <1>6, HeadEnds

LEMMA RestartKeeps == ASSUME StoreInv, Restarted PROVE StoreInv'
  BY DEF StoreInv, StoreTypes, StoreIsAccounted, Restarted

LEMMA UnchangedKeeps == ASSUME StoreInv, UNCHANGED <<cache, usage, queue>> PROVE StoreInv'
  BY DEF StoreInv, StoreTypes, StoreIsAccounted

LEMMA QueuedIsOperation ==
    ASSUME NEW kind \in Kinds, NEW b \in Blobs, NEW I \in SUBSET Indices, NEW s \in Peers \cup {Self}
    PROVE  Queued(kind, b, I, s) \in Operations /\ Queued(kind, b, I, s).step = "queued"
  BY DEF Queued, Operations, Steps, Nothing, Usages

LEMMA StoreNextKeeps == ASSUME StoreInv, [StoreNext]_storeVars PROVE StoreInv'
  <1>1. CASE UNCHANGED storeVars
    BY <1>1, UnchangedKeeps DEF storeVars
  <1>2. ASSUME NEW kind \in Kinds, NEW b \in Blobs, NEW I \in SUBSET Indices, NEW s \in Peers \cup {Self},
               Enqueue(Queued(kind, b, I, s))
        PROVE  StoreInv'
    BY <1>2, QueuedIsOperation, EnqueueKeeps
  <1>3. ASSUME NEW k \in DOMAIN queue, StoreStep(k) PROVE StoreInv'
    BY <1>3, CancelledKeeps, BeginKeeps, RefusedKeeps, EvictKeeps, WriteKeeps, DiscardKeeps DEF StoreStep
  <1>4. ASSUME NEW b \in Blobs, Fire(b) PROVE StoreInv'
    BY <1>4, UnchangedKeeps DEF Fire
  <1> QED  BY <1>1, <1>2, <1>3, <1>4, RestartKeeps DEF StoreNext

LEMMA StoreInitKeeps == StoreInit => StoreInv
  <1> SUFFICES ASSUME StoreInit PROVE StoreInv
    OBVIOUS
  <1>1. StoreTypes
    BY DEF StoreInit, StoreTypes, Nothing, Usages
  <1>2. \A s \in Peers : OfSponsor(cache, s) = {}
    BY DEF StoreInit, OfSponsor
  <1>3. cache = {} /\ usage.total = 0 /\ \A s \in Peers : usage.by[s] = 0
    BY DEF StoreInit, Nothing
  <1>4. Cardinality({}) = 0 /\ 0 <= Room /\ 0 <= SponsorRoom
    BY FS_EmptySet, RoomsAreNat
  <1>5. StoreIsAccounted
    BY <1>2, <1>3, <1>4 DEF StoreIsAccounted
  <1> QED  BY <1>1, <1>5 DEF StoreInit, StoreInv

----------------------------------------------------------------------------
(* Attachments uses the store as the store allows. *)

LEMMA StepUsesStore == [Next]_vars => [StoreNext]_storeVars
  <1> SUFFICES ASSUME [Next]_vars PROVE [StoreNext]_storeVars
    OBVIOUS
  <1> USE DEF StoreNext
  <1>1. CASE UNCHANGED vars
    BY <1>1 DEF vars
  <1>2. ASSUME NEW b \in Blobs, NEW kind \in Kinds, NEW I \in SUBSET Indices, NEW s \in Peers \cup {Self},
               Enqueue(Queued(kind, b, I, s))
        PROVE  StoreNext
    BY <1>2
  <1>3. "commit" \in Kinds /\ "file" \in Kinds /\ "discard" \in Kinds /\ "store" \in Kinds
    BY DEF Kinds
  <1>4. ASSUME NEW b \in Blobs, Works(b) PROVE [StoreNext]_storeVars
    <2>1. CASE Round(b)
      BY <2>1 DEF Round
    <2>2. CASE Answer(b)
      BY <2>2 DEF Answer, Listed, Stored, Served, Corrupt, Silent
    <2>3. CASE Seeded(b)
      BY <2>3, <1>2, <1>3 DEF Seeded
    <2>4. CASE Publish(b)
      BY <2>4 DEF Publish
    <2>5. CASE Unwind(b)
      BY <2>5, <1>2, <1>3 DEF Unwind
    <2>6. CASE Asked(b)
      BY <2>6 DEF Asked
    <2>7. CASE Gathered(b)
      BY <2>7, <1>2, <1>3 DEF Gathered
    <2>8. CASE ReadBack(b)
      BY <2>8 DEF ReadBack
    <2> QED  BY <1>4, <2>1, <2>2, <2>3, <2>4, <2>5, <2>6, <2>7, <2>8 DEF Works
  <1>5. ASSUME NEW b \in Blobs, Attach(b) \/ Abort(b) \/ Repair(b) \/ Open(b) \/ Audit(b)
        PROVE  [StoreNext]_storeVars
    BY <1>5 DEF Attach, Abort, Repair, Open, Audit
  <1>6. ASSUME QueueWorks PROVE StoreNext
    BY <1>6 DEF QueueWorks, StoreWorks, StoreStep
  <1>7. ASSUME NEW p \in Peers, Recover(p) PROVE [StoreNext]_storeVars
    BY <1>7 DEF Recover
  <1>8. ASSUME NEW p \in Peers, NEW b \in Blobs, NEW I \in SUBSET Indices, Asks4Room(p, b, I)
        PROVE  StoreNext
    BY <1>8, <1>2, <1>3 DEF Asks4Room
  <1>9. ASSUME NEW p \in Peers, NEW b \in Blobs, NEW i \in Indices, Forget(p, b, i)
        PROVE  [StoreNext]_storeVars
    BY <1>9 DEF Forget
  <1>10. ASSUME Crash PROVE StoreNext
    BY <1>10 DEF Crash
  <1> QED  BY <1>1, <1>4, <1>5, <1>6, <1>7, <1>8, <1>9, <1>10 DEF Next

\* Uploads, fetches, repairs and requests of peers use the store only in the ways of its
\* own specification (swarm.ts: every write goes through persistentWriteQueue).
THEOREM StoreIsUsedAsSpecified == Spec => StoreSpec
  <1>1. Init => StoreInit
    BY DEF Init
  <1> QED  BY <1>1, StepUsesStore, PTL DEF Spec, StoreSpec

\* The usage record is exact and both quotas hold, for any blobs, peers and quotas, whatever
\* is cancelled, refused or cut short by a crash (putLocalChunksUnlocked,
\* evictPersistentBytes, discardLocalBlobUpload).
THEOREM UsageIsExact == Spec => []StoreIsAccounted
  <1>1. StoreInv => StoreIsAccounted
    BY DEF StoreInv
  <1>2. StoreSpec => []StoreInv
    BY StoreInitKeeps, StoreNextKeeps, PTL DEF StoreSpec
  <1> QED  BY <1>1, <1>2, StoreIsUsedAsSpecified, PTL

----------------------------------------------------------------------------
(* Provider health. *)

Conditions == [failures : Nat, paused : BOOLEAN, distrusted : BOOLEAN]
HealthInv == health \in [Peers -> Conditions] /\ HonestKeepTrust

LEMMA JudgedKeeps ==
    ASSUME HealthInv, NEW p, liars' = liars,
           health' \in {health, Praised(p), Blamed(p)}
             \/ (p \in liars /\ \E judged \in {Praised(p), Blamed(p)} : health' = [judged EXCEPT ![p].distrusted = TRUE])
    PROVE  HealthInv'
  <1> DEFINE good == [failures |-> Floor(health[p].failures - 1), paused |-> FALSE,
                      distrusted |-> health[p].distrusted]
             bad == [failures |-> health[p].failures + 1,
                     paused |-> health[p].paused \/ health[p].failures + 1 >= MaxFailures,
                     distrusted |-> health[p].distrusted]
  <1>0. p \in Peers => good \in Conditions /\ bad \in Conditions
    BY DEF HealthInv, Conditions, Floor
  <1>1. Praised(p) \in [Peers -> Conditions] /\ \A q \in Peers : Praised(p)[q].distrusted = health[q].distrusted
    <2>1. Praised(p) = [health EXCEPT ![p] = good] /\ good.distrusted = health[p].distrusted
      BY DEF Praised
    <2> HIDE DEF good
    <2> QED  BY <1>0, <2>1 DEF HealthInv
  <1>2. Blamed(p) \in [Peers -> Conditions] /\ \A q \in Peers : Blamed(p)[q].distrusted = health[q].distrusted
    <2>1. Blamed(p) = [health EXCEPT ![p] = bad] /\ bad.distrusted = health[p].distrusted
      BY DEF Blamed
    <2> HIDE DEF bad
    <2> QED  BY <1>0, <2>1 DEF HealthInv
  <1>3. CASE health' \in {health, Praised(p), Blamed(p)}
    BY <1>1, <1>2, <1>3 DEF HealthInv, HonestKeepTrust
  <1>4. ASSUME p \in liars, NEW judged \in {Praised(p), Blamed(p)}, health' = [judged EXCEPT ![p].distrusted = TRUE]
        PROVE  HealthInv'
    <2>0. judged \in [Peers -> Conditions] /\ \A q \in Peers : judged[q].distrusted = health[q].distrusted
      BY <1>1, <1>2
    <2>1. health' \in [Peers -> Conditions]
      BY <1>4, <2>0 DEF Conditions
    <2>2. \A q \in Peers : q # p => health'[q].distrusted = health[q].distrusted
      BY <1>4, <2>0
    <2> QED  BY <2>1, <2>2, <1>4 DEF HealthInv, HonestKeepTrust
  <1> QED  BY <1>3, <1>4

LEMMA AnswerJudges == ASSUME HealthInv, NEW b \in Blobs, Answer(b) PROVE HealthInv'
  <1>1. PICK r \in task[b].wave : Listed(b, r) \/ Stored(b, r) \/ Served(b, r) \/ Corrupt(b, r) \/ Silent(b, r)
    BY DEF Answer
  <1>2. liars' = liars
    BY <1>1 DEF Listed, Stored, Served, Corrupt, Silent
  <1>3. \/ health' \in {health, Praised(r.peer), Blamed(r.peer)}
        \/ /\ r.peer \in liars
           /\ \E judged \in {Praised(r.peer), Blamed(r.peer)} : health' = [judged EXCEPT ![r.peer].distrusted = TRUE]
    BY <1>1 DEF Listed, Stored, Served, NoCopy, Corrupt, Silent
  <1> QED  BY <1>2, <1>3, JudgedKeeps

LEMMA HealthKept == ASSUME HealthInv, [Next]_vars PROVE HealthInv'
  <1>1. ASSUME UNCHANGED <<health, liars>> PROVE HealthInv'
    BY <1>1 DEF HealthInv, HonestKeepTrust
  <1>2. CASE UNCHANGED vars
    BY <1>1, <1>2 DEF vars
  <1>3. ASSUME NEW b \in Blobs, Works(b) PROVE HealthInv'
    <2>1. CASE Answer(b)
      BY <2>1, AnswerJudges
    <2>2. CASE Round(b) \/ Seeded(b) \/ Publish(b) \/ Unwind(b)
      BY <2>2, <1>1 DEF Round, Seeded, Publish, Unwind
    <2>3. CASE Asked(b) \/ Gathered(b) \/ ReadBack(b)
      BY <2>3, <1>1 DEF Asked, Gathered, ReadBack
    <2> QED  BY <1>3, <2>1, <2>2, <2>3 DEF Works
  <1>4. ASSUME NEW b \in Blobs, Attach(b) \/ Abort(b) \/ Repair(b) \/ Open(b) \/ Audit(b) PROVE HealthInv'
    BY <1>1, <1>4 DEF Attach, Abort, Repair, Open, Audit
  <1>5. ASSUME QueueWorks PROVE HealthInv'
    BY <1>1, <1>5 DEF QueueWorks, StoreWorks
  <1>6. ASSUME NEW p \in Peers, Recover(p) PROVE HealthInv'
    <2>1. health' = [health EXCEPT ![p].failures = 0, ![p].paused = FALSE] /\ liars' = liars
      BY <1>6 DEF Recover
    <2>2. health' \in [Peers -> Conditions] /\ \A q \in Peers : health'[q].distrusted = health[q].distrusted
      BY <2>1 DEF HealthInv, Conditions
    <2> QED  BY <2>1, <2>2 DEF HealthInv, HonestKeepTrust
  <1>7. ASSUME NEW p \in Peers, NEW b \in Blobs, NEW I \in SUBSET Indices, Asks4Room(p, b, I) PROVE HealthInv'
    BY <1>1, <1>7 DEF Asks4Room
  <1>8. ASSUME NEW p \in Peers, NEW b \in Blobs, NEW i \in Indices, Forget(p, b, i) PROVE HealthInv'
    BY <1>1, <1>8 DEF Forget
  <1>9. ASSUME Crash PROVE HealthInv'
    BY <1>9 DEF Crash, HealthInv, HonestKeepTrust, Conditions
  <1> QED  BY <1>2, <1>3, <1>4, <1>5, <1>6, <1>7, <1>8, <1>9 DEF Next

\* No number of silent, refused or empty answers makes a peer distrusted for good: that
\* takes bytes that do not match the manifest (recordProviderInvalid, auditChunk).
THEOREM OnlyLiarsAreDistrusted == Spec => []HonestKeepTrust
  <1>1. Init => HealthInv
    BY DEF Init, HealthInv, HonestKeepTrust, Conditions
  <1>2. HealthInv => HonestKeepTrust
    BY DEF HealthInv
  <1> QED  BY <1>1, <1>2, HealthKept, PTL DEF Spec

----------------------------------------------------------------------------
(* The tasks: what they are made of, and their phases. *)

TaskTypes == task \in [Blobs -> Tasks]
SamePhase(b) == task'[b].phase = task[b].phase
SamePhases == \A b \in Blobs : SamePhase(b)
\* Only b changes phase, if any does.
Moves(b, S) == \A c \in Blobs : SamePhase(c) \/ (c = b /\ task'[c].phase \in S)

LEMMA FreshIsTask ==
    ASSUME NEW phase \in Busy \cup Resting, NEW list \in SUBSET Peers, NEW steady \in SUBSET Peers
    PROVE  Fresh(phase, list, steady) \in Tasks /\ Fresh(phase, list, steady).phase = phase
  BY DEF Fresh, Tasks, Nowhere

LEMMA OneTaskChanged ==
    ASSUME TaskTypes, NEW b \in Blobs, NEW t \in Tasks, task' = [task EXCEPT ![b] = t]
    PROVE  TaskTypes' /\ Moves(b, {t.phase})
  BY DEF TaskTypes, Moves, SamePhase

LEMMA MoveMoves ==
    ASSUME TaskTypes, NEW b \in Blobs, NEW phase \in Busy \cup Resting, Move(b, phase)
    PROVE  TaskTypes' /\ Moves(b, {phase})
  <1> DEFINE t == [task[b] EXCEPT !.phase = phase]
  <1>1. t \in Tasks /\ t.phase = phase
    BY DEF TaskTypes, Tasks
  <1>2. task' = [task EXCEPT ![b] = t]
    BY DEF Move, TaskTypes
  <1> HIDE DEF t
  <1> QED  BY <1>1, <1>2, OneTaskChanged

LEMMA RestMoves ==
    ASSUME TaskTypes, NEW b \in Blobs, NEW phase \in Busy \cup Resting, NEW steady \in SUBSET Peers,
           Rest(b, phase, steady)
    PROVE  TaskTypes' /\ Moves(b, {phase})
  <1> DEFINE t == Fresh(phase, task[b].list, steady)
  <1>1. t \in Tasks /\ t.phase = phase
    BY FreshIsTask DEF TaskTypes, Tasks
  <1>2. task' = [task EXCEPT ![b] = t]
    BY DEF Rest, TaskTypes
  <1> HIDE DEF t
  <1> QED  BY <1>1, <1>2, OneTaskChanged

LEMMA RoundMoves == ASSUME TaskTypes, NEW b \in Blobs, Round(b) PROVE TaskTypes' /\ SamePhases
  <1> DEFINE old == task[b]
             want == IF old.phase = "gathering" THEN "fetch" ELSE "store"
  <1>1. PICK pick \in [Wants(old) -> Peers] :
          task' = [task EXCEPT
               ![b].tried = [i \in Indices |-> IF i \in Wants(old) THEN @[i] \cup {pick[i]} ELSE @[i]],
               ![b].wave = {[peer |-> pick[i], want |-> want,
                             parts |-> {j \in Wants(old) : pick[j] = pick[i]}] : i \in Wants(old)}]
    BY DEF Round
  <1> DEFINE tried == [i \in Indices |-> IF i \in Wants(old) THEN old.tried[i] \cup {pick[i]} ELSE old.tried[i]]
             wave == {[peer |-> pick[i], want |-> want,
                       parts |-> {j \in Wants(old) : pick[j] = pick[i]}] : i \in Wants(old)}
             t == [old EXCEPT !.tried = tried, !.wave = wave]
  <1>2. old \in Tasks
    BY DEF TaskTypes
  <1>3. Wants(old) \in SUBSET Indices
    BY DEF Wants, Missing
  <1>4. tried \in [Indices -> SUBSET Peers]
    BY <1>2, <1>3 DEF Tasks
  <1>5. wave \in SUBSET Requests
    BY <1>3 DEF Requests
  <1>6. task' = [task EXCEPT ![b] = t]
    BY <1>1 DEF TaskTypes
  <1> HIDE DEF tried, wave
  <1>7. t \in Tasks /\ t.phase = task[b].phase
    BY <1>2, <1>4, <1>5 DEF Tasks
  <1> HIDE DEF t
  <1> QED  BY <1>6, <1>7, OneTaskChanged DEF Moves, SamePhases, SamePhase

\* The copies of an answer, gathered.
LEMMA GatheringIsTask ==
    ASSUME TaskTypes, NEW b \in Blobs, NEW r \in task[b].wave, NEW copies \in SUBSET Indices,
           NEW t, t = Gathering(task[b], r, copies)
    PROVE  /\ t \in Tasks /\ t.phase = task[b].phase /\ t.tried = task[b].tried /\ t.wave = task[b].wave
           /\ t.steady = task[b].steady /\ t.done = task[b].done /\ task[b].got \subseteq t.got
           /\ r.want = "fetch" => \A i \in copies : i \notin Missing(t)
  <1> DEFINE gain == IF r.want = "fetch" THEN (copies \cap Missing(task[b])) \X {r.peer} ELSE {}
  <1>1. task[b] \in Tasks /\ r.peer \in Peers
    BY DEF TaskTypes, Tasks, Requests
  <1>2. gain \in SUBSET (Indices \X (Peers \cup {Self}))
    BY <1>1
  <1>3. r.want = "fetch" => \A i \in copies : i \in Missing(task[b]) => <<i, r.peer>> \in gain
    OBVIOUS
  <1>4. t = [task[b] EXCEPT !.got = @ \cup gain]
    BY DEF Gathering
  <1> HIDE DEF gain
  <1>5. /\ t \in Tasks /\ t.phase = task[b].phase /\ t.tried = task[b].tried /\ t.wave = task[b].wave
        /\ t.steady = task[b].steady /\ t.done = task[b].done /\ t.got = task[b].got \cup gain
    BY <1>1, <1>2, <1>4 DEF Tasks
  <1>6. r.want = "fetch" => \A i \in copies : i \notin Missing(t)
    BY <1>1, <1>3, <1>5 DEF Missing
  <1> QED  BY <1>5, <1>6

LEMMA AnswerMoves == ASSUME TaskTypes, NEW b \in Blobs, Answer(b) PROVE TaskTypes' /\ SamePhases
  <1>1. PICK r \in task[b].wave : Listed(b, r) \/ Stored(b, r) \/ Served(b, r) \/ Corrupt(b, r) \/ Silent(b, r)
    BY DEF Answer
  <1>2. task[b] \in Tasks /\ r \in Requests
    BY DEF TaskTypes, Tasks
  <1>3. ASSUME NEW t \in Tasks, t.phase = task[b].phase, Heard(b, r, t) PROVE TaskTypes' /\ SamePhases
    <2> DEFINE u == [t EXCEPT !.wave = @ \ {r}]
    <2>1. u \in Tasks /\ u.phase = task[b].phase /\ task' = [task EXCEPT ![b] = u]
      BY <1>3 DEF Tasks, Heard
    <2> HIDE DEF u
    <2> QED  BY <2>1, OneTaskChanged DEF Moves, SamePhases, SamePhase
  <1>4. ASSUME NEW I \in SUBSET Indices
        PROVE  LET t == [task[b] EXCEPT !.done = Holding(task[b], I, r.peer)]
               IN  t \in Tasks /\ t.phase = task[b].phase
    BY <1>2 DEF Tasks, Holding, Requests
  <1>5. ASSUME HeardNothing(b, r) PROVE TaskTypes' /\ SamePhases
    <2>1. \A c \in Blobs : LET t == [task[c] EXCEPT !.steady = @ \ {r.peer}, !.wave = IF c = b THEN @ \ {r} ELSE @]
                           IN  t \in Tasks /\ t.phase = task[c].phase
      BY DEF TaskTypes, Tasks
    <2> QED  BY <1>5, <2>1 DEF HeardNothing, TaskTypes, SamePhases, SamePhase
  <1>6. CASE Listed(b, r)
    <2>1. PICK I \in IF r.peer \in liars THEN SUBSET Indices ELSE {At(r.peer, b)} :
            Heard(b, r, [task[b] EXCEPT !.done = Holding(task[b], I, r.peer)])
      BY <1>6 DEF Listed
    <2>2. I \in SUBSET Indices
      BY DEF At
    <2> QED  BY <2>1, <2>2, <1>3, <1>4
  <1>7. CASE Stored(b, r)
    <2>1. PICK J \in SUBSET r.parts : Heard(b, r, [task[b] EXCEPT !.done = Holding(task[b], J, r.peer)])
      BY <1>7 DEF Stored
    <2>2. J \in SUBSET Indices
      BY <1>2 DEF Requests
    <2> QED  BY <2>1, <2>2, <1>3, <1>4
  <1>8. CASE Served(b, r)
    <2> DEFINE copies == r.parts \cap At(r.peer, b)
               t == Gathering(task[b], r, copies)
    <2>1. copies \in SUBSET Indices
      BY <1>2 DEF Requests
    <2>2. IF copies = {} THEN HeardNothing(b, r) ELSE Heard(b, r, t)
      BY <1>8 DEF Served
    <2> HIDE DEF copies
    <2>3. t \in Tasks /\ t.phase = task[b].phase
      BY <2>1, GatheringIsTask
    <2> QED  BY <2>2, <2>3, <1>3, <1>5
  <1>9. CASE Corrupt(b, r)
    <2>1. PICK copies \in SUBSET (r.parts \cap At(r.peer, b)) : Heard(b, r, Gathering(task[b], r, copies))
      BY <1>9 DEF Corrupt
    <2>2. copies \in SUBSET Indices
      BY <1>2 DEF Requests
    <2>3. Gathering(task[b], r, copies) \in Tasks /\ Gathering(task[b], r, copies).phase = task[b].phase
      BY <2>2, GatheringIsTask
    <2> QED  BY <2>1, <2>3, <1>3
  <1>10. CASE Silent(b, r)
    BY <1>10, <1>5 DEF Silent
  <1> QED  BY <1>1, <1>6, <1>7, <1>8, <1>9, <1>10

LEMMA DependablesArePeers == Dependable \in SUBSET Peers
  BY DEF Dependable

\* A task that begins with inventories of some peers.
LEMMA AskingMoves ==
    ASSUME TaskTypes, NEW b \in Blobs, NEW phase \in Busy \cup Resting, NEW steady \in SUBSET Peers,
           NEW list \in SUBSET Peers, NEW S \in SUBSET Peers,
           task' = [task EXCEPT ![b] = [Fresh(phase, list, steady) EXCEPT !.wave = Asks(S)]]
    PROVE  TaskTypes' /\ Moves(b, {phase})
  <1> DEFINE f == Fresh(phase, list, steady)
             t == [f EXCEPT !.wave = Asks(S)]
  <1>1. f \in Tasks /\ f.phase = phase
    BY FreshIsTask DEF TaskTypes, Tasks
  <1>2. Asks(S) \in SUBSET Requests
    BY DEF Asks, Requests
  <1>3. task' = [task EXCEPT ![b] = t]
    BY DEF TaskTypes
  <1> HIDE DEF f
  <1>4. t \in Tasks /\ t.phase = phase
    BY <1>1, <1>2 DEF Tasks
  <1> HIDE DEF t
  <1> QED  BY <1>3, <1>4, OneTaskChanged

LEMMA AttachMoves == ASSUME TaskTypes, NEW b \in Blobs, Attach(b) PROVE TaskTypes' /\ Moves(b, {"seeding"})
  <1> DEFINE S == {p \in Peers : p \in left.support \cup {} /\ Usable(p)}
  <1>1. task' = [task EXCEPT ![b] = [Fresh("seeding", {}, Dependable) EXCEPT !.wave = Asks(S)]]
    BY DEF Attach, Seeding
  <1>2. S \in SUBSET Peers /\ {} \in SUBSET Peers /\ "seeding" \in Busy \cup Resting
    BY DEF Busy, UploadPhases
  <1> HIDE DEF S
  <1> QED  BY <1>1, <1>2, AskingMoves, DependablesArePeers

LEMMA SeededMoves ==
    ASSUME TaskTypes, NEW b \in Blobs, Seeded(b)
    PROVE  /\ TaskTypes'
           /\ Moves(b, IF task[b].phase = "seeding" THEN {"committing"} ELSE {"seeded"})
  <1> DEFINE t == task[b]
             list == UNION {t.done[i] : i \in Indices}
             up == [t EXCEPT !.phase = "committing", !.tried = Nowhere, !.list = list]
             rep == [t EXCEPT !.phase = "seeded", !.tried = Nowhere]
  <1>1. t \in Tasks
    BY DEF TaskTypes
  <1>2. list \in SUBSET Peers /\ Nowhere \in [Indices -> SUBSET Peers]
    BY <1>1 DEF Tasks, Nowhere
  <1>3. task' = IF t.phase = "seeding" THEN [task EXCEPT ![b] = up] ELSE [task EXCEPT ![b] = rep]
    BY DEF Seeded, TaskTypes
  <1> HIDE DEF list
  <1>4. up \in Tasks /\ up.phase = "committing" /\ rep \in Tasks /\ rep.phase = "seeded"
    BY <1>1, <1>2 DEF Tasks, Busy, Resting, UploadPhases
  <1> HIDE DEF up, rep
  <1> QED  BY <1>3, <1>4, OneTaskChanged

LEMMA AskedMoves == ASSUME TaskTypes, NEW b \in Blobs, Asked(b) PROVE TaskTypes' /\ Moves(b, {"gathering"})
  <1> DEFINE got == {i \in Indices : Has(cache, b, i)} \X {Self}
             t == [task[b] EXCEPT !.phase = "gathering", !.got = got]
  <1>1. got \in SUBSET (Indices \X (Peers \cup {Self}))
    OBVIOUS
  <1>2. task' = [task EXCEPT ![b] = t]
    BY DEF Asked, TaskTypes
  <1> HIDE DEF got
  <1>3. t \in Tasks /\ t.phase = "gathering"
    BY <1>1 DEF Tasks, TaskTypes, Busy, FetchPhases
  <1> HIDE DEF t
  <1> QED  BY <1>2, <1>3, OneTaskChanged

LEMMA AuditMoves == ASSUME TaskTypes, NEW b \in Blobs, Audit(b) PROVE TaskTypes' /\ SamePhases
  <1>0. PICK g \in task[b].got : \E A \in SUBSET {p \in task[b].done[g[1]] \ {g[2]} : Usable(p)} :
          task' = [task EXCEPT ![b].wave = {[peer |-> p, want |-> "audit", parts |-> {g[1]}] : p \in A}]
    BY DEF Audit
  <1>1. PICK A \in SUBSET {p \in task[b].done[g[1]] \ {g[2]} : Usable(p)} :
          task' = [task EXCEPT ![b].wave = {[peer |-> p, want |-> "audit", parts |-> {g[1]}] : p \in A}]
    BY <1>0
  <1> DEFINE wave == {[peer |-> p, want |-> "audit", parts |-> {g[1]}] : p \in A}
             t == [task[b] EXCEPT !.wave = wave]
  <1>2. task[b] \in Tasks
    BY DEF TaskTypes
  <1>3. g[1] \in Indices
    BY <1>2 DEF Tasks
  <1>4. A \in SUBSET Peers
    BY <1>2, <1>3 DEF Tasks
  <1>5. wave \in SUBSET Requests
    BY <1>3, <1>4 DEF Requests
  <1>6. task' = [task EXCEPT ![b] = t]
    BY <1>1 DEF TaskTypes
  <1> HIDE DEF wave
  <1>7. t \in Tasks /\ t.phase = task[b].phase
    BY <1>2, <1>5 DEF Tasks
  <1> HIDE DEF t
  <1> QED  BY <1>6, <1>7, OneTaskChanged DEF Moves, SamePhases, SamePhase

LEMMA OpenMoves == ASSUME TaskTypes, NEW b \in Blobs, Open(b) PROVE TaskTypes' /\ Moves(b, Busy \cup Resting)
  <1> DEFINE usable == {p \in Peers : Usable(p)}
             steady == {p \in Dependable : At(p, b) = Indices}
  <1>1. {"opened", "unavailable", "asking"} \subseteq Busy \cup Resting
    BY DEF Busy, Resting, FetchPhases
  <1>2. usable \in SUBSET Peers /\ steady \in SUBSET Peers /\ {} \in SUBSET Peers
    BY DependablesArePeers
  <1>3. \/ Rest(b, "opened", {}) \/ Rest(b, "unavailable", {})
        \/ task' = [task EXCEPT ![b] = [Fresh("asking", task[b].list, steady) EXCEPT !.wave = Asks(usable)]]
    BY DEF Open
  <1> HIDE DEF usable, steady
  <1>l. task[b].list \in SUBSET Peers
    BY DEF TaskTypes, Tasks
  <1>4. TaskTypes' /\ \E phase \in Busy \cup Resting : Moves(b, {phase})
    BY <1>1, <1>2, <1>3, <1>l, RestMoves, AskingMoves
  <1> QED  BY <1>4 DEF Moves

LEMMA RepairMoves == ASSUME TaskTypes, NEW b \in Blobs, Repair(b) PROVE TaskTypes' /\ Moves(b, {"repairing"})
  <1> DEFINE S == {p \in Peers : p \in left.support \cup task[b].list /\ Usable(p)}
  <1>1. task' = [task EXCEPT ![b] = [Fresh("repairing", task[b].list, Dependable) EXCEPT !.wave = Asks(S)]]
    BY DEF Repair, Seeding
  <1>2. S \in SUBSET Peers /\ task[b].list \in SUBSET Peers /\ "repairing" \in Busy \cup Resting
    BY DEF TaskTypes, Tasks, Busy
  <1> HIDE DEF S
  <1> QED  BY <1>1, <1>2, AskingMoves, DependablesArePeers

LEMMA ToldMoves ==
    ASSUME TaskTypes, NEW op \in Operations, NEW ok \in BOOLEAN, Told(op, ok)
    PROVE  /\ TaskTypes'
           /\ Moves(op.blob, CASE op.kind = "commit" -> IF ok THEN {"committed"} ELSE {"failed"}
                               [] op.kind = "file" -> {"filed", "unreadable"}
                               [] op.kind = "discard" -> {"gone"}
                               [] op.kind = "store" -> {})
  <1> DEFINE phase == CASE op.kind = "commit" -> IF ok THEN "committed" ELSE "failed"
                        [] op.kind = "file" -> IF ok THEN "filed" ELSE "unreadable"
                        [] op.kind = "discard" -> "gone"
                        [] op.kind = "store" -> task[op.blob].phase
             t == [task[op.blob] EXCEPT !.phase = phase]
  <1>1. op.blob \in Blobs /\ op.kind \in {"commit", "file", "discard", "store"}
    BY DEF Operations, Kinds
  <1>2. task' = [task EXCEPT ![op.blob] = t]
    BY <1>1 DEF Told, TaskTypes
  <1>3. phase \in Busy \cup Resting
    BY <1>1 DEF TaskTypes, Tasks, Busy, Resting, UploadPhases, FetchPhases
  <1>4. \/ op.kind = "commit" /\ phase = IF ok THEN "committed" ELSE "failed"
        \/ op.kind = "file" /\ phase \in {"filed", "unreadable"}
        \/ op.kind = "discard" /\ phase = "gone"
        \/ op.kind = "store" /\ phase = task[op.blob].phase
    BY <1>1
  <1> HIDE DEF phase
  <1>5. t \in Tasks /\ t.phase = phase
    BY <1>1, <1>3 DEF Tasks, TaskTypes
  <1> HIDE DEF t
  <1>6. TaskTypes' /\ Moves(op.blob, {phase})
    BY <1>1, <1>2, <1>5, OneTaskChanged
  <1> QED  BY <1>1, <1>4, <1>6 DEF Moves, SamePhase

LEMMA ForgetMoves ==
    ASSUME TaskTypes, NEW p \in Peers, NEW b \in Blobs, NEW i \in Indices, Forget(p, b, i)
    PROVE  TaskTypes' /\ SamePhases
  <1> DEFINE t == [task[b] EXCEPT !.steady = @ \ {p}]
  <1>1. t \in Tasks /\ t.phase = task[b].phase /\ task' = [task EXCEPT ![b] = t]
    BY DEF Forget, TaskTypes, Tasks
  <1> HIDE DEF t
  <1> QED  BY <1>1, OneTaskChanged DEF Moves, SamePhases, SamePhase

----------------------------------------------------------------------------
(* What the store holds of one's own uploads. *)

Quiet(b, q) == \A k \in DOMAIN q : q[k].blob # b
Only(b, kind, q) == \A k \in DOMAIN q : q[k].blob = b => q[k].kind = kind
AtMostOne(b, q) == \A j, k \in DOMAIN q : q[j].blob = b /\ q[k].blob = b => j = k

UploadPhasesOfMine ==
    {"idle", "seeding", "committing", "committed", "failed", "undoing", "published", "repairing",
     "seeded", "gone", "lost"}

\* A blob of one's own in a phase: what is stored of it, and which operations are to come.
Safe(b, phase, c, m, q) ==
    /\ phase \in UploadPhasesOfMine
    /\ phase \in {"idle", "seeding", "committing", "failed", "gone"} => b \notin m /\ OfBlob(c, b) = {}
    /\ phase \in {"idle", "seeding", "committed", "failed", "gone", "lost"} => Quiet(b, q)
    /\ phase = "committing" => Only(b, "commit", q) /\ AtMostOne(b, q)
    /\ phase = "undoing" => Only(b, "discard", q) /\ AtMostOne(b, q)
    /\ phase \in {"published", "repairing", "seeded"} => Only(b, "store", q)

\* Fragments come with their manifest, so that discarding finds them all, in one transaction.
Covered(c, m) == \A f \in c : f.blob \in m
DiscardsAreWhole(q) == \A k \in DOMAIN q : q[k].kind = "discard" => q[k].step = "queued"

UploadInv ==
    /\ StoreInv /\ TaskTypes
    /\ Covered(cache, manifests) /\ DiscardsAreWhole(queue)
    /\ \A b \in Mine : Safe(b, task[b].phase, cache, manifests, queue)

LEMMA RemovedFromQueue ==
    ASSUME NEW q \in Seq(Operations), 1 \in DOMAIN q, NEW b
    PROVE  LET r == RemoveAt(q, 1) IN
           /\ Quiet(b, q) => Quiet(b, r)
           /\ \A kind : Only(b, kind, q) => Only(b, kind, r)
           /\ AtMostOne(b, q) => AtMostOne(b, r)
           /\ AtMostOne(b, q) /\ q[1].blob = b => Quiet(b, r)
           /\ DiscardsAreWhole(q) => DiscardsAreWhole(r)
  <1> DEFINE r == RemoveAt(q, 1)
  <1>1. /\ DOMAIN r = 1..(Len(q) - 1)
        /\ \A k \in DOMAIN r : r[k] = q[k + 1] /\ k + 1 \in DOMAIN q /\ k \in Int /\ k + 1 # 1
    BY HeadRemoved
  <1> HIDE DEF r
  <1>2. Quiet(b, q) => Quiet(b, r)
    BY <1>1 DEF Quiet
  <1>3. \A kind : Only(b, kind, q) => Only(b, kind, r)
    BY <1>1 DEF Only
  <1>4. ASSUME AtMostOne(b, q) PROVE AtMostOne(b, r)
    <2> SUFFICES ASSUME NEW j \in DOMAIN r, NEW k \in DOMAIN r, r[j].blob = b, r[k].blob = b PROVE j = k
      BY DEF AtMostOne
    <2>1. j + 1 = k + 1 /\ j \in Int /\ k \in Int
      BY <1>1, <1>4 DEF AtMostOne
    <2> QED  BY <2>1
  <1>5. ASSUME AtMostOne(b, q), q[1].blob = b PROVE Quiet(b, r)
    <2> SUFFICES ASSUME NEW k \in DOMAIN r, r[k].blob = b PROVE FALSE
      BY DEF Quiet
    <2>1. q[k + 1].blob = b /\ k + 1 \in DOMAIN q /\ k + 1 # 1
      BY <1>1
    <2> QED  BY <2>1, <1>5 DEF AtMostOne
  <1>6. DiscardsAreWhole(q) => DiscardsAreWhole(r)
    BY <1>1 DEF DiscardsAreWhole
  <1> QED  BY <1>2, <1>3, <1>4, <1>5, <1>6 DEF r

LEMMA ChangedInQueue ==
    ASSUME NEW q \in Seq(Operations), 1 \in DOMAIN q, NEW op, op.blob = q[1].blob, op.kind = q[1].kind, NEW b
    PROVE  LET r == [q EXCEPT ![1] = op] IN
           /\ Quiet(b, q) => Quiet(b, r)
           /\ \A kind : Only(b, kind, q) => Only(b, kind, r)
           /\ AtMostOne(b, q) => AtMostOne(b, r)
           /\ op.kind # "discard" /\ DiscardsAreWhole(q) => DiscardsAreWhole(r)
  <1> DEFINE r == [q EXCEPT ![1] = op]
  <1>1. /\ DOMAIN r = DOMAIN q /\ r[1] = op
        /\ \A k \in DOMAIN q : r[k].blob = q[k].blob /\ r[k].kind = q[k].kind /\ (k # 1 => r[k] = q[k])
    OBVIOUS
  <1> HIDE DEF r
  <1>2. Quiet(b, q) => Quiet(b, r)
    BY <1>1 DEF Quiet
  <1>3. \A kind : Only(b, kind, q) => Only(b, kind, r)
    BY <1>1 DEF Only
  <1>4. AtMostOne(b, q) => AtMostOne(b, r)
    BY <1>1 DEF AtMostOne
  <1>5. op.kind # "discard" /\ DiscardsAreWhole(q) => DiscardsAreWhole(r)
    BY <1>1 DEF DiscardsAreWhole
  <1> QED  BY <1>2, <1>3, <1>4, <1>5 DEF r

LEMMA AppendedToQueue ==
    ASSUME NEW q \in Seq(Operations), NEW op \in Operations, NEW b
    PROVE  LET r == Append(q, op) IN
           /\ op.blob # b =>
                /\ Quiet(b, q) => Quiet(b, r)
                /\ \A kind : Only(b, kind, q) => Only(b, kind, r)
                /\ AtMostOne(b, q) => AtMostOne(b, r)
           /\ Only(b, op.kind, q) => Only(b, op.kind, r)
           /\ Quiet(b, q) => Only(b, op.kind, r) /\ AtMostOne(b, r)
           /\ op.step = "queued" /\ DiscardsAreWhole(q) => DiscardsAreWhole(r)
  <1> DEFINE r == Append(q, op)
             last == Len(q) + 1
  <1>1. /\ \A k \in DOMAIN q : r[k] = q[k]
        /\ r[last] = op
        /\ \A k \in DOMAIN r : k \in DOMAIN q \/ k = last
    OBVIOUS
  <1> HIDE DEF r, last
  <1>2. op.blob # b => (Quiet(b, q) => Quiet(b, r)) /\ (AtMostOne(b, q) => AtMostOne(b, r))
    BY <1>1 DEF Quiet, AtMostOne
  <1>3. op.blob # b => \A kind : Only(b, kind, q) => Only(b, kind, r)
    BY <1>1 DEF Only
  <1>4. Only(b, op.kind, q) => Only(b, op.kind, r)
    BY <1>1 DEF Only
  <1>5. Quiet(b, q) => Only(b, op.kind, r) /\ AtMostOne(b, r)
    BY <1>1 DEF Quiet, Only, AtMostOne
  <1>6. op.step = "queued" /\ DiscardsAreWhole(q) => DiscardsAreWhole(r)
    BY <1>1 DEF DiscardsAreWhole
  <1> QED  BY <1>2, <1>3, <1>4, <1>5, <1>6 DEF r

\* Nothing new of b is stored or asked for.
Undisturbed(b, c, m, q) ==
    /\ \A f \in c : f.blob = b => f \in cache
    /\ b \in m => b \in manifests
    /\ Quiet(b, queue) => Quiet(b, q)
    /\ \A kind : Only(b, kind, queue) => Only(b, kind, q)
    /\ AtMostOne(b, queue) => AtMostOne(b, q)

LEMMA UndisturbedIsSafe ==
    ASSUME NEW b, NEW phase, NEW c, NEW m, NEW q, Safe(b, phase, cache, manifests, queue), Undisturbed(b, c, m, q)
    PROVE  Safe(b, phase, c, m, q)
  BY DEF Safe, Undisturbed, OfBlob

LEMMA SameStoreIsUndisturbed ==
    ASSUME NEW b, UNCHANGED <<cache, manifests, queue>> PROVE Undisturbed(b, cache', manifests', queue')
  BY DEF Undisturbed, Quiet, Only, AtMostOne

\* What an operation of the queue leaves, for its own blob and for the others.
LEMMA StoreStepDisturbsItsBlobOnly ==
    ASSUME StoreInv, Covered(cache, manifests), DiscardsAreWhole(queue), NEW k, StoreStep(k)
    PROVE  /\ k = 1 /\ 1 \in DOMAIN queue /\ queue[1] \in Operations
           /\ Covered(cache', manifests') /\ DiscardsAreWhole(queue')
           /\ \A b : b # queue[1].blob => Undisturbed(b, cache', manifests', queue')
           /\ ~Write(k) => Undisturbed(queue[1].blob, cache', manifests', queue')
  <1> DEFINE op == queue[1]
  <1>1. k = 1 /\ 1 \in DOMAIN queue /\ op \in Operations /\ queue \in Seq(Operations)
    <2>1. queue \in Seq(Operations)
      BY DEF StoreInv, StoreTypes
    <2>2. k \in DOMAIN queue /\ k = 1
      BY DEF StoreStep, Cancelled, Begin, Refused, Evict, Write, Discard, AtStep, MayRun
    <2> QED  BY <2>1, <2>2
  <1>2. ASSUME queue' = RemoveAt(queue, 1)
        PROVE  /\ DiscardsAreWhole(queue')
               /\ \A b : /\ Quiet(b, queue) => Quiet(b, queue')
                         /\ \A kind : Only(b, kind, queue) => Only(b, kind, queue')
                         /\ AtMostOne(b, queue) => AtMostOne(b, queue')
    BY <1>1, <1>2, RemovedFromQueue
  <1>3. ASSUME NEW new, queue' = [queue EXCEPT ![1] = new], new.blob = op.blob, new.kind = op.kind,
               op.kind # "discard"
        PROVE  /\ DiscardsAreWhole(queue')
               /\ \A b : /\ Quiet(b, queue) => Quiet(b, queue')
                         /\ \A kind : Only(b, kind, queue) => Only(b, kind, queue')
                         /\ AtMostOne(b, queue) => AtMostOne(b, queue')
    BY <1>1, <1>3, ChangedInQueue
  <1>4. CASE Cancelled(k) \/ Refused(k)
    <2>1. queue' = RemoveAt(queue, 1) /\ UNCHANGED <<cache, manifests>>
      BY <1>1, <1>4 DEF Cancelled, Refused, After
    <2> QED  BY <2>1, <1>1, <1>2 DEF Undisturbed, Covered
  <1>5. CASE Begin(k)
    <2> DEFINE read == Look(op)
               new == [read EXCEPT !.step = IF Fits(read, usage) THEN "write" ELSE "evict"]
    <2>1. /\ queue' = [queue EXCEPT ![1] = new] /\ UNCHANGED <<cache, manifests>>
          /\ op.kind # "discard"
      BY <1>1, <1>5 DEF Begin
    <2>2. new.blob = op.blob /\ new.kind = op.kind
      BY <1>1 DEF Look, Operations
    <2> HIDE DEF new
    <2> QED  BY <2>1, <2>2, <1>1, <1>3 DEF Undisturbed, Covered
  <1>6. CASE Evict(k)
    <2>1. op.step = "evict" /\ op.kind # "discard"
      BY <1>1, <1>6 DEF Evict, AtStep, DiscardsAreWhole
    <2>2. PICK V \in Victims(op) :
            /\ cache' = cache \ V
            /\ queue' = IF Fits(op, Minus(op.seen, V))
                        THEN [queue EXCEPT ![1].step = "write", ![1].seen = Minus(op.seen, V)]
                        ELSE RemoveAt(queue, 1)
      BY <1>1, <1>6 DEF Evict, After
    <2> DEFINE new == [op EXCEPT !.step = "write", !.seen = Minus(op.seen, V)]
    <2>3. new.blob = op.blob /\ new.kind = op.kind
      BY <1>1 DEF Operations
    <2>4. queue' = [queue EXCEPT ![1] = new] \/ queue' = RemoveAt(queue, 1)
      BY <1>1, <2>2
    <2> HIDE DEF new
    <2>5. manifests' = manifests
      BY <1>6 DEF Evict
    <2> QED  BY <2>1, <2>2, <2>3, <2>4, <2>5, <1>1, <1>2, <1>3 DEF Undisturbed, Covered
  <1>7. CASE Write(k)
    <2>1. /\ queue' = RemoveAt(queue, 1) /\ manifests' = manifests \cup {op.blob}
          /\ \A f \in cache' : f \in cache \/ f.blob = op.blob
      BY <1>1, <1>7 DEF Write, After, Added
    <2> QED  BY <2>1, <1>1, <1>2, <1>7 DEF Undisturbed, Covered
  <1>8. CASE Discard(k)
    <2>1. /\ queue' = RemoveAt(queue, 1) /\ manifests' = manifests \ {op.blob}
          /\ cache' = cache \ (IF op.blob \in manifests THEN OfBlob(cache, op.blob) ELSE {})
          /\ ~Write(k)
      BY <1>1, <1>8 DEF Discard, After, Write, AtStep
    <2> QED  BY <2>1, <1>1, <1>2 DEF Undisturbed, Covered, OfBlob
  <1> QED  BY <1>1, <1>4, <1>5, <1>6, <1>7, <1>8 DEF StoreStep

\* The owner of the operation is told: its upload is committed, failed, or undone.
LEMMA StoreWorksKeeps == ASSUME UploadInv, NEW k, StoreWorks(k) PROVE UploadInv'
  <1> DEFINE op == queue[1]
  <1>1. StoreInv /\ TaskTypes /\ Covered(cache, manifests) /\ DiscardsAreWhole(queue) /\ StoreStep(k)
    BY DEF UploadInv, StoreWorks, StoreStep
  <1>2. k = 1 /\ 1 \in DOMAIN queue /\ op \in Operations /\ queue \in Seq(Operations) /\ op.blob \in Blobs
    BY <1>1, StoreStepDisturbsItsBlobOnly DEF StoreInv, StoreTypes, Operations
  <1>3. StoreInv'
    <2>1. StoreNext
      BY <1>1, <1>2 DEF StoreNext
    <2> QED  BY <1>1, <2>1, StoreNextKeeps
  <1>4. ASSUME UNCHANGED task PROVE TaskTypes' /\ \A b \in Blobs : SamePhase(b)
    BY <1>1, <1>4 DEF TaskTypes, SamePhase
  <1>5. ASSUME NEW ok \in BOOLEAN, Told(op, ok)
        PROVE  /\ TaskTypes'
               /\ \A b \in Blobs : b # op.blob => SamePhase(b)
               /\ \/ op.kind = "commit" /\ task'[op.blob].phase = IF ok THEN "committed" ELSE "failed"
                  \/ op.kind = "file"
                  \/ op.kind = "discard" /\ task'[op.blob].phase = "gone"
                  \/ op.kind = "store" /\ SamePhase(op.blob)
    <2>1. op.kind \in {"commit", "file", "discard", "store"}
      BY <1>2 DEF Operations, Kinds
    <2>2. op.kind = "commit" => task'[op.blob].phase = IF ok THEN "committed" ELSE "failed"
      BY <1>1, <1>2, <1>5 DEF Told, TaskTypes, Tasks
    <2>3. op.kind = "discard" => task'[op.blob].phase = "gone"
      BY <1>1, <1>2, <1>5 DEF Told, TaskTypes, Tasks
    <2>4. op.kind = "store" => SamePhase(op.blob)
      BY <1>1, <1>2, <1>5, ToldMoves DEF Moves, SamePhase
    <2> QED  BY <1>1, <1>2, <1>5, <2>1, <2>2, <2>3, <2>4, ToldMoves DEF Moves
  <1>6. \/ UNCHANGED task
        \/ (Write(k) \/ Discard(k)) /\ Told(op, TRUE)
        \/ ~Write(k) /\ ~Discard(k) /\ Told(op, FALSE)
    <2>1. Cancelled(k) \/ Refused(k) => ~Write(k) /\ ~Discard(k)
      BY <1>2 DEF Cancelled, Refused, Write, Discard, AtStep, Guarded
    <2>2. Evict(k) => ~Write(k) /\ ~Discard(k)
      BY <1>2 DEF Evict, Write, Discard, AtStep
    <2> QED  BY <1>2, <2>1, <2>2 DEF StoreWorks
  <1>7. TaskTypes' /\ \A b \in Blobs : b # op.blob => SamePhase(b)
    BY <1>4, <1>5, <1>6
  <1>8. ASSUME NEW b \in Mine PROVE Safe(b, task'[b].phase, cache', manifests', queue')
    <2>1. b \in Blobs /\ Safe(b, task[b].phase, cache, manifests, queue)
      BY BlobsHaveOneSource DEF UploadInv
    <2>2. CASE b # op.blob
      BY <2>1, <2>2, <1>1, <1>7, StoreStepDisturbsItsBlobOnly, UndisturbedIsSafe DEF SamePhase
    <2>3. CASE b = op.blob /\ SamePhase(b) /\ ~Write(k)
      BY <2>1, <2>3, <1>1, StoreStepDisturbsItsBlobOnly, UndisturbedIsSafe DEF SamePhase
    <2>4. ASSUME b = op.blob
          PROVE  \/ op.kind = "commit" /\ task[b].phase = "committing" /\ AtMostOne(b, queue)
                 \/ op.kind = "discard" /\ task[b].phase = "undoing" /\ AtMostOne(b, queue)
                 \/ op.kind = "store" /\ task[b].phase \in {"published", "repairing", "seeded"}
      BY <2>1, <2>4, <1>2 DEF Safe, Quiet, Only, UploadPhasesOfMine
    <2>5. ASSUME b = op.blob, Write(k) \/ Discard(k) \/ ~SamePhase(b)
          PROVE  Told(op, TRUE) \/ Told(op, FALSE)
      BY <2>1, <2>5, <1>4, <1>6, <1>2 DEF StoreWorks, Write, Discard, Begin, AtStep, Cancelled, Refused, Evict
    <2>6. CASE b = op.blob /\ Write(k)
      <3>1. Told(op, TRUE) /\ op.kind # "discard" /\ queue' = RemoveAt(queue, 1)
        BY <2>6, <1>1, <1>2 DEF StoreWorks, Write, AtStep, DiscardsAreWhole, After, Cancelled, Refused, Evict, Begin, Discard, Guarded
      <3>2. CASE op.kind = "commit"
        <4>1. task'[b].phase = "committed" /\ AtMostOne(b, queue)
          BY <2>4, <2>6, <3>1, <3>2, <1>5
        <4>2. Quiet(b, queue')
          BY <4>1, <2>6, <3>1, <1>2, RemovedFromQueue
        <4> QED  BY <4>1, <4>2 DEF Safe, UploadPhasesOfMine
      <3>3. CASE op.kind = "store"
        <4>1. task'[b].phase = task[b].phase /\ task[b].phase \in {"published", "repairing", "seeded"}
          BY <2>4, <2>6, <3>1, <3>3, <1>5 DEF SamePhase
        <4>2. Only(b, "store", queue')
          BY <4>1, <2>1, <3>1, <1>2, RemovedFromQueue DEF Safe
        <4> QED  BY <4>1, <4>2 DEF Safe, UploadPhasesOfMine
      <3> QED  BY <2>4, <2>6, <3>1, <3>2, <3>3
    <2>7. CASE b = op.blob /\ Discard(k)
      <3>1. op.kind = "discard" /\ queue' = RemoveAt(queue, 1) /\ manifests' = manifests \ {b}
        BY <2>7, <1>2 DEF Discard, After
      <3>2. cache' = cache \ (IF b \in manifests THEN OfBlob(cache, b) ELSE {})
        BY <2>7, <1>2 DEF Discard
      <3>3. OfBlob(cache', b) = {}
        BY <3>2, <1>1 DEF OfBlob, Covered
      <3>4. task'[b].phase = "gone" /\ AtMostOne(b, queue)
        BY <2>4, <2>5, <2>7, <3>1, <1>5
      <3>5. Quiet(b, queue')
        BY <3>1, <3>4, <2>7, <1>2, RemovedFromQueue
      <3> QED  BY <3>1, <3>3, <3>4, <3>5 DEF Safe, UploadPhasesOfMine
    <2>8. CASE b = op.blob /\ ~SamePhase(b) /\ ~Write(k) /\ ~Discard(k)
      <3>1. Told(op, FALSE)
        BY <2>1, <2>8, <1>4, <1>6
      <3>2. op.kind = "commit" /\ task[b].phase = "committing" /\ AtMostOne(b, queue) /\ task'[b].phase = "failed"
        <4>1. ~(op.kind = "discard")
          BY <2>8, <1>1, <1>2 DEF StoreStep, Cancelled, Guarded, Begin, Refused, Evict, AtStep, DiscardsAreWhole
        <4> QED  BY <2>4, <2>8, <3>1, <4>1, <1>5
      <3>3. queue' = RemoveAt(queue, 1)
        BY <2>8, <3>1, <3>2, <1>1, <1>2 DEF StoreWorks, Begin, Cancelled, Refused, Evict, After, AtStep, SamePhase
      <3>4. Quiet(b, queue')
        BY <3>2, <3>3, <2>8, <1>2, RemovedFromQueue
      <3>5. Undisturbed(b, cache', manifests', queue')
        BY <2>8, <1>1, StoreStepDisturbsItsBlobOnly
      <3> QED  BY <3>2, <3>4, <3>5, <2>1 DEF Safe, Undisturbed, OfBlob, UploadPhasesOfMine
    <2> QED  BY <2>2, <2>3, <2>6, <2>7, <2>8
  <1>9. Covered(cache', manifests') /\ DiscardsAreWhole(queue')
    BY <1>1, StoreStepDisturbsItsBlobOnly
  <1> QED  BY <1>3, <1>7, <1>8, <1>9 DEF UploadInv

\* A step that leaves the store alone, and moves at most one upload on.
LEMMA StoreUntouchedKeeps ==
    ASSUME UploadInv, UNCHANGED <<cache, manifests, usage, queue>>, TaskTypes',
           \A b \in Mine : SamePhase(b) \/ Safe(b, task'[b].phase, cache, manifests, queue)
    PROVE  UploadInv'
  <1>1. StoreInv'
    BY UnchangedKeeps DEF UploadInv
  <1>2. Covered(cache', manifests') /\ DiscardsAreWhole(queue')
    BY DEF UploadInv, Covered, DiscardsAreWhole
  <1>3. ASSUME NEW b \in Mine PROVE Safe(b, task'[b].phase, cache', manifests', queue')
    <2>1. Safe(b, task'[b].phase, cache, manifests, queue)
      BY DEF UploadInv, SamePhase
    <2> QED  BY <2>1, SameStoreIsUndisturbed, UndisturbedIsSafe
  <1> QED  BY <1>1, <1>2, <1>3 DEF UploadInv

\* An operation for b is handed over, by a task that is b's.
LEMMA EnqueueLeavesOthers ==
    ASSUME UploadInv, NEW op \in Operations, op.step = "queued", Enqueue(op), TaskTypes',
           \A b \in Mine : b # op.blob => SamePhase(b),
           op.blob \in Mine => Safe(op.blob, task'[op.blob].phase, cache', manifests', queue')
    PROVE  UploadInv'
  <1>1. StoreInv' /\ queue \in Seq(Operations)
    BY EnqueueKeeps DEF UploadInv, StoreInv, StoreTypes
  <1>2. queue' = Append(queue, op) /\ UNCHANGED <<cache, manifests>>
    BY DEF Enqueue
  <1>3. Covered(cache', manifests') /\ DiscardsAreWhole(queue')
    BY <1>1, <1>2, AppendedToQueue DEF UploadInv, Covered
  <1>4. ASSUME NEW b \in Mine, b # op.blob PROVE Safe(b, task'[b].phase, cache', manifests', queue')
    <2>1. Undisturbed(b, cache', manifests', queue')
      BY <1>1, <1>2, <1>4, AppendedToQueue DEF Undisturbed
    <2>2. Safe(b, task'[b].phase, cache, manifests, queue)
      BY <1>4 DEF UploadInv, SamePhase
    <2> QED  BY <2>1, <2>2, UndisturbedIsSafe
  <1> QED  BY <1>1, <1>3, <1>4 DEF UploadInv

LEMMA SeededKeeps == ASSUME UploadInv, NEW b \in Blobs, Seeded(b) PROVE UploadInv'
  <1> DEFINE op == Queued("commit", b, Indices, Self)
  <1>1. TaskTypes' /\ Moves(b, IF task[b].phase = "seeding" THEN {"committing"} ELSE {"seeded"})
    BY SeededMoves DEF UploadInv
  <1>2. \A c \in Mine : c \in Blobs
    BY BlobsHaveOneSource
  <1>3. CASE task[b].phase = "seeding"
    <2>1. Enqueue(op) /\ op.blob = b /\ op.kind = "commit" /\ op.step = "queued" /\ op \in Operations
      BY <1>3, QueuedIsOperation DEF Seeded, Queued, Kinds
    <2>2. task'[b].phase = "committing"
      BY <1>3 DEF Seeded, UploadInv, TaskTypes, Tasks
    <2> HIDE DEF op
    <2>3. ASSUME b \in Mine PROVE Safe(b, task'[b].phase, cache', manifests', queue')
      <3>1. Safe(b, "seeding", cache, manifests, queue) /\ queue \in Seq(Operations)
        BY <1>3, <2>3 DEF UploadInv, StoreInv, StoreTypes
      <3>2. Only(b, "commit", queue') /\ AtMostOne(b, queue')
        BY <2>1, <3>1, AppendedToQueue DEF Enqueue, Safe
      <3> QED  BY <2>1, <2>2, <3>1, <3>2 DEF Safe, Enqueue, UploadPhasesOfMine
    <2> QED  BY <1>1, <1>2, <2>1, <2>3, EnqueueLeavesOthers DEF Moves
  <1>4. CASE task[b].phase # "seeding"
    <2>1. task[b].phase = "repairing" /\ UNCHANGED storeVars
      BY <1>4 DEF Seeded
    <2>2. ASSUME NEW c \in Mine PROVE SamePhase(c) \/ Safe(c, task'[c].phase, cache, manifests, queue)
      <3>1. SamePhase(c) \/ (c = b /\ task'[c].phase = "seeded")
        BY <1>1, <1>2, <1>4 DEF Moves
      <3>2. Safe(c, task[c].phase, cache, manifests, queue)
        BY DEF UploadInv
      <3> QED  BY <3>1, <3>2, <2>1 DEF Safe, UploadPhasesOfMine
    <2> QED  BY <1>1, <2>1, <2>2, StoreUntouchedKeeps DEF storeVars
  <1> QED  BY <1>3, <1>4

\* Rolling back an upload that was not yet committed, or has been.
LEMMA UnwindKeeps == ASSUME UploadInv, NEW b \in Blobs, Unwind(b) PROVE UploadInv'
  <1> DEFINE op == Queued("discard", b, {}, Self)
  <1>1. Enqueue(op) /\ Rest(b, "undoing", {}) /\ task[b].phase \in {"failed", "seeding", "committed"}
    BY DEF Unwind, MustDiscard
  <1>2. op.blob = b /\ op.kind = "discard" /\ op.step = "queued" /\ op \in Operations
    BY QueuedIsOperation DEF Queued, Kinds
  <1> HIDE DEF op
  <1>3. TaskTypes' /\ Moves(b, {"undoing"})
    BY <1>1, RestMoves DEF UploadInv, Busy, UploadPhases
  <1>4. task'[b].phase = "undoing"
    BY <1>1 DEF Rest, Fresh, UploadInv, TaskTypes
  <1>5. \A c \in Mine : c \in Blobs
    BY BlobsHaveOneSource
  <1>6. ASSUME b \in Mine PROVE Safe(b, task'[b].phase, cache', manifests', queue')
    <2>1. Safe(b, task[b].phase, cache, manifests, queue) /\ queue \in Seq(Operations)
      BY <1>6 DEF UploadInv, StoreInv, StoreTypes
    <2>2. Only(b, "discard", queue') /\ AtMostOne(b, queue')
      BY <1>1, <1>2, <2>1, AppendedToQueue DEF Enqueue, Safe
    <2> QED  BY <1>4, <2>2 DEF Safe, UploadPhasesOfMine
  <1> QED  BY <1>1, <1>2, <1>3, <1>5, <1>6, EnqueueLeavesOthers DEF Moves

LEMMA Asks4RoomKeeps ==
    ASSUME UploadInv, NEW p \in Peers, NEW b \in Blobs, NEW I \in SUBSET Indices, Asks4Room(p, b, I)
    PROVE  UploadInv'
  <1> DEFINE op == Queued("store", b, I, p)
  <1>1. Enqueue(op) /\ UNCHANGED task
    BY DEF Asks4Room
  <1>2. op.blob = b /\ op.kind = "store" /\ op.step = "queued" /\ op \in Operations
    BY QueuedIsOperation DEF Queued, Kinds
  <1> HIDE DEF op
  <1>3. TaskTypes' /\ \A c \in Mine : SamePhase(c)
    BY <1>1 DEF UploadInv, TaskTypes, SamePhase
  <1>4. ASSUME b \in Mine PROVE Safe(b, task'[b].phase, cache', manifests', queue')
    <2>1. Safe(b, task[b].phase, cache, manifests, queue) /\ queue \in Seq(Operations)
      BY <1>4 DEF UploadInv, StoreInv, StoreTypes
    <2>2. task'[b].phase \in {"published", "repairing", "seeded"} /\ task'[b].phase = task[b].phase
      BY <1>1, <1>4, BlobsHaveOneSource DEF Asks4Room
    <2>3. Only(b, "store", queue')
      BY <1>1, <1>2, <2>1, <2>2, AppendedToQueue DEF Enqueue, Safe
    <2> QED  BY <2>2, <2>3 DEF Safe, UploadPhasesOfMine
  <1> QED  BY <1>1, <1>2, <1>3, <1>4, EnqueueLeavesOthers

LEMMA GatheredKeeps == ASSUME UploadInv, NEW b \in Blobs, Gathered(b) PROVE UploadInv'
  <1> DEFINE op == Queued("file", b, Indices, Self)
  <1>1. b \notin Mine
    BY DEF Gathered, UploadInv, Safe, UploadPhasesOfMine
  <1>2. task[b].steady \in SUBSET Peers /\ {} \in SUBSET Peers
    BY DEF UploadInv, TaskTypes, Tasks
  <1>3. \/ Enqueue(op) /\ Rest(b, "filing", {})
        \/ UNCHANGED storeVars /\ Rest(b, "unavailable", task[b].steady)
    BY DEF Gathered
  <1>4. op.blob = b /\ op.step = "queued" /\ op \in Operations
    BY QueuedIsOperation DEF Queued, Kinds
  <1> HIDE DEF op
  <1>5. TaskTypes' /\ \A c \in Mine : SamePhase(c)
    <2>1. "filing" \in Busy \cup Resting /\ "unavailable" \in Busy \cup Resting
      BY DEF Busy, Resting, FetchPhases
    <2>2. \E phase \in Busy \cup Resting : TaskTypes' /\ Moves(b, {phase})
      BY <1>2, <1>3, <2>1, RestMoves DEF UploadInv
    <2> QED  BY <2>2, <1>1, BlobsHaveOneSource DEF Moves
  <1> QED  BY <1>1, <1>3, <1>4, <1>5, EnqueueLeavesOthers, StoreUntouchedKeeps DEF storeVars

\* An upload moves on without the store.
LEMMA TaskStepKeeps ==
    ASSUME UploadInv, NEW b \in Blobs,
           \/ Round(b) \/ Answer(b) \/ Audit(b) \/ Publish(b) \/ Attach(b) \/ Repair(b)
           \/ Open(b) \/ Asked(b) \/ ReadBack(b)
    PROVE  UploadInv'
  <1>1. UNCHANGED <<cache, manifests, usage, queue>>
    BY DEF Round, Answer, Listed, Stored, Served, Corrupt, Silent, Audit, Publish, Attach, Repair,
           Open, Asked, ReadBack, storeVars
  <1>2. TaskTypes /\ \A c \in Mine : c \in Blobs /\ c \notin Theirs
    BY BlobsHaveOneSource DEF UploadInv
  <1>3. ASSUME TaskTypes', NEW S, Moves(b, S),
               b \in Mine => \A phase \in S : Safe(b, phase, cache, manifests, queue)
        PROVE  UploadInv'
    BY <1>1, <1>2, <1>3, StoreUntouchedKeeps DEF Moves
  <1>4. b \in Mine => Safe(b, task[b].phase, cache, manifests, queue)
    BY DEF UploadInv
  <1>5. CASE Round(b) \/ Answer(b) \/ Audit(b)
    <2>1. TaskTypes' /\ Moves(b, {})
      BY <1>2, <1>5, RoundMoves, AnswerMoves, AuditMoves DEF SamePhases, Moves
    <2> QED  BY <2>1, <1>3
  <1>6. CASE Publish(b)
    <2>0. "published" \in Busy \cup Resting /\ {} \in SUBSET Peers
      BY DEF Resting
    <2>1. TaskTypes' /\ Moves(b, {"published"})
      BY <1>2, <1>6, <2>0, RestMoves DEF Publish
    <2>2. b \in Mine => Safe(b, "published", cache, manifests, queue)
      BY <1>4, <1>6 DEF Publish, Safe, UploadPhasesOfMine, Quiet, Only
    <2> QED  BY <2>1, <2>2, <1>3
  <1>7. CASE Attach(b)
    <2>1. TaskTypes' /\ Moves(b, {"seeding"})
      BY <1>2, <1>7, AttachMoves
    <2>2. b \in Mine => Safe(b, "seeding", cache, manifests, queue)
      BY <1>4, <1>7 DEF Attach, Safe, UploadPhasesOfMine
    <2> QED  BY <2>1, <2>2, <1>3
  <1>8. CASE Repair(b)
    <2>1. TaskTypes' /\ Moves(b, {"repairing"})
      BY <1>2, <1>8, RepairMoves
    <2>2. b \in Mine => Safe(b, "repairing", cache, manifests, queue)
      BY <1>4, <1>8 DEF Repair, Safe, UploadPhasesOfMine
    <2> QED  BY <2>1, <2>2, <1>3
  <1>9. CASE Open(b)
    <2>1. TaskTypes' /\ Moves(b, Busy \cup Resting) /\ b \notin Mine
      BY <1>2, <1>9, OpenMoves DEF Open
    <2> QED  BY <2>1, <1>3
  <1>10. CASE Asked(b)
    <2>1. TaskTypes' /\ Moves(b, {"gathering"})
      BY <1>2, <1>10, AskedMoves
    <2>2. b \notin Mine
      BY <1>4, <1>10 DEF Asked, Safe, UploadPhasesOfMine
    <2> QED  BY <2>1, <2>2, <1>3
  <1>11. CASE ReadBack(b)
    <2>1. "opened" \in Busy \cup Resting /\ "unreadable" \in Busy \cup Resting
      BY DEF Resting
    <2>2. \E phase \in Busy \cup Resting : TaskTypes' /\ Moves(b, {phase})
      BY <1>2, <1>11, <2>1, MoveMoves DEF ReadBack
    <2>3. b \notin Mine
      BY <1>4, <1>11 DEF ReadBack, Safe, UploadPhasesOfMine
    <2> QED  BY <2>2, <2>3, <1>3
  <1> QED  BY <1>5, <1>6, <1>7, <1>8, <1>9, <1>10, <1>11

\* What survives a crash of one's own uploads: the published, and the fragments of the lost.
LEMMA CrashKeeps == ASSUME UploadInv, Crash PROVE UploadInv'
  <1> DEFINE phase(b) ==
                 IF task[b].phase \in {"published", "repairing", "seeded"} /\ b \in Mine THEN "published"
                 ELSE IF task[b].phase \in UploadPhases THEN "lost"
                 ELSE IF b \in Theirs THEN "idle" ELSE task[b].phase
  <1>1. /\ task' = [b \in Blobs |-> Fresh(phase(b), task[b].list, {})]
        /\ queue' = <<>> /\ UNCHANGED <<cache, manifests>>
    BY DEF Crash, Restarted
  <1>2. StoreInv'
    BY RestartKeeps DEF Crash, UploadInv
  <1>3. ASSUME NEW b \in Blobs PROVE task'[b] \in Tasks /\ task'[b].phase = phase(b)
    <2>1. phase(b) \in Busy \cup Resting /\ task[b].list \in SUBSET Peers /\ {} \in SUBSET Peers
      BY DEF UploadInv, TaskTypes, Tasks, Resting
    <2>2. task'[b] = Fresh(phase(b), task[b].list, {})
      BY <1>1
    <2> HIDE DEF phase
    <2> QED  BY <2>1, <2>2, FreshIsTask
  <1>4. TaskTypes'
    <2>1. DOMAIN task' = Blobs /\ task' = [b \in Blobs |-> task'[b]]
      BY <1>1
    <2> QED  BY <2>1, <1>3 DEF TaskTypes
  <1>5. Covered(cache', manifests') /\ DiscardsAreWhole(queue') /\ \A b : Quiet(b, queue')
    BY <1>1 DEF UploadInv, Covered, DiscardsAreWhole, Quiet
  <1>6. ASSUME NEW b \in Mine PROVE Safe(b, task'[b].phase, cache', manifests', queue')
    <2>1. b \in Blobs /\ b \notin Theirs /\ Safe(b, task[b].phase, cache, manifests, queue)
      BY BlobsHaveOneSource DEF UploadInv
    <2>2. /\ task'[b].phase \in {"idle", "gone", "lost", "published"}
          /\ task'[b].phase \in {"idle", "gone"} => task'[b].phase = task[b].phase
      BY <2>1, <1>3 DEF Safe, UploadPhasesOfMine, UploadPhases
    <2> QED  BY <2>1, <2>2, <1>1, <1>5 DEF Safe, UploadPhasesOfMine, Quiet, Only
  <1> QED  BY <1>2, <1>4, <1>5, <1>6 DEF UploadInv

LEMMA UploadStep == UploadInv /\ [Next]_vars => UploadInv'
  <1> SUFFICES ASSUME UploadInv, [Next]_vars PROVE UploadInv'
    OBVIOUS
  <1>1. ASSUME UNCHANGED <<storeVars, task>> PROVE UploadInv'
    BY <1>1, StoreUntouchedKeeps DEF UploadInv, TaskTypes, SamePhase, storeVars
  <1>2. CASE UNCHANGED vars
    BY <1>1, <1>2 DEF vars
  <1>3. ASSUME NEW b \in Blobs, Works(b) \/ Attach(b) \/ Repair(b) \/ Open(b) \/ Audit(b) PROVE UploadInv'
    BY <1>3, TaskStepKeeps, SeededKeeps, UnwindKeeps, GatheredKeeps DEF Works
  <1>4. ASSUME NEW b \in Blobs, Abort(b) PROVE UploadInv'
    <2>1. UNCHANGED <<cache, manifests, usage, queue, task>>
      BY <1>4 DEF Abort, Fire
    <2> QED  BY <2>1, StoreUntouchedKeeps DEF UploadInv, TaskTypes, SamePhase
  <1>5. ASSUME QueueWorks PROVE UploadInv'
    BY <1>5, StoreWorksKeeps DEF QueueWorks
  <1>6. ASSUME NEW p \in Peers, Recover(p) PROVE UploadInv'
    BY <1>6, <1>1 DEF Recover
  <1>7. ASSUME NEW p \in Peers, NEW b \in Blobs, NEW I \in SUBSET Indices, Asks4Room(p, b, I) PROVE UploadInv'
    BY <1>7, Asks4RoomKeeps
  <1>8. ASSUME NEW p \in Peers, NEW b \in Blobs, NEW i \in Indices, Forget(p, b, i) PROVE UploadInv'
    <2>1. TaskTypes' /\ SamePhases /\ UNCHANGED storeVars
      BY <1>8, ForgetMoves DEF UploadInv, Forget
    <2> QED  BY <2>1, BlobsHaveOneSource, StoreUntouchedKeeps DEF storeVars, SamePhases
  <1> QED  BY <1>2, <1>3, <1>4, <1>5, <1>6, <1>7, <1>8, CrashKeeps DEF Next

LEMMA UploadsStart == Init => UploadInv
  <1> SUFFICES ASSUME Init PROVE UploadInv
    OBVIOUS
  <1>1. cache = {} /\ manifests = {} /\ queue = <<>> /\ StoreInv
    BY StoreInitKeeps DEF Init, StoreInit
  <1>2. ASSUME NEW b \in Blobs PROVE task[b] \in Tasks /\ task[b].phase = "idle"
    <2> DEFINE list == IF b \in Theirs THEN Peers ELSE {}
    <2>1. task[b] = Fresh("idle", list, {}) /\ list \in SUBSET Peers /\ {} \in SUBSET Peers
      BY DEF Init
    <2> HIDE DEF list
    <2> QED  BY <2>1, FreshIsTask DEF Resting
  <1>3. TaskTypes
    <2>1. task = [b \in Blobs |-> task[b]]
      BY DEF Init
    <2> QED  BY <2>1, <1>2 DEF TaskTypes
  <1>4. \A b \in Mine : Safe(b, task[b].phase, cache, manifests, queue)
    BY <1>1, <1>2, BlobsHaveOneSource DEF Safe, UploadPhasesOfMine, OfBlob, Quiet
  <1> QED  BY <1>1, <1>3, <1>4 DEF UploadInv, Covered, DiscardsAreWhole

\* An upload that was cancelled or that failed, at whatever moment, leaves no fragment, no
\* manifest and no operation to come (uploadBlob, commitLocalBlobUpload,
\* discardLocalBlobUpload), for any blobs and peers and whatever else uses the store.
THEOREM CancelledUploadsVanish == Spec => []CancelledLeavesNothing
  <1>1. UploadInv => CancelledLeavesNothing
    BY DEF UploadInv, Safe, Quiet, CancelledLeavesNothing
  <1> QED  BY <1>1, UploadsStart, UploadStep, PTL DEF Spec

----------------------------------------------------------------------------
(* Peers that could serve all along. *)

\* A request of the wave asks p for what, about fragment i.
Awaited(t, p, want, i) == \E r \in t.wave : r.peer = p /\ r.want = want /\ i \in r.parts
AwaitsList(t, p) == \E r \in t.wave : r.peer = p /\ r.want = "ask"

\* A fragment assigned to a steady peer is there, or on its way.
Placed(t) ==
    \A i \in Indices, p \in t.steady : p \in t.tried[i] => p \in t.done[i] \/ Awaited(t, p, "store", i)
\* Fragments short of their copies are at every steady peer.
Settled(t) ==
    /\ t.wave = {}
    /\ \A i \in Indices : Cardinality(t.done[i]) >= Target \/ t.steady \subseteq t.done[i]
\* A steady peer has listed the whole blob, or is about to.
Listing(t) ==
    /\ t.tried = Nowhere
    /\ \A i \in Indices, p \in t.steady : p \in t.done[i] \/ AwaitsList(t, p)
\* A fragment asked of a steady peer is here, or on its way.
Collected(t) ==
    \A i \in Indices, p \in t.steady :
        p \in t.done[i] /\ (p \in t.tried[i] => i \notin Missing(t) \/ Awaited(t, p, "fetch", i))
Whole(b, t, H) == \A i \in Indices, p \in t.steady : <<b, i>> \in H[p]

SteadyTask(b, t, D, H) ==
    /\ t.steady \subseteq D
    /\ t.phase \in {"seeding", "repairing"} => Placed(t)
    /\ t.phase \in {"committing", "committed", "seeded"} => Settled(t)
    /\ t.phase = "asking" => Listing(t) /\ Whole(b, t, H)
    /\ t.phase = "gathering" => Collected(t) /\ Whole(b, t, H)
    /\ t.phase = "unavailable" => t.steady = {}

CommitsAreMine(q) == \A k \in DOMAIN q : q[k].kind = "commit" => q[k].blob \in Mine
SteadyInv ==
    /\ CommitsAreMine(queue)
    /\ \A b \in Theirs : task[b].phase \notin {"seeding", "committing", "committed"}
    /\ \A b \in Blobs : SteadyTask(b, task[b], Dependable, held)

SteadyOf(b) == SteadyTask(b, task[b], Dependable, held)

\* The same task, with fewer steady peers if anything.
Lapsed(t, u) ==
    /\ u.phase = t.phase /\ u.done = t.done /\ u.tried = t.tried /\ u.wave = t.wave /\ u.got = t.got
    /\ u.steady \subseteq t.steady
Kept(b, S, H, G) == \A i \in Indices, p \in S : <<b, i>> \in H[p] => <<b, i>> \in G[p]

LEMMA LapsedIsSteady ==
    ASSUME NEW b, NEW t, NEW u, NEW D, NEW E, NEW H, NEW G,
           SteadyTask(b, t, D, H), Lapsed(t, u), u.steady \subseteq E, Kept(b, u.steady, H, G)
    PROVE  SteadyTask(b, u, E, G)
  <1>1. Placed(t) => Placed(u)
    BY DEF Placed, Lapsed, Awaited
  <1>2. Settled(t) => Settled(u)
    BY DEF Settled, Lapsed
  <1>3. Listing(t) => Listing(u)
    BY DEF Listing, Lapsed, AwaitsList
  <1>4. Collected(t) => Collected(u)
    <2>1. Missing(u) = Missing(t)
      BY DEF Missing, Lapsed
    <2> QED  BY <2>1 DEF Collected, Lapsed, Awaited
  <1>5. Whole(b, t, H) => Whole(b, u, G)
    BY DEF Whole, Lapsed, Kept
  <1>6. t.steady = {} => u.steady = {}
    BY DEF Lapsed
  <1> QED  BY <1>1, <1>2, <1>3, <1>4, <1>5, <1>6 DEF SteadyTask, Lapsed

\* A task that is at rest, or that begins without a steady peer.
LEMMA RestedIsSteady ==
    ASSUME NEW b, NEW phase, NEW list, NEW D, NEW H
    PROVE  SteadyTask(b, Fresh(phase, list, {}), D, H)
  BY DEF SteadyTask, Fresh, Placed, Settled, Listing, Collected, Whole

\* What the answer r is worth to the steady peer it came from.
Delivers(b, t, u, r, H) ==
    r.peer \in u.steady =>
        /\ r.want = "store" => \A i \in r.parts : r.peer \in u.done[i]
        /\ r.want = "ask" /\ Whole(b, t, H) => \A i \in Indices : r.peer \in u.done[i]
        /\ r.want = "fetch" /\ Whole(b, t, H) => \A i \in r.parts : i \notin Missing(u)
Gains(t, u, r) ==
    /\ u.phase = t.phase /\ u.tried = t.tried /\ u.wave = t.wave \ {r}
    /\ \A i \in Indices : t.done[i] \subseteq u.done[i]
    /\ t.got \subseteq u.got /\ u.steady \subseteq t.steady

LEMMA AnsweredIsSteady ==
    ASSUME NEW b, NEW t, NEW u, NEW r \in t.wave, NEW D, NEW E, NEW H, NEW G, r.parts \subseteq Indices,
           SteadyTask(b, t, D, H), Gains(t, u, r), Delivers(b, t, u, r, H),
           u.steady \subseteq E, Kept(b, u.steady, H, G)
    PROVE  SteadyTask(b, u, E, G)
  <1>1. ASSUME NEW p \in u.steady, NEW want, NEW i \in Indices, Awaited(t, p, want, i)
        PROVE  Awaited(u, p, want, i) \/ (r.peer = p /\ r.want = want /\ i \in r.parts)
    BY <1>1 DEF Awaited, Gains
  <1>2. Placed(t) => Placed(u)
    BY <1>1 DEF Placed, Gains, Delivers
  <1>3. ~Settled(t)
    BY DEF Settled
  <1>4. ASSUME Listing(t), Whole(b, t, H) PROVE Listing(u)
    <2>1. u.tried = Nowhere
      BY <1>4 DEF Listing, Gains
    <2>2. ASSUME NEW i \in Indices, NEW p \in u.steady PROVE p \in u.done[i] \/ AwaitsList(u, p)
      <3>1. p \in t.done[i] \/ AwaitsList(t, p)
        BY <1>4, <2>2 DEF Listing, Gains
      <3>2. AwaitsList(t, p) => AwaitsList(u, p) \/ (r.peer = p /\ r.want = "ask")
        BY DEF AwaitsList, Gains
      <3> QED  BY <3>1, <3>2, <1>4 DEF Delivers, Gains
    <2> QED  BY <2>1, <2>2 DEF Listing
  <1>5. ASSUME Collected(t), Whole(b, t, H) PROVE Collected(u)
    <2>1. Missing(u) \subseteq Missing(t)
      BY DEF Missing, Gains
    <2> SUFFICES ASSUME NEW i \in Indices, NEW p \in u.steady
                 PROVE  p \in u.done[i] /\ (p \in u.tried[i] => i \notin Missing(u) \/ Awaited(u, p, "fetch", i))
      BY DEF Collected
    <2>2. p \in t.done[i] /\ (p \in t.tried[i] => i \notin Missing(t) \/ Awaited(t, p, "fetch", i))
      BY <1>5 DEF Collected, Gains
    <2>3. Awaited(t, p, "fetch", i) => Awaited(u, p, "fetch", i) \/ i \notin Missing(u)
      BY <1>1, <1>5 DEF Delivers
    <2> QED  BY <2>1, <2>2, <2>3 DEF Gains
  <1>6. Whole(b, t, H) => Whole(b, u, G)
    BY DEF Whole, Gains, Kept
  <1>7. t.steady = {} => u.steady = {}
    BY DEF Gains
  <1>8. u.phase = t.phase
    BY DEF Gains
  <1> QED  BY <1>2, <1>3, <1>4, <1>5, <1>6, <1>7, <1>8 DEF SteadyTask

\* The other tasks of a step of b: nothing but b's task changes, and no peer is blamed.
LEMMA OthersStaySteady ==
    ASSUME \A c \in Blobs : SteadyOf(c), NEW b \in Blobs, UNCHANGED <<health, liars>>,
           \A c \in Blobs : c # b => task'[c] = task[c],
           \A p \in Peers : held[p] \subseteq held'[p]
    PROVE  Dependable' = Dependable /\ \A c \in Blobs : c # b => (SteadyOf(c))'
  <1>1. Dependable' = Dependable
    BY DEF Dependable, Usable
  <1>2. Dependable \subseteq Peers
    BY DependablesArePeers
  <1>3. ASSUME NEW c \in Blobs, c # b PROVE SteadyTask(c, task'[c], Dependable', held')
    <2>1. SteadyTask(c, task[c], Dependable, held) /\ task'[c] = task[c]
      BY <1>3 DEF SteadyOf
    <2>2. task[c].steady \subseteq Dependable'
      BY <2>1, <1>1 DEF SteadyTask
    <2>3. Lapsed(task[c], task'[c]) /\ Kept(c, task'[c].steady, held, held')
      BY <2>1, <2>2, <1>1, <1>2 DEF Lapsed, Kept
    <2> QED  BY <2>1, <2>2, <2>3, LapsedIsSteady
  <1> QED  BY <1>1, <1>3 DEF SteadyOf

\* Every fragment that wants another peer has one request of the new wave.
RoundOf(t, u, pick, want) ==
    /\ u.phase = t.phase /\ u.done = t.done /\ u.got = t.got /\ u.steady = t.steady
    /\ \A i \in Indices : u.tried[i] = IF i \in Wants(t) THEN t.tried[i] \cup {pick[i]} ELSE t.tried[i]
    /\ u.wave = {[peer |-> pick[i], want |-> want,
                  parts |-> {j \in Wants(t) : pick[j] = pick[i]}] : i \in Wants(t)}

LEMMA RoundIsSteady ==
    ASSUME NEW b, NEW t, NEW u, NEW pick, NEW D, NEW H, t.wave = {},
           t.phase \in {"seeding", "repairing", "gathering"}, SteadyTask(b, t, D, H),
           RoundOf(t, u, pick, IF t.phase = "gathering" THEN "fetch" ELSE "store")
    PROVE  SteadyTask(b, u, D, H)
  <1> DEFINE want == IF t.phase = "gathering" THEN "fetch" ELSE "store"
  <1>1. ASSUME NEW i \in Wants(t) PROVE Awaited(u, pick[i], want, i)
    <2> DEFINE r == [peer |-> pick[i], want |-> want, parts |-> {j \in Wants(t) : pick[j] = pick[i]}]
    <2>1. r \in u.wave
      BY DEF RoundOf
    <2>2. r.peer = pick[i] /\ r.want = want /\ i \in r.parts
      OBVIOUS
    <2> HIDE DEF r
    <2> QED  BY <2>1, <2>2 DEF Awaited
  <1>2. ASSUME NEW i \in Indices, NEW p \in u.steady, p \in u.tried[i]
        PROVE  p \in t.tried[i] \/ Awaited(u, p, want, i)
    BY <1>1, <1>2 DEF RoundOf
  <1>3. \A p, w, i : ~Awaited(t, p, w, i)
    BY DEF Awaited
  <1>4. CASE t.phase \in {"seeding", "repairing"}
    <2>1. Placed(t)
      BY <1>4 DEF SteadyTask
    <2>2. Placed(u)
      BY <2>1, <1>2, <1>3, <1>4 DEF Placed, RoundOf
    <2> QED  BY <2>2, <1>4 DEF SteadyTask, RoundOf
  <1>5. CASE t.phase = "gathering"
    <2>1. Collected(t) /\ Whole(b, t, H)
      BY <1>5 DEF SteadyTask
    <2>2. Missing(u) = Missing(t)
      BY DEF Missing, RoundOf
    <2>3. Collected(u)
      BY <2>1, <2>2, <1>2, <1>3, <1>5 DEF Collected, RoundOf
    <2>4. Whole(b, u, H)
      BY <2>1 DEF Whole, RoundOf
    <2> QED  BY <2>3, <2>4, <1>5 DEF SteadyTask, RoundOf
  <1> QED  BY <1>4, <1>5

LEMMA RoundKeepsSteady ==
    ASSUME TaskTypes, \A c \in Blobs : SteadyOf(c), NEW b \in Blobs, Round(b)
    PROVE  \A c \in Blobs : (SteadyOf(c))'
  <1> DEFINE t == task[b]
             want == IF t.phase = "gathering" THEN "fetch" ELSE "store"
  <1>1. PICK pick \in [Wants(t) -> Peers] :
          task' = [task EXCEPT
               ![b].tried = [i \in Indices |-> IF i \in Wants(t) THEN @[i] \cup {pick[i]} ELSE @[i]],
               ![b].wave = {[peer |-> pick[i], want |-> want,
                             parts |-> {j \in Wants(t) : pick[j] = pick[i]}] : i \in Wants(t)}]
    BY DEF Round
  <1>2. t \in Tasks /\ t.wave = {} /\ t.phase \in {"seeding", "repairing", "gathering"}
    BY DEF TaskTypes, Round
  <1> DEFINE tried == [i \in Indices |-> IF i \in Wants(t) THEN t.tried[i] \cup {pick[i]} ELSE t.tried[i]]
             wave == {[peer |-> pick[i], want |-> want,
                       parts |-> {j \in Wants(t) : pick[j] = pick[i]}] : i \in Wants(t)}
             u == [t EXCEPT !.tried = tried, !.wave = wave]
  <1>3. task' = [task EXCEPT ![b] = u]
    BY <1>1 DEF TaskTypes
  <1>4. RoundOf(t, u, pick, want)
    BY <1>2 DEF RoundOf, Tasks
  <1> HIDE DEF u, tried, wave
  <1>5. task'[b] = u /\ \A c \in Blobs : c # b => task'[c] = task[c]
    BY <1>3 DEF TaskTypes
  <1>6. SteadyTask(b, u, Dependable, held)
    BY <1>2, <1>4, RoundIsSteady DEF SteadyOf
  <1>7. UNCHANGED <<health, liars, held>>
    BY DEF Round
  <1>8. Dependable' = Dependable /\ \A c \in Blobs : c # b => (SteadyOf(c))'
    BY <1>5, <1>7, OthersStaySteady
  <1> QED  BY <1>5, <1>6, <1>7, <1>8 DEF SteadyOf

\* Praise keeps every peer dependable; blame, every other one.
LEMMA PraiseKeepsDependable ==
    ASSUME HealthInv, NEW p \in Peers, health' = Praised(p), liars' = liars
    PROVE  Dependable \subseteq Dependable'
  <1> DEFINE good == [failures |-> Floor(health[p].failures - 1), paused |-> FALSE,
                      distrusted |-> health[p].distrusted]
  <1>1. health' = [health EXCEPT ![p] = good] /\ good.paused = FALSE /\ good.distrusted = health[p].distrusted
    BY DEF Praised
  <1> HIDE DEF good
  <1> QED  BY <1>1 DEF HealthInv, Dependable, Usable

LEMMA BlameKeepsOthersDependable ==
    ASSUME HealthInv, NEW p \in Peers, liars' = liars,
           \/ health' = Blamed(p)
           \/ \E judged \in {Praised(p), Blamed(p)} : health' = [judged EXCEPT ![p].distrusted = TRUE]
    PROVE  Dependable \ {p} \subseteq Dependable'
  <1>1. \A q \in Peers : q # p => Blamed(p)[q] = health[q] /\ Praised(p)[q] = health[q]
    BY DEF Blamed, Praised, HealthInv
  <1>2. DOMAIN Blamed(p) = Peers /\ DOMAIN Praised(p) = Peers
    BY DEF Blamed, Praised, HealthInv
  <1>3. \A q \in Peers : q # p => health'[q] = health[q]
    BY <1>1, <1>2
  <1> QED  BY <1>3 DEF Dependable, Usable

\* What an answer does, put together.
LEMMA AnswerStep ==
    ASSUME \A c \in Blobs : SteadyOf(c), NEW b \in Blobs, NEW r \in task[b].wave, r.parts \subseteq Indices,
           \A c \in Blobs : c # b => Lapsed(task[c], task'[c]),
           Gains(task[b], task'[b], r), Delivers(b, task[b], task'[b], r, held),
           \A c \in Blobs : task'[c].steady \subseteq Dependable',
           \A p \in Peers : held[p] \subseteq held'[p]
    PROVE  \A c \in Blobs : (SteadyOf(c))'
  <1>0. Dependable' \subseteq Peers
    BY DEF Dependable
  <1>1. \A c \in Blobs : Kept(c, task'[c].steady, held, held')
    BY <1>0 DEF Kept
  <1>2. ASSUME NEW c \in Blobs, c # b PROVE SteadyTask(c, task'[c], Dependable', held')
    BY <1>1, <1>2, LapsedIsSteady DEF SteadyOf
  <1>3. SteadyTask(b, task'[b], Dependable', held')
    BY <1>1, AnsweredIsSteady DEF SteadyOf
  <1> QED  BY <1>2, <1>3 DEF SteadyOf

\* The peer has answered, and stays dependable if it was.
LEMMA HeardKeepsSteady ==
    ASSUME TaskTypes, \A c \in Blobs : SteadyOf(c), NEW b \in Blobs, NEW r \in task[b].wave,
           NEW t \in Tasks, t.phase = task[b].phase, t.tried = task[b].tried, t.wave = task[b].wave,
           t.steady = task[b].steady, task[b].got \subseteq t.got,
           \A i \in Indices : task[b].done[i] \subseteq t.done[i],
           Delivers(b, task[b], t, r, held), Heard(b, r, t),
           Dependable \subseteq Dependable', \A p \in Peers : held[p] \subseteq held'[p]
    PROVE  \A c \in Blobs : (SteadyOf(c))'
  <1> DEFINE u == [t EXCEPT !.wave = @ \ {r}]
  <1>1. r \in Requests
    BY DEF TaskTypes, Tasks
  <1>2. task' = [task EXCEPT ![b] = u]
    BY DEF Heard
  <1>3. Gains(task[b], u, r) /\ u.steady = task[b].steady /\ u.done = t.done /\ u.got = t.got
    BY DEF Gains, Tasks
  <1>4. Delivers(b, task[b], u, r, held)
    BY <1>3 DEF Delivers, Missing
  <1> HIDE DEF u
  <1>5. task'[b] = u /\ \A c \in Blobs : c # b => task'[c] = task[c]
    BY <1>2 DEF TaskTypes
  <1>6. \A c \in Blobs : task[c].steady \subseteq Dependable
    BY DEF SteadyOf, SteadyTask
  <1>7. \A c \in Blobs : task'[c].steady \subseteq Dependable'
    BY <1>3, <1>5, <1>6
  <1>8. \A c \in Blobs : c # b => Lapsed(task[c], task'[c])
    BY <1>5 DEF Lapsed
  <1>9. r.parts \subseteq Indices
    BY <1>1 DEF Requests
  <1> QED  BY <1>3, <1>4, <1>5, <1>7, <1>8, <1>9, AnswerStep

\* The peer brought nothing: it is steady for no blob any more.
LEMMA NothingKeepsSteady ==
    ASSUME TaskTypes, \A c \in Blobs : SteadyOf(c), NEW b \in Blobs, NEW r \in task[b].wave,
           HeardNothing(b, r), Dependable \ {r.peer} \subseteq Dependable',
           \A p \in Peers : held[p] \subseteq held'[p]
    PROVE  \A c \in Blobs : (SteadyOf(c))'
  <1>1. r \in Requests
    BY DEF TaskTypes, Tasks
  <1>2. ASSUME NEW c \in Blobs
        PROVE  /\ task'[c].phase = task[c].phase /\ task'[c].done = task[c].done
               /\ task'[c].tried = task[c].tried /\ task'[c].got = task[c].got
               /\ task'[c].steady = task[c].steady \ {r.peer}
               /\ task'[c].wave = IF c = b THEN task[c].wave \ {r} ELSE task[c].wave
    BY DEF HeardNothing, TaskTypes, Tasks
  <1>3. \A c \in Blobs : c # b => Lapsed(task[c], task'[c])
    BY <1>2 DEF Lapsed
  <1>4. Gains(task[b], task'[b], r) /\ Delivers(b, task[b], task'[b], r, held)
    BY <1>2 DEF Gains, Delivers
  <1>5. \A c \in Blobs : task[c].steady \subseteq Dependable
    BY DEF SteadyOf, SteadyTask
  <1>6. \A c \in Blobs : task'[c].steady \subseteq Dependable'
    BY <1>2, <1>5
  <1>7. r.parts \subseteq Indices
    BY <1>1 DEF Requests
  <1> QED  BY <1>3, <1>4, <1>6, <1>7, AnswerStep

\* Every answer keeps what is known of the steady peers: an honest one that is asked for a
\* list, a copy or a place delivers it, or is not steady any more.
LEMMA AnswerKeepsSteady ==
    ASSUME TaskTypes, HealthInv, held \in [Peers -> SUBSET (Blobs \X Indices)],
           \A c \in Blobs : SteadyOf(c), NEW b \in Blobs, Answer(b)
    PROVE  \A c \in Blobs : (SteadyOf(c))'
  <1>1. PICK r \in task[b].wave : Listed(b, r) \/ Stored(b, r) \/ Served(b, r) \/ Corrupt(b, r) \/ Silent(b, r)
    BY DEF Answer
  <1>2. task[b] \in Tasks /\ r \in Requests
    BY DEF TaskTypes, Tasks
  <1>3. r.peer \in Peers /\ r.parts \subseteq Indices
    BY <1>2 DEF Requests
  <1>4. task[b].steady \subseteq Dependable /\ \A p \in Dependable : p \notin liars
    BY DEF SteadyOf, SteadyTask, Dependable
  <1>5. ASSUME NEW I \in SUBSET Indices
        PROVE  LET t == [task[b] EXCEPT !.done = Holding(task[b], I, r.peer)] IN
               /\ t \in Tasks /\ t.phase = task[b].phase /\ t.tried = task[b].tried /\ t.wave = task[b].wave
               /\ t.steady = task[b].steady /\ t.got = task[b].got
               /\ \A i \in Indices : task[b].done[i] \subseteq t.done[i]
               /\ \A i \in I : r.peer \in t.done[i]
    BY <1>2, <1>3 DEF Tasks, Holding
  <1>6. CASE Listed(b, r)
    <2>1. PICK I \in IF r.peer \in liars THEN SUBSET Indices ELSE {At(r.peer, b)} :
            Heard(b, r, [task[b] EXCEPT !.done = Holding(task[b], I, r.peer)])
      BY <1>6 DEF Listed
    <2> DEFINE t == [task[b] EXCEPT !.done = Holding(task[b], I, r.peer)]
    <2>2. I \in SUBSET Indices /\ (r.peer \notin liars => I = At(r.peer, b))
      BY DEF At
    <2>3. /\ t \in Tasks /\ t.phase = task[b].phase /\ t.tried = task[b].tried /\ t.wave = task[b].wave
          /\ t.steady = task[b].steady /\ t.got = task[b].got
          /\ \A i \in Indices : task[b].done[i] \subseteq t.done[i]
          /\ \A i \in I : r.peer \in t.done[i]
      BY <2>2, <1>5
    <2>4. Heard(b, r, t)
      BY <2>1
    <2> HIDE DEF t
    <2>5. r.want = "ask" /\ UNCHANGED held /\ Dependable \subseteq Dependable'
      BY <1>3, <1>6, PraiseKeepsDependable DEF Listed
    <2>6. Delivers(b, task[b], t, r, held)
      BY <2>2, <2>3, <2>5, <1>4 DEF Delivers, Whole, At
    <2> QED  BY <2>3, <2>4, <2>5, <2>6, HeardKeepsSteady
  <1>7. CASE Stored(b, r)
    <2>0. PICK J \in IF r.peer \in liars THEN SUBSET r.parts ELSE {r.parts} :
            /\ Heard(b, r, [task[b] EXCEPT !.done = Holding(task[b], J, r.peer)])
            /\ health' = IF J = {} THEN health ELSE Praised(r.peer)
      BY <1>7 DEF Stored
    <2> DEFINE t == [task[b] EXCEPT !.done = Holding(task[b], J, r.peer)]
    <2>j. J \in SUBSET Indices
      BY <1>3
    <2>1. /\ t \in Tasks /\ t.phase = task[b].phase /\ t.tried = task[b].tried /\ t.wave = task[b].wave
          /\ t.steady = task[b].steady /\ t.got = task[b].got
          /\ \A i \in Indices : task[b].done[i] \subseteq t.done[i]
          /\ \A i \in J : r.peer \in t.done[i]
      BY <1>3, <1>5, <2>j
    <2>2. Heard(b, r, t) /\ r.want = "store"
      BY <1>7, <2>0 DEF Stored
    <2> HIDE DEF t
    <2>3. Dependable \subseteq Dependable'
      <3>1. liars' = liars
        BY <1>7 DEF Stored
      <3>2. CASE J = {}
        BY <2>0, <3>1, <3>2 DEF Dependable, Usable
      <3>3. CASE J # {}
        BY <1>3, <2>0, <3>1, <3>3, PraiseKeepsDependable
      <3> QED  BY <3>2, <3>3
    <2>5. \A p \in Peers : held[p] \subseteq held'[p]
      BY <1>3, <1>7 DEF Stored
    <2>4. Delivers(b, task[b], t, r, held)
      BY <1>4, <2>0, <2>1, <2>2 DEF Delivers
    <2> QED  BY <2>1, <2>2, <2>3, <2>4, <2>5, HeardKeepsSteady
  <1>8. CASE Served(b, r)
    <2> DEFINE copies == r.parts \cap At(r.peer, b)
               t == Gathering(task[b], r, copies)
    <2>1. /\ r.want \in {"fetch", "audit"} /\ UNCHANGED <<held, liars>>
          /\ IF copies = {} THEN HeardNothing(b, r) /\ health' = Blamed(r.peer)
             ELSE Heard(b, r, t) /\ health' = Praised(r.peer)
      BY <1>8 DEF Served, NoCopy
    <2>2. CASE copies = {}
      BY <2>1, <2>2, <1>3, BlameKeepsOthersDependable, NothingKeepsSteady
    <2>3. CASE copies # {}
      <3>1. copies \in SUBSET Indices
        BY <1>3
      <3>3. Whole(b, task[b], held) /\ r.peer \in task[b].steady => copies = r.parts
        BY <1>3 DEF Whole, At
      <3>5. Heard(b, r, t) /\ Dependable \subseteq Dependable'
        BY <2>1, <2>3, <1>3, PraiseKeepsDependable
      <3> HIDE DEF copies
      <3>2. PICK u : u = t
        OBVIOUS
      <3> HIDE DEF t
      <3>4. /\ u \in Tasks /\ u.phase = task[b].phase /\ u.tried = task[b].tried /\ u.wave = task[b].wave
            /\ u.steady = task[b].steady /\ u.done = task[b].done /\ task[b].got \subseteq u.got
            /\ r.want = "fetch" => \A i \in copies : i \notin Missing(u)
        BY <3>1, <3>2, GatheringIsTask DEF t
      <3>7. Delivers(b, task[b], u, r, held)
        BY <2>1, <3>3, <3>4 DEF Delivers
      <3>8. Heard(b, r, u)
        BY <3>2, <3>5
      <3> QED  BY <2>1, <3>4, <3>5, <3>7, <3>8, HeardKeepsSteady
    <2> QED  BY <2>2, <2>3
  <1>9. CASE Corrupt(b, r)
    <2>1. PICK copies \in SUBSET (r.parts \cap At(r.peer, b)) :
            /\ Heard(b, r, Gathering(task[b], r, copies))
            /\ \E judged \in {Praised(r.peer), Blamed(r.peer)} : health' = [judged EXCEPT ![r.peer].distrusted = TRUE]
      BY <1>9 DEF Corrupt
    <2>2. UNCHANGED <<held, liars>> /\ r.peer \in liars
      BY <1>9 DEF Corrupt
    <2>3. Dependable \ {r.peer} \subseteq Dependable'
      BY <1>3, <2>1, <2>2, BlameKeepsOthersDependable
    <2>4. PICK u : u = Gathering(task[b], r, copies)
      OBVIOUS
    <2>5. copies \in SUBSET Indices
      BY <1>3
    <2>6. /\ u \in Tasks /\ u.phase = task[b].phase /\ u.tried = task[b].tried /\ u.wave = task[b].wave
          /\ u.steady = task[b].steady /\ u.done = task[b].done /\ task[b].got \subseteq u.got
      BY <2>4, <2>5, GatheringIsTask
    <2>7. Dependable \subseteq Dependable' /\ Delivers(b, task[b], u, r, held)
      BY <2>2, <2>3, <2>6, <1>4 DEF Delivers
    <2>8. Heard(b, r, u)
      BY <2>1, <2>4
    <2> QED  BY <2>2, <2>6, <2>7, <2>8, HeardKeepsSteady
  <1>10. CASE Silent(b, r)
    <2>1. HeardNothing(b, r) /\ health' = Blamed(r.peer) /\ liars' = liars
      BY <1>10 DEF Silent
    <2>2. \A p \in Peers : held[p] \subseteq held'[p]
      BY <1>10, <1>3 DEF Silent
    <2> QED  BY <2>1, <2>2, <1>3, BlameKeepsOthersDependable, NothingKeepsSteady
  <1> QED  BY <1>1, <1>6, <1>7, <1>8, <1>9, <1>10

\* The counts compared with Target are numbers: there are finitely many peers.
LEMMA CopiesAreCounted ==
    ASSUME NEW b \in Blobs, NEW i \in Indices, NEW S \in SUBSET Peers
    PROVE  Cardinality(S) \in Nat
  <1> DEFINE f == [p \in S |-> [blob |-> b, index |-> i, sponsor |-> p]]
  <1>1. f \in Injection(S, Fragments)
    <2>1. f \in [S -> Fragments] /\ \A p \in S : f[p].sponsor = p
      BY DEF Fragments
    <2> HIDE DEF f
    <2> QED  BY <2>1 DEF Injection, IsInjective
  <1>2. IsFiniteSet(S)
    BY <1>1, FragmentsAreFinite, FS_Injection
  <1> QED  BY <1>2, FS_CardinalityType

\* The rounds are over: whoever is steady has been assigned what still lacks copies.
LEMMA SeededIsSteady ==
    ASSUME NEW b \in Blobs, NEW t \in Tasks, SteadyTask(b, t, Dependable, held),
           t.phase \in {"seeding", "repairing"}, t.wave = {}, Wants(t) = {}
    PROVE  Settled(t)
  <1> SUFFICES ASSUME NEW i \in Indices, ~(Cardinality(t.done[i]) >= Target) PROVE t.steady \subseteq t.done[i]
    BY DEF Settled
  <1>1. Cardinality(t.done[i]) < Target
    <2>1. t.done[i] \in SUBSET Peers
      BY DEF Tasks
    <2> QED  BY <2>1, CopiesAreCounted, TargetIsNat
  <1>2. Untried(t, i, Peers) = {}
    BY <1>1 DEF Wants
  <1>3. t.steady \subseteq t.tried[i]
    BY <1>2 DEF Untried, SteadyTask, Dependable
  <1> QED  BY <1>3 DEF SteadyTask, Placed, Awaited

\* Every holder has been asked: nothing steady is left when a fragment is still missing.
LEMMA GatheredIsSteady ==
    ASSUME NEW b, NEW t, SteadyTask(b, t, Dependable, held),
           t.phase = "gathering", t.wave = {}, Wants(t) = {}, Missing(t) # {}
    PROVE  t.steady = {}
  <1>1. PICK i \in Indices : i \in Missing(t)
    BY DEF Missing
  <1>2. Untried(t, i, t.done[i]) = {}
    BY <1>1 DEF Wants
  <1>3. Collected(t) /\ t.steady \subseteq Dependable
    BY DEF SteadyTask
  <1> QED  BY <1>1, <1>2, <1>3 DEF Collected, Untried, Awaited, Dependable

\* A step of b that gives it the task u.
LEMMA TaskGivenKeepsSteady ==
    ASSUME TaskTypes, \A c \in Blobs : SteadyOf(c), NEW b \in Blobs, NEW u, task' = [task EXCEPT ![b] = u],
           UNCHANGED <<health, liars>>, \A p \in Peers : held[p] \subseteq held'[p],
           SteadyTask(b, u, Dependable, held')
    PROVE  \A c \in Blobs : (SteadyOf(c))'
  <1>1. task'[b] = u /\ \A c \in Blobs : c # b => task'[c] = task[c]
    BY DEF TaskTypes
  <1>2. Dependable' = Dependable /\ \A c \in Blobs : c # b => (SteadyOf(c))'
    BY <1>1, OthersStaySteady
  <1> QED  BY <1>1, <1>2 DEF SteadyOf

LEMMA RestKeepsSteady ==
    ASSUME TaskTypes, \A c \in Blobs : SteadyOf(c), NEW b \in Blobs, NEW phase, Rest(b, phase, {}),
           UNCHANGED <<health, liars>>, \A p \in Peers : held[p] \subseteq held'[p]
    PROVE  \A c \in Blobs : (SteadyOf(c))'
  <1>1. task' = [task EXCEPT ![b] = Fresh(phase, task[b].list, {})]
    BY DEF Rest, TaskTypes
  <1> QED  BY <1>1, RestedIsSteady, TaskGivenKeepsSteady

\* A task that begins with inventories, of the steady peers too if it opens the blob.
LEMMA AskingKeepsSteady ==
    ASSUME TaskTypes, \A c \in Blobs : SteadyOf(c), NEW b \in Blobs, NEW phase \in {"asking", "repairing", "seeding"},
           NEW steady \in SUBSET Dependable, NEW list \in SUBSET Peers, NEW S \in SUBSET Peers,
           task' = [task EXCEPT ![b] = [Fresh(phase, list, steady) EXCEPT !.wave = Asks(S)]],
           phase = "asking" => steady \subseteq S /\ \A p \in steady : At(p, b) = Indices,
           UNCHANGED <<health, liars, held>>
    PROVE  \A c \in Blobs : (SteadyOf(c))'
  <1> DEFINE u == [Fresh(phase, list, steady) EXCEPT !.wave = Asks(S)]
  <1>1. task' = [task EXCEPT ![b] = u]
    BY DEF TaskTypes
  <1>2. u.phase = phase /\ u.steady = steady /\ u.tried = Nowhere /\ u.done = Nowhere /\ u.wave = Asks(S)
    BY DEF Fresh
  <1> HIDE DEF u
  <1>3. Placed(u)
    BY <1>2 DEF Placed, Nowhere
  <1>4. ASSUME phase = "asking" PROVE Listing(u) /\ Whole(b, u, held)
    <2>1. \A p \in steady : AwaitsList(u, p)
      <3> SUFFICES ASSUME NEW p \in steady PROVE AwaitsList(u, p)
        OBVIOUS
      <3> DEFINE r == [peer |-> p, want |-> "ask", parts |-> {}]
      <3>1. r \in u.wave /\ r.peer = p /\ r.want = "ask"
        BY <1>2, <1>4 DEF Asks
      <3> HIDE DEF r
      <3> QED  BY <3>1 DEF AwaitsList
    <2> QED  BY <2>1, <1>2, <1>4 DEF Listing, Whole, At
  <1>5. SteadyTask(b, u, Dependable, held')
    BY <1>2, <1>3, <1>4 DEF SteadyTask
  <1> QED  BY <1>1, <1>5, TaskGivenKeepsSteady

LEMMA SeededKeepsSteady ==
    ASSUME TaskTypes, \A c \in Blobs : SteadyOf(c), NEW b \in Blobs, Seeded(b)
    PROVE  \A c \in Blobs : (SteadyOf(c))'
  <1> DEFINE t == task[b]
             list == UNION {t.done[i] : i \in Indices}
             up == [t EXCEPT !.phase = "committing", !.tried = Nowhere, !.list = list]
             rep == [t EXCEPT !.phase = "seeded", !.tried = Nowhere]
  <1>1. t \in Tasks /\ t.phase \in {"seeding", "repairing"} /\ SteadyTask(b, t, Dependable, held)
    BY DEF TaskTypes, Seeded, SteadyOf
  <1>2. Settled(t) /\ t.steady \subseteq Dependable
    BY <1>1, SeededIsSteady DEF Seeded, SteadyTask
  <1>3. task' = [task EXCEPT ![b] = up] \/ task' = [task EXCEPT ![b] = rep]
    BY DEF Seeded, TaskTypes
  <1>4. /\ up.phase = "committing" /\ up.wave = t.wave /\ up.done = t.done /\ up.steady = t.steady
        /\ rep.phase = "seeded" /\ rep.wave = t.wave /\ rep.done = t.done /\ rep.steady = t.steady
    BY <1>1 DEF Tasks
  <1> HIDE DEF up, rep
  <1>5. SteadyTask(b, up, Dependable, held) /\ SteadyTask(b, rep, Dependable, held)
    BY <1>2, <1>4 DEF SteadyTask, Settled
  <1>6. UNCHANGED <<health, liars, held>>
    BY DEF Seeded
  <1> QED  BY <1>3, <1>5, <1>6, TaskGivenKeepsSteady

LEMMA AskedKeepsSteady ==
    ASSUME TaskTypes, \A c \in Blobs : SteadyOf(c), NEW b \in Blobs, Asked(b)
    PROVE  \A c \in Blobs : (SteadyOf(c))'
  <1> DEFINE t == task[b]
             u == [t EXCEPT !.phase = "gathering", !.got = {i \in Indices : Has(cache, b, i)} \X {Self}]
  <1>1. t \in Tasks /\ t.phase = "asking" /\ t.wave = {} /\ SteadyTask(b, t, Dependable, held)
    BY DEF TaskTypes, Asked, SteadyOf
  <1>2. task' = [task EXCEPT ![b] = u]
    BY DEF Asked, TaskTypes
  <1>3. u.phase = "gathering" /\ u.done = t.done /\ u.tried = t.tried /\ u.steady = t.steady
    BY <1>1 DEF Tasks
  <1> HIDE DEF u
  <1>4. Collected(u) /\ Whole(b, u, held)
    BY <1>1, <1>3 DEF SteadyTask, Listing, Collected, Whole, AwaitsList, Nowhere
  <1>5. SteadyTask(b, u, Dependable, held)
    BY <1>1, <1>3, <1>4 DEF SteadyTask
  <1>6. UNCHANGED <<health, liars, held>>
    BY DEF Asked
  <1> QED  BY <1>2, <1>5, <1>6, TaskGivenKeepsSteady

LEMMA AuditKeepsSteady ==
    ASSUME TaskTypes, \A c \in Blobs : SteadyOf(c), NEW b \in Blobs, Audit(b)
    PROVE  \A c \in Blobs : (SteadyOf(c))'
  <1>1. PICK W : task' = [task EXCEPT ![b].wave = W]
    BY DEF Audit
  <1> DEFINE t == task[b]
             u == [t EXCEPT !.wave = W]
  <1>2. t \in Tasks /\ t.phase = "gathering" /\ t.wave = {} /\ SteadyTask(b, t, Dependable, held)
    BY DEF TaskTypes, Audit, SteadyOf
  <1>3. task' = [task EXCEPT ![b] = u]
    BY <1>1 DEF TaskTypes
  <1>4. /\ u.phase = "gathering" /\ u.done = t.done /\ u.tried = t.tried /\ u.steady = t.steady
        /\ u.got = t.got
    BY <1>2 DEF Tasks
  <1> HIDE DEF u
  <1>5. Collected(u) /\ Whole(b, u, held)
    <2>1. Missing(u) = Missing(t)
      BY <1>4 DEF Missing
    <2> QED  BY <2>1, <1>2, <1>4 DEF SteadyTask, Collected, Whole, Awaited
  <1>6. SteadyTask(b, u, Dependable, held)
    BY <1>2, <1>4, <1>5 DEF SteadyTask
  <1>7. UNCHANGED <<health, liars, held>>
    BY DEF Audit
  <1> QED  BY <1>3, <1>6, <1>7, TaskGivenKeepsSteady

\* A phase that promises nothing of the steady peers.
Unbound(phase) ==
    phase \notin {"seeding", "repairing", "committing", "committed", "seeded", "asking", "gathering", "unavailable"}

LEMMA MovedIsSteady ==
    ASSUME TaskTypes, \A c \in Blobs : SteadyOf(c), NEW b \in Blobs, NEW phase,
           Unbound(phase) \/ (phase = "committed" /\ task[b].phase = "committing") \/ phase = task[b].phase,
           task' = [task EXCEPT ![b].phase = phase], UNCHANGED <<health, liars, held>>
    PROVE  \A c \in Blobs : (SteadyOf(c))'
  <1> DEFINE t == task[b]
             u == [t EXCEPT !.phase = phase]
  <1>1. t \in Tasks /\ SteadyTask(b, t, Dependable, held)
    BY DEF TaskTypes, SteadyOf
  <1>2. task' = [task EXCEPT ![b] = u]
    BY DEF TaskTypes
  <1>3. /\ u.phase = phase /\ u.steady = t.steady /\ u.wave = t.wave /\ u.done = t.done
        /\ u.tried = t.tried /\ u.got = t.got
    BY <1>1 DEF Tasks
  <1> HIDE DEF u
  <1>4. SteadyTask(b, u, Dependable, held)
    <2>1. CASE Unbound(phase)
      BY <1>1, <1>3, <2>1 DEF SteadyTask, Unbound
    <2>2. CASE phase = "committed" /\ t.phase = "committing"
      BY <1>1, <1>3, <2>2 DEF SteadyTask, Settled
    <2>3. CASE phase = t.phase
      <3>1. Lapsed(t, u) /\ u.steady \subseteq Dependable /\ Kept(b, u.steady, held, held)
        BY <1>1, <1>3, <2>3 DEF Lapsed, Kept, SteadyTask
      <3> QED  BY <3>1, <1>1, LapsedIsSteady
    <2> QED  BY <2>1, <2>2, <2>3
  <1> QED  BY <1>2, <1>4, TaskGivenKeepsSteady

LEMMA GatheredKeepsSteady ==
    ASSUME TaskTypes, \A c \in Blobs : SteadyOf(c), NEW b \in Blobs, Gathered(b)
    PROVE  \A c \in Blobs : (SteadyOf(c))'
  <1> DEFINE t == task[b]
  <1>1. SteadyTask(b, t, Dependable, held) /\ t.phase = "gathering" /\ t.wave = {} /\ Wants(t) = {}
    BY DEF Gathered, SteadyOf
  <1>2. Missing(t) # {} => t.steady = {}
    BY <1>1, GatheredIsSteady
  <1>3. Rest(b, "filing", {}) \/ Rest(b, "unavailable", {})
    BY <1>2 DEF Gathered
  <1>4. UNCHANGED <<health, liars, held>>
    BY DEF Gathered
  <1> QED  BY <1>3, <1>4, RestKeepsSteady

LEMMA BegunKeepsSteady ==
    ASSUME TaskTypes, \A c \in Blobs : SteadyOf(c), NEW b \in Blobs, Open(b) \/ Repair(b) \/ Attach(b)
    PROVE  \A c \in Blobs : (SteadyOf(c))'
  <1>1. UNCHANGED <<health, liars, held>>
    BY DEF Open, Repair, Attach
  <1>l. task[b].list \in SUBSET Peers
    BY DEF TaskTypes, Tasks
  <1>2. CASE Open(b)
    <2> DEFINE usable == {p \in Peers : Usable(p)}
               steady == {p \in Dependable : At(p, b) = Indices}
    <2>1. \/ Rest(b, "opened", {}) \/ Rest(b, "unavailable", {})
          \/ task' = [task EXCEPT ![b] = [Fresh("asking", task[b].list, steady) EXCEPT !.wave = Asks(usable)]]
      BY <1>2 DEF Open
    <2>2. /\ usable \in SUBSET Peers /\ steady \in SUBSET Dependable /\ steady \subseteq usable
          /\ \A p \in steady : At(p, b) = Indices
      BY DEF Dependable
    <2> HIDE DEF usable, steady
    <2> QED  BY <1>1, <1>l, <2>1, <2>2, RestKeepsSteady, AskingKeepsSteady
  <1>3. CASE Repair(b)
    <2> DEFINE S == {p \in Peers : p \in left.support \cup task[b].list /\ Usable(p)}
    <2>1. S \in SUBSET Peers /\ Dependable \in SUBSET Dependable
      OBVIOUS
    <2>2. task' = [task EXCEPT ![b] = [Fresh("repairing", task[b].list, Dependable) EXCEPT !.wave = Asks(S)]]
      BY <1>3 DEF Repair, Seeding
    <2> HIDE DEF S
    <2> QED  BY <1>1, <1>l, <2>1, <2>2, AskingKeepsSteady
  <1>4. CASE Attach(b)
    <2> DEFINE S == {p \in Peers : p \in left.support \cup {} /\ Usable(p)}
    <2>1. S \in SUBSET Peers /\ Dependable \in SUBSET Dependable /\ {} \in SUBSET Peers
      OBVIOUS
    <2>2. task' = [task EXCEPT ![b] = [Fresh("seeding", {}, Dependable) EXCEPT !.wave = Asks(S)]]
      BY <1>4 DEF Attach, Seeding
    <2> HIDE DEF S
    <2> QED  BY <1>1, <2>1, <2>2, AskingKeepsSteady
  <1> QED  BY <1>2, <1>3, <1>4

LEMMA ForgetKeepsSteady ==
    ASSUME TaskTypes, held \in [Peers -> SUBSET (Blobs \X Indices)], \A c \in Blobs : SteadyOf(c),
           NEW p \in Peers, NEW b \in Blobs, NEW i \in Indices, Forget(p, b, i)
    PROVE  \A c \in Blobs : (SteadyOf(c))'
  <1> SUFFICES ASSUME NEW c \in Blobs PROVE SteadyTask(c, task'[c], Dependable', held')
    BY DEF SteadyOf
  <1>1. Dependable' = Dependable
    BY DEF Forget, Dependable, Usable
  <1>2. Lapsed(task[c], task'[c]) /\ (c = b => p \notin task'[c].steady)
    BY DEF Forget, TaskTypes, Tasks, Lapsed
  <1>3. \A q \in Peers : \A f \in held[q] : f \in held'[q] \/ (q = p /\ f = <<b, i>>)
    BY DEF Forget
  <1>4. SteadyTask(c, task[c], Dependable, held) /\ task[c].steady \subseteq Dependable
    BY DEF SteadyOf, SteadyTask
  <1>5. task'[c].steady \subseteq Dependable' /\ Kept(c, task'[c].steady, held, held')
    BY <1>1, <1>2, <1>3, <1>4, DependablesArePeers DEF Lapsed, Kept
  <1> QED  BY <1>2, <1>4, <1>5, LapsedIsSteady

LEMMA CrashKeepsSteady == ASSUME Crash PROVE \A c \in Blobs : (SteadyOf(c))'
  <1> SUFFICES ASSUME NEW c \in Blobs PROVE SteadyTask(c, task'[c], Dependable', held')
    BY DEF SteadyOf
  <1>1. \E phase, list : task'[c] = Fresh(phase, list, {})
    BY DEF Crash
  <1> QED  BY <1>1, RestedIsSteady

LEMMA UnwindKeepsSteady ==
    ASSUME TaskTypes, \A c \in Blobs : SteadyOf(c), held \in [Peers -> SUBSET (Blobs \X Indices)],
           NEW b \in Blobs, Unwind(b)
    PROVE  \A c \in Blobs : (SteadyOf(c))'
  <1>1. Rest(b, "undoing", {}) /\ UNCHANGED <<health, liars>>
    BY DEF Unwind, MustDiscard
  <1>2. \A p \in Peers : held[p] \subseteq held'[p]
    BY DEF Unwind
  <1> QED  BY <1>1, <1>2, RestKeepsSteady

\* The store's own steps neither add an operation nor change what one is for.
LEMMA CommitsStayMine ==
    ASSUME StoreInv, CommitsAreMine(queue), NEW k, StoreStep(k) PROVE CommitsAreMine(queue')
  <1>1. queue \in Seq(Operations) /\ k \in DOMAIN queue /\ k = 1
    BY DEF StoreInv, StoreTypes, StoreStep, Cancelled, Begin, Refused, Evict, Write, Discard, AtStep, MayRun
  <1>2. CASE queue' = RemoveAt(queue, 1)
    <2>1. \A j \in DOMAIN queue' : queue'[j] = queue[j + 1] /\ j + 1 \in DOMAIN queue
      BY <1>1, <1>2, HeadRemoved
    <2> QED  BY <2>1 DEF CommitsAreMine
  <1>3. ASSUME NEW new, queue' = [queue EXCEPT ![1] = new], new.blob = queue[1].blob, new.kind = queue[1].kind
        PROVE  CommitsAreMine(queue')
    BY <1>1, <1>3 DEF CommitsAreMine
  <1>4. queue[1] \in Operations
    BY <1>1
  <1>5. CASE Begin(k)
    <2> DEFINE read == Look(queue[1])
               new == [read EXCEPT !.step = IF Fits(read, usage) THEN "write" ELSE "evict"]
    <2>1. queue' = [queue EXCEPT ![1] = new]
      BY <1>1, <1>5 DEF Begin
    <2>2. new.blob = queue[1].blob /\ new.kind = queue[1].kind
      BY <1>4 DEF Look, Operations
    <2> HIDE DEF new
    <2> QED  BY <2>1, <2>2, <1>3
  <1>6. CASE Evict(k)
    <2>1. PICK V : queue' = IF Fits(queue[1], Minus(queue[1].seen, V))
                            THEN [queue EXCEPT ![1].step = "write", ![1].seen = Minus(queue[1].seen, V)]
                            ELSE RemoveAt(queue, 1)
      BY <1>1, <1>6 DEF Evict, After
    <2> DEFINE new == [queue[1] EXCEPT !.step = "write", !.seen = Minus(queue[1].seen, V)]
    <2>2. new.blob = queue[1].blob /\ new.kind = queue[1].kind
      BY <1>4 DEF Operations
    <2>3. queue' = [queue EXCEPT ![1] = new] \/ queue' = RemoveAt(queue, 1)
      BY <1>1, <2>1
    <2> HIDE DEF new
    <2> QED  BY <2>2, <2>3, <1>2, <1>3
  <1> QED  BY <1>1, <1>2, <1>5, <1>6 DEF StoreStep, Cancelled, Refused, Write, Discard, After

\* A commit at the head of the queue is one its upload waits for.
LEMMA CommitIsAwaited ==
    ASSUME UploadInv, CommitsAreMine(queue), NEW k \in DOMAIN queue, queue[k].kind = "commit"
    PROVE  queue[k].blob \in Mine /\ task[queue[k].blob].phase = "committing"
  <1>1. queue[k].blob \in Mine
    BY DEF CommitsAreMine
  <1>2. Safe(queue[k].blob, task[queue[k].blob].phase, cache, manifests, queue)
    BY <1>1 DEF UploadInv
  <1> QED  BY <1>1, <1>2 DEF Safe, Quiet, Only, UploadPhasesOfMine

LEMMA StoreWorksKeepsSteady ==
    ASSUME UploadInv, SteadyInv, NEW k, StoreWorks(k) PROVE SteadyInv'
  <1>1. StoreInv /\ TaskTypes /\ StoreStep(k) /\ CommitsAreMine(queue) /\ (\A c \in Blobs : SteadyOf(c))
    BY DEF UploadInv, SteadyInv, SteadyOf, StoreWorks, StoreStep
  <1>2. CommitsAreMine(queue')
    BY <1>1, CommitsStayMine
  <1>3. queue \in Seq(Operations) /\ k \in DOMAIN queue
    BY <1>1 DEF StoreInv, StoreTypes, StoreStep, Cancelled, Begin, Refused, Evict, Write, Discard, AtStep, MayRun
  <1>4. PICK op : op = queue[k]
    OBVIOUS
  <1>5. op \in Operations /\ op.blob \in Blobs /\ op.kind \in Kinds
    <2>1. op \in Operations
      BY <1>3, <1>4
    <2> QED  BY <2>1 DEF Operations
  <1>6. op.kind = "commit" => op.blob \in Mine /\ task[op.blob].phase = "committing"
    BY <1>1, <1>3, <1>4, CommitIsAwaited
  <1>7. UNCHANGED <<health, liars, held>>
    BY DEF StoreWorks
  <1>8. UNCHANGED task \/ \E ok \in BOOLEAN : Told(op, ok)
    BY <1>4 DEF StoreWorks
  <1>9. CASE UNCHANGED task
    <2>1. Dependable' = Dependable
      BY <1>7 DEF Dependable, Usable
    <2> QED  BY <2>1, <1>2, <1>7, <1>9 DEF SteadyInv
  <1>10. ASSUME NEW ok \in BOOLEAN, Told(op, ok) PROVE SteadyInv'
    <2> DEFINE phase == CASE op.kind = "commit" -> IF ok THEN "committed" ELSE "failed"
                          [] op.kind = "file" -> IF ok THEN "filed" ELSE "unreadable"
                          [] op.kind = "discard" -> "gone"
                          [] op.kind = "store" -> task[op.blob].phase
    <2>1. task' = [task EXCEPT ![op.blob].phase = phase]
      BY <1>1, <1>5, <1>10 DEF Told, TaskTypes
    <2>2. \/ phase = "committed" /\ op.kind = "commit"
          \/ phase \in {"failed", "filed", "unreadable", "gone"}
          \/ phase = task[op.blob].phase
      BY <1>5 DEF Kinds
    <2> HIDE DEF phase
    <2>3. \A c \in Blobs : (SteadyOf(c))'
      <3>1. Unbound(phase) \/ (phase = "committed" /\ task[op.blob].phase = "committing") \/ phase = task[op.blob].phase
        BY <2>2, <1>6 DEF Unbound
      <3> QED  BY <1>1, <1>5, <1>7, <2>1, <3>1, MovedIsSteady
    <2>4. \A b \in Blobs : task'[b].phase = IF b = op.blob THEN phase ELSE task[b].phase
      BY <1>1, <1>5, <2>1 DEF TaskTypes, Tasks
    <2>5. \A b \in Theirs : task'[b].phase \notin {"seeding", "committing", "committed"}
      BY <2>2, <2>4, <1>6, BlobsHaveOneSource DEF SteadyInv
    <2> QED  BY <2>3, <2>5, <1>2 DEF SteadyInv, SteadyOf
  <1> QED  BY <1>8, <1>9, <1>10

\* What an operation handed over is for.
LEMMA CommitsHandedOver ==
    ASSUME StoreInv, CommitsAreMine(queue), NEW op \in Operations, op.kind = "commit" => op.blob \in Mine,
           Enqueue(op)
    PROVE  CommitsAreMine(queue')
  <1>1. queue \in Seq(Operations) /\ queue' = Append(queue, op)
    BY DEF StoreInv, StoreTypes, Enqueue
  <1>2. \A j \in DOMAIN queue' : queue'[j] = op \/ (j \in DOMAIN queue /\ queue'[j] = queue[j])
    BY <1>1
  <1> QED  BY <1>2 DEF CommitsAreMine

\* A step of the tasks alone.
LEMMA SteadyTogether ==
    ASSUME SteadyInv, CommitsAreMine(queue'), \A c \in Blobs : (SteadyOf(c))',
           \A b \in Theirs : SamePhase(b) \/ task'[b].phase \notin {"seeding", "committing", "committed"}
    PROVE  SteadyInv'
  BY DEF SteadyInv, SteadyOf, SamePhase

SteadyTypes == held \in [Peers -> SUBSET (Blobs \X Indices)]

LEMMA HeldTyped == ASSUME TaskTypes, SteadyTypes, [Next]_vars PROVE SteadyTypes'
  <1>1. ASSUME NEW b \in Blobs, Answer(b) PROVE SteadyTypes'
    <2>1. PICK r \in task[b].wave : Listed(b, r) \/ Stored(b, r) \/ Served(b, r) \/ Corrupt(b, r) \/ Silent(b, r)
      BY <1>1 DEF Answer
    <2>2. r.peer \in Peers /\ r.parts \subseteq Indices
      BY DEF TaskTypes, Tasks, Requests
    <2>3. \A I \in SUBSET Indices : [held EXCEPT ![r.peer] = @ \cup ({b} \X I)] \in [Peers -> SUBSET (Blobs \X Indices)]
      BY <2>2 DEF SteadyTypes
    <2>4. CASE Listed(b, r) \/ Served(b, r) \/ Corrupt(b, r)
      BY <2>4 DEF Listed, Served, Corrupt, SteadyTypes
    <2>5. CASE Stored(b, r) \/ Silent(b, r)
      <3>1. \E I \in {{}, r.parts} : held' = [held EXCEPT ![r.peer] = @ \cup ({b} \X I)]
        BY <2>5 DEF Stored, Silent
      <3> QED  BY <3>1, <2>2, <2>3 DEF SteadyTypes
    <2> QED  BY <2>1, <2>4, <2>5
  <1>2. ASSUME NEW b \in Blobs, Unwind(b) PROVE SteadyTypes'
    <2>1. PICK W \in SUBSET task[b].wave :
            held' = [p \in Peers |-> held[p] \cup UNION {{b} \X r.parts : r \in {x \in W : x.peer = p}}]
      BY <1>2 DEF Unwind
    <2>2. \A r \in W : r.parts \subseteq Indices
      BY DEF TaskTypes, Tasks, Requests
    <2>3. \A p \in Peers : UNION {{b} \X r.parts : r \in {x \in W : x.peer = p}} \subseteq Blobs \X Indices
      BY <2>2
    <2> QED  BY <2>1, <2>3 DEF SteadyTypes
  <1>3. ASSUME NEW p \in Peers, NEW b \in Blobs, NEW i \in Indices, Forget(p, b, i) PROVE SteadyTypes'
    BY <1>3 DEF Forget, SteadyTypes
  <1>4. ASSUME UNCHANGED held PROVE SteadyTypes'
    BY <1>4 DEF SteadyTypes
  <1>5. CASE UNCHANGED vars
    BY <1>4, <1>5 DEF vars
  <1>6. ASSUME NEW b \in Blobs, Works(b) \/ Attach(b) \/ Abort(b) \/ Repair(b) \/ Open(b) \/ Audit(b)
        PROVE  SteadyTypes'
    <2>1. CASE Answer(b) \/ Unwind(b)
      BY <2>1, <1>1, <1>2
    <2>2. CASE Round(b) \/ Seeded(b) \/ Publish(b) \/ Asked(b) \/ Gathered(b) \/ ReadBack(b)
      BY <2>2, <1>4 DEF Round, Seeded, Publish, Asked, Gathered, ReadBack
    <2>3. CASE Attach(b) \/ Abort(b) \/ Repair(b) \/ Open(b) \/ Audit(b)
      BY <2>3, <1>4 DEF Attach, Abort, Repair, Open, Audit
    <2> QED  BY <1>6, <2>1, <2>2, <2>3 DEF Works
  <1>7. ASSUME QueueWorks \/ (\E p \in Peers : Recover(p)) \/ Crash PROVE SteadyTypes'
    BY <1>7, <1>4 DEF QueueWorks, StoreWorks, Recover, Crash
  <1>8. ASSUME NEW p \in Peers, NEW b \in Blobs, NEW I \in SUBSET Indices, Asks4Room(p, b, I) PROVE SteadyTypes'
    BY <1>8, <1>4 DEF Asks4Room
  <1> QED  BY <1>3, <1>5, <1>6, <1>7, <1>8 DEF Next

\* The works of one task.
LEMMA TaskKeepsSteady ==
    ASSUME UploadInv, HealthInv, SteadyTypes, SteadyInv, NEW b \in Blobs,
           Works(b) \/ Attach(b) \/ Abort(b) \/ Repair(b) \/ Open(b) \/ Audit(b)
    PROVE  SteadyInv'
  <1>1. StoreInv /\ TaskTypes /\ CommitsAreMine(queue) /\ (\A c \in Blobs : SteadyOf(c))
    BY DEF UploadInv, SteadyInv, SteadyOf
  <1>2. b \in Theirs => task[b].phase \notin {"seeding", "committing", "committed"}
    BY DEF SteadyInv
  <1>3. ASSUME UNCHANGED queue PROVE CommitsAreMine(queue')
    BY <1>1, <1>3
  <1>4. ASSUME NEW S, Moves(b, S), S \cap {"seeding", "committing", "committed"} = {} \/ b \in Mine
        PROVE  \A c \in Theirs : SamePhase(c) \/ task'[c].phase \notin {"seeding", "committing", "committed"}
    BY <1>4, BlobsHaveOneSource DEF Moves
  <1>5. CASE Round(b) \/ Answer(b) \/ Audit(b)
    <2>1. Moves(b, {}) /\ UNCHANGED queue
      BY <1>1, <1>5, RoundMoves, AnswerMoves, AuditMoves
         DEF SamePhases, Moves, Round, Answer, Listed, Stored, Served, Corrupt, Silent, Audit, storeVars
    <2>2. \A c \in Blobs : (SteadyOf(c))'
      BY <1>1, <1>5, RoundKeepsSteady, AnswerKeepsSteady, AuditKeepsSteady DEF SteadyTypes
    <2> QED  BY <2>1, <2>2, <1>3, <1>4, SteadyTogether
  <1>6. CASE Seeded(b)
    <2> DEFINE op == Queued("commit", b, Indices, Self)
    <2>1. Moves(b, IF task[b].phase = "seeding" THEN {"committing"} ELSE {"seeded"})
      BY <1>1, <1>6, SeededMoves
    <2>2. \A c \in Theirs : SamePhase(c) \/ task'[c].phase \notin {"seeding", "committing", "committed"}
      BY <2>1, <1>2, <1>4, BlobsHaveOneSource
    <2>3. op \in Operations /\ op.blob = b /\ ((Enqueue(op) /\ task[b].phase = "seeding") \/ UNCHANGED queue)
      BY <1>6, QueuedIsOperation DEF Seeded, Queued, Kinds, storeVars
    <2> HIDE DEF op
    <2>4. CommitsAreMine(queue')
      BY <1>1, <1>2, <1>3, <2>3, CommitsHandedOver, BlobsHaveOneSource
    <2> QED  BY <1>1, <1>6, <2>2, <2>4, SeededKeepsSteady, SteadyTogether
  <1>7. CASE Publish(b)
    <2>1. Rest(b, "published", {}) /\ UNCHANGED <<queue, health, liars, held>>
      BY <1>7 DEF Publish, storeVars
    <2>2. Moves(b, {"published"})
      BY <1>1, <2>1, RestMoves DEF Resting
    <2>3. \A c \in Blobs : (SteadyOf(c))'
      BY <1>1, <2>1, RestKeepsSteady
    <2> QED  BY <2>1, <2>2, <2>3, <1>3, <1>4, SteadyTogether
  <1>8. CASE Unwind(b)
    <2> DEFINE op == Queued("discard", b, {}, Self)
    <2>1. Rest(b, "undoing", {}) /\ Enqueue(op)
      BY <1>8 DEF Unwind, MustDiscard
    <2>2. op \in Operations /\ op.kind = "discard"
      BY QueuedIsOperation DEF Queued, Kinds
    <2> HIDE DEF op
    <2>3. Moves(b, {"undoing"}) /\ CommitsAreMine(queue')
      BY <1>1, <2>1, <2>2, RestMoves, CommitsHandedOver DEF Busy, UploadPhases
    <2> QED  BY <1>1, <1>8, <2>3, <1>4, UnwindKeepsSteady, SteadyTogether DEF SteadyTypes
  <1>9. CASE Asked(b)
    <2>1. Moves(b, {"gathering"}) /\ UNCHANGED queue
      BY <1>1, <1>9, AskedMoves DEF Asked, storeVars
    <2> QED  BY <1>1, <1>9, <2>1, <1>3, <1>4, AskedKeepsSteady, SteadyTogether
  <1>10. CASE Gathered(b)
    <2> DEFINE op == Queued("file", b, Indices, Self)
    <2>1. op \in Operations /\ op.kind = "file" /\ (Enqueue(op) \/ UNCHANGED queue)
      BY <1>10, QueuedIsOperation DEF Gathered, Queued, Kinds, storeVars
    <2> HIDE DEF op
    <2>2. CommitsAreMine(queue')
      BY <1>1, <1>3, <2>1, CommitsHandedOver
    <2>3. \E phase \in {"filing", "unavailable"} : \E S \in SUBSET Peers : Rest(b, phase, S)
      BY <1>1, <1>10 DEF Gathered, TaskTypes, Tasks
    <2>4. \E phase \in {"filing", "unavailable"} : Moves(b, {phase})
      BY <1>1, <2>3, RestMoves DEF Busy, Resting, FetchPhases
    <2>5. \A c \in Theirs : SamePhase(c) \/ task'[c].phase \notin {"seeding", "committing", "committed"}
      BY <2>4, <1>4
    <2> QED  BY <1>1, <1>10, <2>2, <2>5, GatheredKeepsSteady, SteadyTogether
  <1>11. CASE ReadBack(b)
    <2>1. PICK phase \in {"opened", "unreadable"} : Move(b, phase)
      BY <1>11 DEF ReadBack
    <2>2. Moves(b, {phase})
      BY <1>1, <2>1, MoveMoves DEF Resting
    <2>3. UNCHANGED <<queue, health, liars, held>> /\ task' = [task EXCEPT ![b].phase = phase] /\ Unbound(phase)
      BY <1>11, <2>1 DEF ReadBack, Move, Unbound, storeVars
    <2>4. \A c \in Blobs : (SteadyOf(c))'
      BY <1>1, <2>3, MovedIsSteady
    <2> QED  BY <2>2, <2>3, <2>4, <1>3, <1>4, SteadyTogether
  <1>12. CASE Attach(b)
    <2>1. Moves(b, {"seeding"}) /\ b \in Mine /\ UNCHANGED queue
      BY <1>1, <1>12, AttachMoves DEF Attach, storeVars
    <2> QED  BY <1>1, <1>12, <2>1, <1>3, <1>4, BegunKeepsSteady, SteadyTogether
  <1>13. CASE Repair(b)
    <2>1. Moves(b, {"repairing"}) /\ UNCHANGED queue
      BY <1>1, <1>13, RepairMoves DEF Repair, storeVars
    <2> QED  BY <1>1, <1>13, <2>1, <1>3, <1>4, BegunKeepsSteady, SteadyTogether
  <1>14. CASE Open(b)
    <2> DEFINE usable == {p \in Peers : Usable(p)}
               steady == {p \in Dependable : At(p, b) = Indices}
    <2>1. \/ Rest(b, "opened", {}) \/ Rest(b, "unavailable", {})
          \/ task' = [task EXCEPT ![b] = [Fresh("asking", task[b].list, steady) EXCEPT !.wave = Asks(usable)]]
      BY <1>14 DEF Open
    <2>2. usable \in SUBSET Peers /\ steady \in SUBSET Peers
      BY DependablesArePeers
    <2> HIDE DEF usable, steady
    <2>3. {"opened", "unavailable", "asking"} \subseteq Busy \cup Resting /\ {} \in SUBSET Peers
      BY DEF Busy, Resting, FetchPhases
    <2>l. task[b].list \in SUBSET Peers
      BY <1>1 DEF TaskTypes, Tasks
    <2>4. \E phase \in {"opened", "unavailable", "asking"} : Moves(b, {phase})
      BY <1>1, <2>l, <2>1, <2>2, <2>3, RestMoves, AskingMoves
    <2>5. \A c \in Theirs : SamePhase(c) \/ task'[c].phase \notin {"seeding", "committing", "committed"}
      BY <2>4, <1>4
    <2>6. UNCHANGED queue
      BY <1>14 DEF Open, storeVars
    <2> QED  BY <1>1, <1>14, <2>5, <2>6, <1>3, BegunKeepsSteady, SteadyTogether
  <1>15. CASE Abort(b)
    <2>1. UNCHANGED <<queue, task, health, liars, held>>
      BY <1>15 DEF Abort, Fire
    <2>2. Dependable' = Dependable
      BY <2>1 DEF Dependable, Usable
    <2> QED  BY <2>1, <2>2 DEF SteadyInv
  <1> QED  BY <1>5, <1>6, <1>7, <1>8, <1>9, <1>10, <1>11, <1>12, <1>13, <1>14, <1>15 DEF Works

LEMMA SteadyStep ==
    ASSUME UploadInv, HealthInv, SteadyTypes, SteadyInv, [Next]_vars PROVE SteadyInv'
  <1>1. StoreInv /\ TaskTypes /\ CommitsAreMine(queue) /\ (\A c \in Blobs : SteadyOf(c))
    BY DEF UploadInv, SteadyInv, SteadyOf
  <1>2. CASE UNCHANGED vars
    <2>1. Dependable' = Dependable /\ UNCHANGED <<task, held, queue>>
      BY <1>2 DEF Dependable, Usable, vars, storeVars
    <2> QED  BY <2>1 DEF SteadyInv
  <1>3. ASSUME NEW p \in Peers, Recover(p) PROVE SteadyInv'
    <2>1. UNCHANGED <<task, held, liars, queue>>
      BY <1>3 DEF Recover, storeVars
    <2>2. \A q \in Peers : health'[q].distrusted = health[q].distrusted /\ (health'[q].paused => health[q].paused)
      BY <1>3 DEF Recover, HealthInv, Conditions
    <2>3. Dependable \subseteq Dependable'
      BY <2>1, <2>2 DEF Dependable, Usable
    <2>4. ASSUME NEW c \in Blobs PROVE SteadyTask(c, task[c], Dependable', held)
      BY <2>3, <1>1 DEF SteadyOf, SteadyTask
    <2> QED  BY <2>1, <2>4 DEF SteadyInv
  <1>4. ASSUME NEW p \in Peers, NEW b \in Blobs, NEW I \in SUBSET Indices, Asks4Room(p, b, I) PROVE SteadyInv'
    <2> DEFINE op == Queued("store", b, I, p)
    <2>1. Enqueue(op) /\ op \in Operations /\ op.kind = "store" /\ UNCHANGED <<task, health, liars, held>>
      BY <1>4, QueuedIsOperation DEF Asks4Room, Queued, Kinds
    <2> HIDE DEF op
    <2>2. CommitsAreMine(queue') /\ Dependable' = Dependable
      BY <1>1, <2>1, CommitsHandedOver DEF Dependable, Usable
    <2> QED  BY <2>1, <2>2 DEF SteadyInv
  <1>5. ASSUME NEW p \in Peers, NEW b \in Blobs, NEW i \in Indices, Forget(p, b, i) PROVE SteadyInv'
    <2>1. SamePhases /\ UNCHANGED queue
      BY <1>1, <1>5, ForgetMoves DEF Forget, storeVars
    <2>2. \A c \in Theirs : SamePhase(c)
      BY <2>1, BlobsHaveOneSource DEF SamePhases
    <2>3. \A c \in Blobs : (SteadyOf(c))'
      BY <1>1, <1>5, ForgetKeepsSteady DEF SteadyTypes
    <2> QED  BY <1>1, <2>1, <2>2, <2>3, SteadyTogether
  <1>6. CASE Crash
    <2>1. CommitsAreMine(queue')
      BY <1>6 DEF Crash, Restarted, CommitsAreMine
    <2>2. ASSUME NEW c \in Theirs PROVE task'[c].phase \notin {"seeding", "committing", "committed"}
      <3>1. c \notin Mine /\ c \in Blobs
        BY BlobsHaveOneSource
      <3>2. task'[c].phase \in {"lost", "idle"}
        BY <1>6, <3>1 DEF Crash, Fresh
      <3> QED  BY <3>2
    <2> QED  BY <1>6, <2>1, <2>2, CrashKeepsSteady, SteadyTogether
  <1>7. CASE QueueWorks
    BY <1>7, StoreWorksKeepsSteady DEF QueueWorks
  <1> QED  BY <1>2, <1>3, <1>4, <1>5, <1>6, <1>7, TaskKeepsSteady DEF Next

\* A peer that could serve all along is used (replicateBlobChunks, fetchBlobFromSwarm):
\* opening never gives up while one that was dependable throughout holds the whole blob, and
\* an upload or a repair ends short of TARGET_REMOTE_COPIES for a fragment only when every
\* such peer has it, for any blobs and peers, liars, faults and failure limits.
THEOREM SteadyPeersServe == Spec => []SteadyPeersAreUsed
  <1>1. Init => HealthInv
    BY DEF Init, HealthInv, HonestKeepTrust, Conditions
  <1>2. Init => SteadyTypes /\ SteadyInv
    <2> SUFFICES ASSUME Init PROVE SteadyTypes /\ SteadyInv
      OBVIOUS
    <2>1. SteadyTypes
      <3>1. held \in [Peers -> SUBSET (Theirs \X Indices)]
        BY WorldsAreSound DEF Init
      <3> QED  BY <3>1, BlobsHaveOneSource DEF SteadyTypes
    <2>2. ASSUME NEW b \in Blobs
          PROVE  task[b].phase = "idle" /\ SteadyTask(b, task[b], Dependable, held)
      <3> DEFINE list == IF b \in Theirs THEN Peers ELSE {}
      <3>1. task[b] = Fresh("idle", list, {})
        BY DEF Init
      <3> HIDE DEF list
      <3> QED  BY <3>1, RestedIsSteady DEF Fresh
    <2>3. CommitsAreMine(queue)
      BY DEF Init, StoreInit, CommitsAreMine
    <2> QED  BY <2>1, <2>2, <2>3, BlobsHaveOneSource DEF SteadyInv
  <1>3. UploadInv /\ HealthInv /\ SteadyTypes /\ SteadyInv /\ [Next]_vars
          => (UploadInv /\ HealthInv /\ SteadyTypes /\ SteadyInv)'
    <2>1. UploadInv => TaskTypes
      BY DEF UploadInv
    <2> QED  BY <2>1, UploadStep, HealthKept, HeldTyped, SteadyStep
  <1>4. SteadyInv => SteadyPeersAreUsed
    BY DEF SteadyInv, SteadyTask, Settled, SteadyPeersAreUsed
  <1> QED  BY <1>1, <1>2, <1>3, <1>4, UploadsStart, PTL DEF Spec
=============================================================================
