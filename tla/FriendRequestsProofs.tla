------------------------ MODULE FriendRequestsProofs ------------------------
(***************************************************************************)
(* Friend requests and the durable outbox, for any limits on the queue and *)
(* on attempts, any requests and any world: tombstones are final, friends  *)
(* are those who accepted, a drain that was asked for examines what was    *)
(* queued, and what is shown as queued or was decided is not dropped.      *)
(***************************************************************************)
EXTENDS FriendRequests, FiniteSetTheorems, FunctionTheorems, WellFoundedInduction, TLAPS

----------------------------------------------------------------------------
(* The inductive invariant.                                                 *)

Entries(queue) == {queue[i] : i \in 1..Len(queue)}
\* What a pass still has to examine, and what it awaits.
Held(d) == Entries(d.rest) \cup ({d.cur} \ {Nothing})
DrainState == [cur : Entry \cup {Nothing}, rest : Seq(Entry), again : BOOLEAN]
Actions == [kind : Lifecycle, item : Ids]
Deliveries == [kind : Lifecycle \cup {"request"}, item : Ids]

Fits(e) == e.kind = "chat" <=> e.item = "chat"
\* An id names one thing to deliver, in the queue and in a pass over an older queue.
Coherent(S) == \A e, f \in S : e.uid = f.uid => e.kind = f.kind /\ e.item = f.item

\* The store of p, when a pass holds H and frm says who made each request.  What is shown
\* as queued is an ordinary entry of the queue, and of a request still pending at its sender.
GoodStore(p, s, H, frm) ==
    /\ s \in PeerState
    /\ Len(s.outbox) <= OutboxCap
    /\ Coherent(Entries(s.outbox) \cup H)
    /\ \A e \in Entries(s.outbox) : Fits(e)
    /\ s.rows \cap s.friends = {}
    /\ s.tomb \cap (s.rows \cup s.friends) = {}
    /\ \A r \in s.rows \cup s.friends \cup s.tomb : frm[r] # "nobody"
    /\ \A x \in Items : s.status[x] = "queued" =>
         /\ x = "chat" \/ (x \in s.rows /\ frm[x] = p)
         /\ \E e \in Entries(s.outbox) : e.item = x /\ ~IsLifecycle(e)
GoodPass(d) ==
    /\ d \in DrainState
    /\ Len(d.rest) <= OutboxCap
    /\ \A e \in Held(d) : Fits(e)

\* Whatever is to be delivered is about a request that was made; a lifecycle action was taken.
Meant(k, r, frm, done) == frm[r] # "nobody" /\ (k \in Lifecycle => Act(k, r) \in done)

\* A pass that no request followed holds all that is owed, and nothing is owed without a pass.
Honoured(d, o) ==
    /\ d.cur = Nothing => o = {} /\ ~d.again
    /\ ~d.again => o \subseteq Uids(d.rest)

\* A peer with its pass, what its operations await and what it owes.
GoodAt(p, s, d, c, o, frm, done) ==
    /\ GoodPass(d) /\ GoodStore(p, s, Held(d), frm)
    /\ \A e \in Entries(s.outbox) \cup Held(d) : e.kind # "chat" => Meant(e.kind, e.item, frm, done)
    /\ c \subseteq Deliveries
    /\ \A x \in c : Meant(x.kind, x.item, frm, done)
    /\ \A r \in s.friends : Act("accept", r) \in done
    /\ o \subseteq 1..MaxUid
    /\ Honoured(d, o)

\* The packet of an action is yet to be delivered by the peer that took it.
Carried(act, s, c) ==
    act \in c \/ \E e \in Entries(s.outbox) : e.kind = act.kind /\ e.item = act.item
\* Where the packet of an action is, or why it is lost.
Backed(act) ==
    \/ PacketOf(Actor(act), act.kind, act.item) \in net
    \/ Carried(act, peer[Actor(act)], calls[Actor(act)])
    \/ act.item \in expired \cup cut

Shapes ==
    /\ peer = [p \in Peers |-> peer[p]]
    /\ drain = [p \in Peers |-> drain[p]]
    /\ calls = [p \in Peers |-> calls[p]]
    /\ owed = [p \in Peers |-> owed[p]]
    /\ net \subseteq Packet
    /\ from \in [Ids -> Peers \cup {"nobody"}]
    /\ expired \subseteq Ids /\ cut \subseteq Ids /\ acted \subseteq Actions
AllGood == \A p \in Peers : GoodAt(p, peer[p], drain[p], calls[p], owed[p], from, acted)
NetMeant == \A m \in net : Meant(m.kind, m.item, from, acted)
AllBacked == \A act \in acted : from[act.item] # "nobody" /\ Backed(act)
IInv == Shapes /\ AllGood /\ NetMeant /\ AllBacked

----------------------------------------------------------------------------
(* Queues: what is left of one when entries are taken out or added.         *)

\* How many of the positions ps come up to i: the rank of i among them.
Rank(ps, i) == Cardinality({k \in ps : k <= i})

LEMMA RanksCount ==
    ASSUME NEW n \in Nat, NEW ps \in SUBSET (1..n)
    PROVE  /\ IsFiniteSet(ps) /\ Cardinality(ps) \in Nat
           /\ \A i \in ps : Rank(ps, i) \in 1..Cardinality(ps)
           /\ \A i, k \in ps : Rank(ps, i) = Rank(ps, k) => i = k
           /\ \A j \in 1..Cardinality(ps) : \E i \in ps : Rank(ps, i) = j
<1>1. IsFiniteSet(ps) /\ Cardinality(ps) \in Nat
  <2>1. IsFiniteSet(1..n)
    BY FS_Interval
  <2>2. IsFiniteSet(ps)
    BY <2>1, FS_Subset
  <2>3. QED
    BY <2>2, FS_CardinalityType
<1>2. \A T \in SUBSET ps : IsFiniteSet(T) /\ Cardinality(T) \in Nat /\ Cardinality(T) <= Cardinality(ps)
  BY <1>1, FS_Subset, FS_CardinalityType
<1>3. ASSUME NEW i \in ps PROVE Rank(ps, i) \in 1..Cardinality(ps)
  <2> DEFINE T == {k \in ps : k <= i}
  <2>1. T \in SUBSET ps /\ i \in T
    OBVIOUS
  <2>2. Cardinality(T) # 0
    BY <1>2, <2>1, FS_EmptySet
  <2>3. QED
    BY <1>1, <1>2, <2>1, <2>2 DEF Rank
<1>4. ASSUME NEW i \in ps, NEW k \in ps, i < k PROVE Rank(ps, i) # Rank(ps, k)
  <2> DEFINE T == {l \in ps : l <= i}
             U == {l \in ps : l <= k}
  <2>1. T \in SUBSET U /\ U \in SUBSET ps /\ k \in U /\ k \notin T
    <3>1. \A l \in ps : l \in Nat /\ (l <= i => l <= k)
      BY <1>4
    <3>2. k <= k /\ ~(k <= i)
      BY <1>4, <3>1
    <3>3. QED
      BY <3>1, <3>2
  <2> HIDE DEF T, U
  <2>2. Cardinality(T) # Cardinality(U)
    BY <1>2, <2>1, FS_Subset
  <2>3. QED
    BY <2>2 DEF Rank, T, U
<1>5. \A i, k \in ps : Rank(ps, i) = Rank(ps, k) => i = k
  <2> SUFFICES ASSUME NEW i \in ps, NEW k \in ps, i # k PROVE Rank(ps, i) # Rank(ps, k)
    OBVIOUS
  <2>1. i < k \/ k < i
    OBVIOUS
  <2>2. QED
    BY <1>4, <2>1
<1>6. ASSUME NEW j \in 1..Cardinality(ps) PROVE \E i \in ps : Rank(ps, i) = j
  <2> DEFINE c == Cardinality(ps)
             f == [i \in ps |-> Rank(ps, i)]
  <2>1. f \in Injection(ps, 1..c)
    <3>1. f \in [ps -> 1..c]
      BY <1>3
    <3>2. \A a, b \in ps : f[a] = f[b] => a = b
      BY <1>5
    <3> HIDE DEF f
    <3>3. QED
      BY <3>1, <3>2, Fun_IsInj
  <2>2. IsFiniteSet(1..c) /\ Cardinality(1..c) = c
    BY <1>1, FS_Interval
  <2>3. f \in Surjection(ps, 1..c)
    <3> HIDE DEF f
    <3>1. QED
      BY <2>1, <2>2, FS_Injection
  <2>4. \E i \in ps : f[i] = j
    <3> HIDE DEF f
    <3>1. \A x \in 1..c : \E i \in ps : f[i] = x
      BY <2>3, Fun_SurjectionProperties
    <3>2. QED
      BY <3>1
  <2>5. QED
    BY <2>4
<1>7. QED
  BY <1>1, <1>3, <1>5, <1>6

IsPicked(t, s, ps) ==
    /\ \A j \in 1..Len(t) : \E i \in ps : t[j] = s[i]
    /\ \A i \in ps : \E j \in 1..Len(t) : t[j] = s[i]

LEMMA PickedFacts ==
    ASSUME NEW S, NEW s \in Seq(S), NEW ps \in SUBSET (1..Len(s)), NEW t, t = PickedAt(s, ps)
    PROVE  t \in Seq(S) /\ IsPicked(t, s, ps)
<1> DEFINE c == Cardinality(ps)
           at(j) == CHOOSE i \in ps : Rank(ps, i) = j
<1>1. /\ c \in Nat
      /\ \A i \in ps : Rank(ps, i) \in 1..c
      /\ \A i, k \in ps : Rank(ps, i) = Rank(ps, k) => i = k
      /\ \A j \in 1..c : \E i \in ps : Rank(ps, i) = j
  <2>1. Len(s) \in Nat
    OBVIOUS
  <2>2. QED
    BY <2>1, RanksCount, Zenon
<1>2. t = [j \in 1..c |-> s[at(j)]]
  BY DEF PickedAt, Rank
<1>3. \A j \in 1..c : at(j) \in ps /\ Rank(ps, at(j)) = j
  BY <1>1
<1> HIDE DEF c, at
<1>4. \A j \in 1..c : t[j] = s[at(j)] /\ t[j] \in S
  <2>1. \A i \in ps : s[i] \in S
    OBVIOUS
  <2>2. QED
    BY <1>2, <1>3, <2>1
<1>5. t \in Seq(S) /\ Len(t) = c
  BY <1>1, <1>2, <1>4
<1>6. ASSUME NEW i \in ps PROVE \E j \in 1..c : t[j] = s[i]
  <2>1. Rank(ps, i) \in 1..c
    BY <1>1
  <2>2. at(Rank(ps, i)) = i
    BY <1>1, <1>3, <2>1
  <2>3. QED
    BY <1>4, <2>1, <2>2
<1>7. QED
  BY <1>3, <1>4, <1>5, <1>6 DEF IsPicked

LEMMA CountTo ==
    ASSUME NEW n \in Nat
    PROVE  IsFiniteSet(1..n) /\ Cardinality(1..n) = n
BY FS_Interval

LEMMA PickedEntries ==
    ASSUME NEW S, NEW q \in Seq(S), NEW ps \in SUBSET (1..Len(q)), NEW t, t = PickedAt(q, ps)
    PROVE  /\ t \in Seq(S)
           /\ Entries(t) = {q[i] : i \in ps}
           /\ Len(t) <= Len(q)
           /\ ps # 1..Len(q) => Len(t) < Len(q)
<1>1. t \in Seq(S) /\ IsPicked(t, q, ps)
  BY PickedFacts
<1>2. Entries(t) = {q[i] : i \in ps}
  <2>1. ASSUME NEW x \in Entries(t) PROVE \E i \in ps : x = q[i]
    <3>1. PICK j \in 1..Len(t) : x = t[j]
      BY DEF Entries
    <3>2. QED
      BY <1>1, <3>1 DEF IsPicked
  <2>2. ASSUME NEW i \in ps PROVE q[i] \in Entries(t)
    BY <1>1 DEF IsPicked, Entries
  <2>3. QED
    BY <2>1, <2>2
<1>3. IsFiniteSet(1..Len(q)) /\ Cardinality(1..Len(q)) = Len(q)
  <2>1. Len(q) \in Nat
    OBVIOUS
  <2>2. QED
    BY <2>1, CountTo
<1>4. Cardinality(ps) \in Nat /\ Cardinality(ps) <= Len(q)
      /\ (ps # 1..Len(q) => Cardinality(ps) # Len(q))
  BY <1>3, FS_Subset, FS_CardinalityType
<1>5. Len(t) = Cardinality(ps)
  BY <1>4 DEF PickedAt
<1>6. QED
  BY <1>1, <1>2, <1>4, <1>5

\* What taking out the entries with some ids leaves.
IsWithout(t, q, uids) ==
    /\ Entries(t) = {e \in Entries(q) : e.uid \notin uids}
    /\ Len(t) <= Len(q)
    /\ (\E e \in Entries(q) : e.uid \in uids) => Len(t) < Len(q)
LEMMA WithoutFacts ==
    ASSUME NEW S, NEW q \in Seq(S), NEW uids, NEW t, t = Without(q, uids)
    PROVE  t \in Seq(S) /\ IsWithout(t, q, uids)
<1> DEFINE ps == {i \in 1..Len(q) : q[i].uid \notin uids}
<1>1. ps \in SUBSET (1..Len(q)) /\ t = PickedAt(q, ps)
  BY DEF Without
<1>2. \A i \in 1..Len(q) : i \in ps <=> q[i].uid \notin uids
  OBVIOUS
<1> HIDE DEF ps
<1>3. /\ t \in Seq(S) /\ Entries(t) = {q[i] : i \in ps} /\ Len(t) <= Len(q)
      /\ ps # 1..Len(q) => Len(t) < Len(q)
  BY <1>1, PickedEntries
<1>4. Entries(t) = {e \in Entries(q) : e.uid \notin uids}
  <2>1. \A x : x \in Entries(t) <=> \E i \in ps : x = q[i]
    BY <1>3
  <2>2. \A x : x \in Entries(q) <=> \E i \in 1..Len(q) : x = q[i]
    BY DEF Entries
  <2>3. \A x : x \in Entries(t) <=> x \in Entries(q) /\ x.uid \notin uids
    BY <1>1, <1>2, <2>1, <2>2
  <2>4. QED
    BY <2>3
<1>5. (\E e \in Entries(q) : e.uid \in uids) => ps # 1..Len(q)
  BY <1>2 DEF Entries
<1>6. QED
  BY <1>3, <1>4, <1>5 DEF IsWithout

\* What taking out the copies of some requests leaves.
LEMMA WithoutRequestsFacts ==
    ASSUME NEW S, NEW q \in Seq(S), NEW ids, NEW t, t = WithoutRequests(q, ids)
    PROVE  /\ t \in Seq(S) /\ Len(t) <= Len(q)
           /\ Entries(t) = {e \in Entries(q) : ~(e.kind = "request" /\ e.item \in ids)}
<1> DEFINE ps == {i \in 1..Len(q) : ~(q[i].kind = "request" /\ q[i].item \in ids)}
<1>1. ps \in SUBSET (1..Len(q)) /\ t = PickedAt(q, ps)
  BY DEF WithoutRequests
<1>2. \A i \in 1..Len(q) : i \in ps <=> ~(q[i].kind = "request" /\ q[i].item \in ids)
  OBVIOUS
<1> HIDE DEF ps
<1>3. t \in Seq(S) /\ Entries(t) = {q[i] : i \in ps} /\ Len(t) <= Len(q)
  BY <1>1, PickedEntries
<1>4. Entries(t) = {e \in Entries(q) : ~(e.kind = "request" /\ e.item \in ids)}
  <2>1. \A x : x \in Entries(t) <=> \E i \in ps : x = q[i]
    BY <1>3
  <2>2. \A x : x \in Entries(q) <=> \E i \in 1..Len(q) : x = q[i]
    BY DEF Entries
  <2>3. \A x : x \in Entries(t) <=> x \in Entries(q) /\ ~(x.kind = "request" /\ x.item \in ids)
    BY <1>1, <1>2, <2>1, <2>2
  <2>4. QED
    BY <2>3
<1>5. QED
  BY <1>3, <1>4

LEMMA AppendFacts ==
    ASSUME NEW S, NEW q \in Seq(S), NEW e \in S
    PROVE  /\ Append(q, e) \in Seq(S) /\ Len(Append(q, e)) = Len(q) + 1
           /\ Entries(Append(q, e)) = Entries(q) \cup {e}
<1> DEFINE t == Append(q, e)
<1>1. /\ t \in Seq(S) /\ Len(t) = Len(q) + 1 /\ Len(q) \in Nat
      /\ t[Len(q) + 1] = e /\ \A i \in 1..Len(q) : t[i] = q[i]
  OBVIOUS
<1> HIDE DEF t
<1>2. 1..Len(t) = (1..Len(q)) \cup {Len(q) + 1}
  BY <1>1
<1>3. \A x : (\E i \in 1..Len(t) : x = t[i]) <=> x = e \/ \E i \in 1..Len(q) : x = q[i]
  BY <1>1, <1>2
<1>4. Entries(t) = Entries(q) \cup {e}
  BY <1>3 DEF Entries
<1>5. QED
  BY <1>1, <1>4 DEF t

LEMMA UidsOf == ASSUME NEW q PROVE Uids(q) = {e.uid : e \in Entries(q)}
<1>1. \A x : (\E i \in 1..Len(q) : x = q[i].uid) <=> \E e \in Entries(q) : x = e.uid
  BY DEF Entries
<1>2. QED
  BY <1>1 DEF Uids

LEMMA UidsAreFew ==
    ASSUME NEW S, NEW q \in Seq(S)
    PROVE  IsFiniteSet(Uids(q)) /\ Cardinality(Uids(q)) <= Len(q)
<1> DEFINE f == [i \in 1..Len(q) |-> q[i].uid]
<1>1. IsFiniteSet(1..Len(q)) /\ Cardinality(1..Len(q)) = Len(q)
  <2>1. Len(q) \in Nat
    OBVIOUS
  <2>2. QED
    BY <2>1, CountTo
<1>2. f \in [1..Len(q) -> Uids(q)] /\ \A u \in Uids(q) : \E i \in 1..Len(q) : f[i] = u
  BY DEF Uids
<1> HIDE DEF f
<1>3. f \in Surjection(1..Len(q), Uids(q))
  BY <1>2, Fun_IsSurj
<1>4. QED
  BY <1>1, <1>3, FS_Surjection

LEMMA FirstOfFacts ==
    ASSUME NEW T \in SUBSET Nat, T # {}
    PROVE  FirstOf(T) \in T /\ \A j \in T : FirstOf(T) <= j
<1>1. \E i \in T : \A j \in T : ~(<<j, i>> \in OpToRel(<, Nat))
  BY WFMin, NatLessThanWellFounded
<1>2. \A i, j \in Nat : i < j => <<i, j>> \in OpToRel(<, Nat)
  BY DEF OpToRel
<1>3. PICK i \in T : \A j \in T : ~(<<j, i>> \in OpToRel(<, Nat))
  BY <1>1
<1>4. ASSUME NEW j \in T PROVE i <= j
  <2>1. i \in Nat /\ j \in Nat /\ ~(j < i)
    BY <1>2, <1>3
  <2>2. QED
    BY <2>1
<1>5. QED
  BY <1>4 DEF FirstOf

----------------------------------------------------------------------------
(* Stores: what each helper leaves of a good one.                           *)

LEMMA PeersFacts ==
    /\ "nobody" \notin Peers
    /\ \A p \in Peers : Other(p) \in Peers /\ Other(p) # p /\ Other(Other(p)) = p
    /\ \A p, q \in Peers : q # p => q = Other(p)
<1>1. "nobody" \notin Peers
  BY TwoPeers
<1>2. PICK x, y \in Peers : x # y /\ Peers = {x, y}
  BY TwoPeers
<1>3. Other(x) = y /\ Other(y) = x
  <2>1. \A q \in Peers : q # x <=> q = y
    BY <1>2
  <2>2. \A q \in Peers : q # y <=> q = x
    BY <1>2
  <2>3. Other(x) \in Peers /\ Other(x) # x
    BY <2>1 DEF Other
  <2>4. Other(y) \in Peers /\ Other(y) # y
    BY <2>2 DEF Other
  <2>5. QED
    BY <2>1, <2>2, <2>3, <2>4
<1>4. QED
  BY <1>1, <1>2, <1>3

\* The fields of a store and their types.
StoreFields(s) ==
    /\ s = [rows |-> s.rows, friends |-> s.friends, tomb |-> s.tomb, status |-> s.status,
            outbox |-> s.outbox, chats |-> s.chats]
    /\ s.rows \in SUBSET Ids /\ s.friends \in SUBSET Ids /\ s.tomb \in SUBSET Ids
    /\ s.status \in [Items -> Statuses] /\ s.outbox \in Seq(Entry) /\ s.chats \in Nat
LEMMA StoreTyped ==
    ASSUME NEW s
    PROVE  s \in PeerState <=> StoreFields(s)
BY DEF PeerState, StoreFields

LEMMA EntryTyped ==
    ASSUME NEW e \in Entry
    PROVE  /\ e.uid \in 1..MaxUid /\ e.item \in Items /\ e.tries \in 0..MaxAttempts
           /\ e.kind \in Lifecycle \cup {"request", "chat"}
           /\ e # Nothing /\ e.uid # 0 /\ e.kind # "none"
           /\ Fits(e) /\ ~IsLifecycle(e) => IF e.item = "chat" THEN e.kind = "chat" ELSE e.kind = "request"
           /\ Fits(e) /\ e.kind # "chat" => e.item \in Ids
<1>1. /\ e.uid \in 1..MaxUid /\ e.item \in Items /\ e.tries \in 0..MaxAttempts
      /\ e.kind \in Lifecycle \cup {"request", "chat"}
  BY DEF Entry
<1>2. e.uid # 0 /\ e.kind # "none"
  BY <1>1, UidsSuffice DEF Lifecycle
<1>3. e # Nothing
  BY <1>2 DEF Nothing
<1>4. QED
  BY <1>1, <1>2, <1>3 DEF Fits, IsLifecycle, Items

\* What a mark changes.
MarkedAs(t, s, item, st) ==
    /\ t.rows = s.rows /\ t.friends = s.friends /\ t.tomb = s.tomb /\ t.outbox = s.outbox
    /\ t.chats = s.chats
    /\ \A x \in Items : t.status[x] =
         IF x = item /\ (item = "chat" \/ item \in s.rows) THEN st ELSE s.status[x]
LEMMA MarkFacts ==
    ASSUME NEW s \in PeerState, NEW item \in Items, NEW st \in Statuses, NEW t, t = Mark(s, item, st)
    PROVE  t \in PeerState /\ MarkedAs(t, s, item, st)
<1>1. StoreFields(s)
  BY StoreTyped
<1>2. CASE item = "chat" \/ item \in s.rows
  <2>1. t = [s EXCEPT !.status[item] = st]
    BY <1>2 DEF Mark
  <2>2. t = [rows |-> s.rows, friends |-> s.friends, tomb |-> s.tomb,
             status |-> [s.status EXCEPT ![item] = st],
             outbox |-> s.outbox, chats |-> s.chats]
    BY <1>1, <2>1 DEF StoreFields
  <2>3. [s.status EXCEPT ![item] = st] \in [Items -> Statuses]
    BY <1>1 DEF StoreFields
  <2>4. t \in PeerState
    BY <1>1, <2>2, <2>3 DEF StoreFields, PeerState
  <2>5. \A x \in Items : t.status[x] = IF x = item THEN st ELSE s.status[x]
    BY <1>1, <2>2 DEF StoreFields
  <2>6. QED
    BY <1>2, <2>2, <2>4, <2>5 DEF MarkedAs
<1>3. CASE ~(item = "chat" \/ item \in s.rows)
  BY <1>3 DEF Mark, MarkedAs
<1>4. QED
  BY <1>2, <1>3

\* What dropping rows changes.
Dropped(t, s, ids) ==
    /\ t.rows = s.rows \ ids /\ t.friends = s.friends /\ t.tomb = s.tomb /\ t.outbox = s.outbox
    /\ t.chats = s.chats
    /\ \A x \in Items : t.status[x] = IF x \in ids THEN "none" ELSE s.status[x]
LEMMA DropFacts ==
    ASSUME NEW s \in PeerState, NEW ids, NEW t, t = Drop(s, ids)
    PROVE  t \in PeerState /\ Dropped(t, s, ids)
<1>1. StoreFields(s)
  BY StoreTyped
<1> DEFINE st == [i \in Items |-> IF i \in ids THEN "none" ELSE s.status[i]]
<1>2. t = [rows |-> s.rows \ ids, friends |-> s.friends, tomb |-> s.tomb, status |-> st,
           outbox |-> s.outbox, chats |-> s.chats]
  BY <1>1 DEF Drop, StoreFields
<1>3. st \in [Items -> Statuses]
  BY <1>1 DEF StoreFields, Statuses
<1>4. \A x \in Items : st[x] = IF x \in ids THEN "none" ELSE s.status[x]
  OBVIOUS
<1> HIDE DEF st
<1>5. QED
  BY <1>1, <1>2, <1>3, <1>4 DEF StoreFields, PeerState, Dropped

\* s changed in its tombstones, its friends or its queue.
LEMMA WithTomb ==
    ASSUME NEW s \in PeerState, NEW x \in SUBSET Ids, NEW t, t = [s EXCEPT !.tomb = x]
    PROVE  /\ t \in PeerState /\ t.tomb = x
           /\ t.rows = s.rows /\ t.friends = s.friends /\ t.status = s.status
           /\ t.outbox = s.outbox /\ t.chats = s.chats
BY StoreTyped DEF StoreFields
LEMMA WithFriends ==
    ASSUME NEW s \in PeerState, NEW x \in SUBSET Ids, NEW t, t = [s EXCEPT !.friends = x]
    PROVE  /\ t \in PeerState /\ t.friends = x
           /\ t.rows = s.rows /\ t.tomb = s.tomb /\ t.status = s.status
           /\ t.outbox = s.outbox /\ t.chats = s.chats
BY StoreTyped DEF StoreFields
LEMMA WithOutbox ==
    ASSUME NEW s \in PeerState, NEW x \in Seq(Entry), NEW t, t = [s EXCEPT !.outbox = x]
    PROVE  /\ t \in PeerState /\ t.outbox = x
           /\ t.rows = s.rows /\ t.friends = s.friends /\ t.tomb = s.tomb
           /\ t.status = s.status /\ t.chats = s.chats
BY StoreTyped DEF StoreFields
LEMMA WithRows ==
    ASSUME NEW s \in PeerState, NEW x \in SUBSET Ids, NEW t, t = [s EXCEPT !.rows = x]
    PROVE  /\ t \in PeerState /\ t.rows = x
           /\ t.friends = s.friends /\ t.tomb = s.tomb /\ t.status = s.status
           /\ t.outbox = s.outbox /\ t.chats = s.chats
BY StoreTyped DEF StoreFields

\* What pruning, cancelling or declining may do: rows and copies of requests go, what is
\* about lifecycle actions stays.
Pares(t, s) ==
    /\ t.rows \subseteq s.rows /\ t.friends = s.friends
    /\ Entries(t.outbox) \subseteq Entries(s.outbox)
    /\ \A e \in Entries(s.outbox) : IsLifecycle(e) => e \in Entries(t.outbox)

LEMMA GoodFields ==
    ASSUME NEW p, NEW s, NEW H, NEW frm, GoodStore(p, s, H, frm)
    PROVE  /\ s \in PeerState /\ StoreFields(s) /\ Len(s.outbox) \in Nat
           /\ Entries(s.outbox) \subseteq Entry
<1>1. s \in PeerState /\ StoreFields(s)
  BY StoreTyped DEF GoodStore
<1>2. s.outbox \in Seq(Entry)
  BY <1>1 DEF StoreFields
<1>3. \A i \in 1..Len(s.outbox) : s.outbox[i] \in Entry
  BY <1>2
<1>4. QED
  BY <1>1, <1>2, <1>3 DEF Entries

\* A store stays good when entries leave its queue and requests leave its rows, if what is
\* still shown as queued keeps its entries.
LEMMA StaysGood ==
    ASSUME NEW p, NEW s, NEW H, NEW frm, GoodStore(p, s, H, frm),
           NEW t \in PeerState, Len(t.outbox) <= Len(s.outbox),
           Entries(t.outbox) \subseteq Entries(s.outbox),
           t.rows \cup t.friends \cup t.tomb \subseteq s.rows \cup s.friends \cup s.tomb,
           t.rows \cap t.friends = {}, t.tomb \cap (t.rows \cup t.friends) = {},
           \A x \in Items : t.status[x] = "queued" =>
               /\ s.status[x] = "queued"
               /\ x = "chat" \/ x \in t.rows
               /\ \A e \in Entries(s.outbox) :
                    e.item = x /\ ~IsLifecycle(e) => e \in Entries(t.outbox)
    PROVE  GoodStore(p, t, H, frm)
<1>1. Len(t.outbox) <= OutboxCap
  <2>1. Len(t.outbox) \in Nat /\ Len(s.outbox) \in Nat /\ OutboxCap \in Nat
    BY StoreTyped, GoodFields, QueueBounds DEF StoreFields
  <2>2. Len(s.outbox) <= OutboxCap
    BY DEF GoodStore
  <2>3. QED
    BY <2>1, <2>2
<1>2. Coherent(Entries(t.outbox) \cup H)
  <2>1. Coherent(Entries(s.outbox) \cup H)
    BY DEF GoodStore
  <2>2. QED
    BY <2>1 DEF Coherent
<1>3. ASSUME NEW x \in Items, t.status[x] = "queued"
      PROVE  /\ x = "chat" \/ (x \in t.rows /\ frm[x] = p)
             /\ \E e \in Entries(t.outbox) : e.item = x /\ ~IsLifecycle(e)
  <2>1. /\ x = "chat" \/ (x \in s.rows /\ frm[x] = p)
        /\ \E e \in Entries(s.outbox) : e.item = x /\ ~IsLifecycle(e)
    BY <1>3 DEF GoodStore
  <2>2. QED
    BY <1>3, <2>1
<1>4. \A e \in Entries(t.outbox) : Fits(e)
  BY DEF GoodStore
<1>5. \A r \in t.rows \cup t.friends \cup t.tomb : frm[r] # "nobody"
  BY DEF GoodStore
<1>6. QED
  BY <1>1, <1>2, <1>3, <1>4, <1>5 DEF GoodStore

Buried(t, s, ids) ==
    /\ t.rows = s.rows \ ids /\ t.friends = s.friends /\ t.tomb = s.tomb \cup ids
    /\ t.outbox = s.outbox
    /\ \A x \in Items : t.status[x] = IF x \in ids THEN "none" ELSE s.status[x]
LEMMA BuryFacts ==
    ASSUME NEW s \in PeerState, NEW ids \in SUBSET Ids, NEW t, t = Bury(s, ids)
    PROVE  t \in PeerState /\ Buried(t, s, ids)
<1> DEFINE u == Drop(s, ids)
<1>1. u \in PeerState /\ Dropped(u, s, ids)
  BY DropFacts
<1>2. t = [u EXCEPT !.tomb = @ \cup ids]
  BY DEF Bury
<1> HIDE DEF u
<1>3. u.tomb \cup ids \in SUBSET Ids
  BY <1>1, StoreTyped DEF StoreFields
<1>4. t = [u EXCEPT !.tomb = u.tomb \cup ids]
  BY <1>2
<1>5. QED
  BY <1>1, <1>3, <1>4, WithTomb DEF Dropped, Buried

\* Rows buried, and their queued copies with them.
LEMMA BuryAllGood ==
    ASSUME NEW p, NEW s, NEW H, NEW frm, GoodStore(p, s, H, frm),
           NEW gone \in SUBSET s.rows, NEW t,
           t = [Bury(s, gone) EXCEPT !.outbox = WithoutRequests(@, gone)]
    PROVE  GoodStore(p, t, H, frm) /\ Pares(t, s)
<1> DEFINE u == Bury(s, gone)
           q == WithoutRequests(s.outbox, gone)
<1>1. s \in PeerState /\ StoreFields(s) /\ gone \in SUBSET Ids
  BY GoodFields DEF StoreFields
<1>2. u \in PeerState /\ Buried(u, s, gone)
  BY <1>1, BuryFacts
<1>3. /\ q \in Seq(Entry) /\ Len(q) <= Len(s.outbox)
      /\ Entries(q) = {e \in Entries(s.outbox) : ~(e.kind = "request" /\ e.item \in gone)}
  <2>1. s.outbox \in Seq(Entry)
    BY <1>1 DEF StoreFields
  <2>2. QED
    BY <2>1, WithoutRequestsFacts
<1>4. t = [u EXCEPT !.outbox = q]
  <2>1. u.outbox = s.outbox
    BY <1>2 DEF Buried
  <2>2. QED
    BY <2>1
<1> HIDE DEF u, q
<1>5. /\ t \in PeerState /\ t.outbox = q /\ t.rows = s.rows \ gone /\ t.friends = s.friends
      /\ t.tomb = s.tomb \cup gone
      /\ \A x \in Items : t.status[x] = IF x \in gone THEN "none" ELSE s.status[x]
  <2>1. /\ t \in PeerState /\ t.outbox = q
        /\ t.rows = u.rows /\ t.friends = u.friends /\ t.tomb = u.tomb
        /\ t.status = u.status /\ t.chats = u.chats
    <3>1. u \in PeerState
      BY <1>2
    <3>2. q \in Seq(Entry)
      BY <1>3
    <3>3. ASSUME NEW v, v = [u EXCEPT !.outbox = q]
          PROVE  /\ v \in PeerState /\ v.outbox = q
                 /\ v.rows = u.rows /\ v.friends = u.friends /\ v.tomb = u.tomb
                 /\ v.status = u.status /\ v.chats = u.chats
      BY <3>1, <3>2, <3>3, WithOutbox
    <3>4. QED
      BY <1>4, <3>3, Zenon
  <2>2. QED
    BY <1>2, <2>1 DEF Buried
<1>6. Pares(t, s)
  <2>1. \A e \in Entries(s.outbox) : IsLifecycle(e) => e \in Entries(q)
    BY <1>3 DEF IsLifecycle, Lifecycle
  <2>2. QED
    BY <1>3, <1>5, <2>1 DEF Pares
<1>7. \A x \in Items : t.status[x] = "queued" =>
        /\ s.status[x] = "queued" /\ x \notin gone
        /\ x = "chat" \/ x \in t.rows
        /\ \A e \in Entries(s.outbox) : e.item = x /\ ~IsLifecycle(e) => e \in Entries(t.outbox)
  <2> SUFFICES ASSUME NEW x \in Items, t.status[x] = "queued"
               PROVE  /\ s.status[x] = "queued" /\ x \notin gone
                      /\ x = "chat" \/ x \in t.rows
                      /\ \A e \in Entries(s.outbox) : e.item = x => e \in Entries(t.outbox)
    OBVIOUS
  <2>1. s.status[x] = "queued" /\ x \notin gone
    BY <1>5
  <2>2. x = "chat" \/ x \in s.rows
    BY <2>1 DEF GoodStore
  <2>3. QED
    BY <1>3, <1>5, <2>1, <2>2
<1>8. /\ s.rows \cap s.friends = {} /\ s.tomb \cap (s.rows \cup s.friends) = {}
  BY DEF GoodStore
<1>9. GoodStore(p, t, H, frm)
  <2>1. /\ t.rows \cup t.friends \cup t.tomb \subseteq s.rows \cup s.friends \cup s.tomb
        /\ t.rows \cap t.friends = {} /\ t.tomb \cap (t.rows \cup t.friends) = {}
    BY <1>5, <1>8
  <2>2. Len(t.outbox) <= Len(s.outbox) /\ Entries(t.outbox) \subseteq Entries(s.outbox)
    BY <1>3, <1>5
  <2>3. QED
    BY <1>5, <1>7, <2>1, <2>2, StaysGood
<1>10. QED
  BY <1>6, <1>9

LEMMA PruneGood ==
    ASSUME NEW p, NEW s, NEW H, NEW frm, GoodStore(p, s, H, frm), NEW ids, NEW t, t = Prune(s, ids)
    PROVE  GoodStore(p, t, H, frm) /\ Pares(t, s)
<1>1. s.rows \cap ids \in SUBSET s.rows
  OBVIOUS
<1>2. t = [Bury(s, s.rows \cap ids) EXCEPT !.outbox = WithoutRequests(@, s.rows \cap ids)]
  BY DEF Prune
<1>3. QED
  BY <1>1, <1>2, BuryAllGood

LEMMA BuryGood ==
    ASSUME NEW p, NEW s, NEW H, NEW frm, GoodStore(p, s, H, frm),
           NEW r \in s.rows, frm[r] # p, NEW t, t = Bury(s, {r})
    PROVE  GoodStore(p, t, H, frm) /\ Pares(t, s)
<1>1. s \in PeerState /\ StoreFields(s) /\ {r} \in SUBSET Ids
  BY GoodFields DEF StoreFields
<1>2. t \in PeerState /\ Buried(t, s, {r})
  BY <1>1, BuryFacts
<1>3. Pares(t, s)
  BY <1>2 DEF Pares, Buried
<1>4. /\ s.rows \cap s.friends = {} /\ s.tomb \cap (s.rows \cup s.friends) = {}
  BY DEF GoodStore
<1>5. /\ t.rows \cup t.friends \cup t.tomb \subseteq s.rows \cup s.friends \cup s.tomb
      /\ t.rows \cap t.friends = {} /\ t.tomb \cap (t.rows \cup t.friends) = {}
  BY <1>2, <1>4 DEF Buried
<1>6. Len(t.outbox) <= Len(s.outbox) /\ Entries(t.outbox) \subseteq Entries(s.outbox)
  <2>1. Len(s.outbox) \in Nat
    BY GoodFields
  <2>2. t.outbox = s.outbox
    BY <1>2 DEF Buried
  <2>3. QED
    BY <2>1, <2>2
<1>7. \A x \in Items : t.status[x] = "queued" =>
        s.status[x] = "queued" /\ (x = "chat" \/ x \in t.rows)
  <2> SUFFICES ASSUME NEW x \in Items, t.status[x] = "queued"
               PROVE  s.status[x] = "queued" /\ (x = "chat" \/ x \in t.rows)
    OBVIOUS
  <2>1. s.status[x] = "queued" /\ x # r
    BY <1>2 DEF Buried
  <2>2. x = "chat" \/ x \in s.rows
    BY <2>1 DEF GoodStore
  <2>3. QED
    BY <1>2, <2>1, <2>2 DEF Buried
<1>8. QED
  BY <1>2, <1>3, <1>5, <1>6, <1>7, StaysGood DEF Buried

LEMMA TerminalizeGood ==
    ASSUME NEW p, NEW s, NEW H, NEW frm, GoodStore(p, s, H, frm),
           NEW r \in s.rows, NEW outgoing \in BOOLEAN, ~outgoing => frm[r] # p,
           NEW t, t = Terminalize(s, r, outgoing)
    PROVE  GoodStore(p, t, H, frm) /\ Pares(t, s)
<1>1. CASE outgoing
  BY <1>1, BuryAllGood DEF Terminalize
<1>2. CASE ~outgoing
  BY <1>2, BuryGood DEF Terminalize
<1>3. QED
  BY <1>1, <1>2

\* A request that becomes a friend; it is no longer a row.
LEMMA BefriendGood ==
    ASSUME NEW p, NEW s, NEW H, NEW frm, GoodStore(p, s, H, frm),
           NEW r \in s.rows, NEW t, t = Befriend(s, r)
    PROVE  /\ GoodStore(p, t, H, frm) /\ t.friends = s.friends \cup {r}
           /\ t.rows \subseteq s.rows /\ t.outbox = s.outbox
<1> DEFINE u == Drop(s, {r})
<1>1. s \in PeerState /\ StoreFields(s)
  BY GoodFields
<1>2. u \in PeerState /\ Dropped(u, s, {r})
  BY <1>1, DropFacts
<1>3. t = [u EXCEPT !.friends = u.friends \cup {r}] /\ u.friends \cup {r} \in SUBSET Ids
  BY <1>1, <1>2 DEF Befriend, StoreFields, Dropped
<1> HIDE DEF u
<1>4. /\ t \in PeerState /\ t.friends = s.friends \cup {r} /\ t.rows = s.rows \ {r}
      /\ t.tomb = s.tomb /\ t.outbox = s.outbox
      /\ \A x \in Items : t.status[x] = IF x = r THEN "none" ELSE s.status[x]
  <2>1. /\ t \in PeerState /\ t.friends = u.friends \cup {r}
        /\ t.rows = u.rows /\ t.tomb = u.tomb /\ t.status = u.status
        /\ t.outbox = u.outbox /\ t.chats = u.chats
    <3>1. u \in PeerState
      BY <1>2
    <3>2. u.friends \cup {r} \in SUBSET Ids
      BY <1>3
    <3>3. t = [u EXCEPT !.friends = u.friends \cup {r}]
      BY <1>3
    <3>4. QED
      BY <3>1, <3>2, <3>3, WithFriends
  <2>2. QED
    BY <1>2, <2>1 DEF Dropped
<1>5. /\ s.rows \cap s.friends = {} /\ s.tomb \cap (s.rows \cup s.friends) = {}
  BY DEF GoodStore
<1>6. /\ t.rows \cup t.friends \cup t.tomb \subseteq s.rows \cup s.friends \cup s.tomb
      /\ t.rows \cap t.friends = {} /\ t.tomb \cap (t.rows \cup t.friends) = {}
  BY <1>4, <1>5
<1>7. \A x \in Items : t.status[x] = "queued" =>
        s.status[x] = "queued" /\ (x = "chat" \/ x \in t.rows)
  <2> SUFFICES ASSUME NEW x \in Items, t.status[x] = "queued"
               PROVE  s.status[x] = "queued" /\ (x = "chat" \/ x \in t.rows)
    OBVIOUS
  <2>1. s.status[x] = "queued" /\ x # r
    BY <1>4
  <2>2. x = "chat" \/ x \in s.rows
    BY <2>1 DEF GoodStore
  <2>3. QED
    BY <1>4, <2>1, <2>2
<1>8. Len(t.outbox) <= Len(s.outbox) /\ Entries(t.outbox) = Entries(s.outbox)
  <2>1. Len(s.outbox) \in Nat /\ t.outbox = s.outbox
    BY <1>4, GoodFields
  <2>2. QED
    BY <2>1
<1>9. GoodStore(p, t, H, frm)
  <2>1. \A x \in Items : t.status[x] = "queued" =>
          /\ s.status[x] = "queued"
          /\ x = "chat" \/ x \in t.rows
          /\ \A e \in Entries(s.outbox) :
               e.item = x /\ ~IsLifecycle(e) => e \in Entries(t.outbox)
    BY <1>7, <1>8
  <2>2. t \in PeerState /\ Entries(t.outbox) \subseteq Entries(s.outbox)
    BY <1>4, <1>8
  <2>3. QED
    BY <1>6, <1>8, <2>1, <2>2, StaysGood
<1>10. QED
  BY <1>4, <1>9

\* A friend or a row removed by hand.
Removed(s, r) == [Drop(s, {r}) EXCEPT !.friends = @ \ {r}]
LEMMA RemoveGood ==
    ASSUME NEW p, NEW s, NEW H, NEW frm, GoodStore(p, s, H, frm),
           NEW r \in Ids, NEW t, t = Removed(s, r)
    PROVE  /\ GoodStore(p, t, H, frm) /\ t.friends \subseteq s.friends /\ t.outbox = s.outbox
<1>0. PICK u, kept : /\ u = Drop(s, {r}) /\ kept = u.friends \ {r}
                     /\ t = [u EXCEPT !.friends = kept]
  BY DEF Removed
<1>1. s \in PeerState /\ StoreFields(s)
  BY GoodFields
<1>2. u \in PeerState /\ Dropped(u, s, {r})
  BY <1>0, <1>1, DropFacts
<1>3. kept \in SUBSET Ids /\ kept = s.friends \ {r}
  BY <1>0, <1>1, <1>2 DEF StoreFields, Dropped
<1>4. /\ t \in PeerState /\ t.friends = s.friends \ {r} /\ t.rows = s.rows \ {r}
      /\ t.tomb = s.tomb /\ t.outbox = s.outbox
      /\ \A x \in Items : t.status[x] = IF x = r THEN "none" ELSE s.status[x]
  <2>1. /\ t \in PeerState /\ t.friends = kept
        /\ t.rows = u.rows /\ t.tomb = u.tomb /\ t.status = u.status
        /\ t.outbox = u.outbox /\ t.chats = u.chats
    <3>1. t = [u EXCEPT !.friends = kept]
      BY <1>0
    <3>2. u \in PeerState /\ kept \in SUBSET Ids
      BY <1>2, <1>3
    <3>3. ASSUME NEW v, v = [u EXCEPT !.friends = kept]
          PROVE  /\ v \in PeerState /\ v.friends = kept
                 /\ v.rows = u.rows /\ v.tomb = u.tomb /\ v.status = u.status
                 /\ v.outbox = u.outbox /\ v.chats = u.chats
      BY <3>2, <3>3, WithFriends
    <3>4. QED
      BY <3>1, <3>3, Zenon
  <2>2. QED
    BY <1>2, <1>3, <2>1 DEF Dropped
<1>5. /\ s.rows \cap s.friends = {} /\ s.tomb \cap (s.rows \cup s.friends) = {}
  BY DEF GoodStore
<1>6. /\ t.rows \cup t.friends \cup t.tomb \subseteq s.rows \cup s.friends \cup s.tomb
      /\ t.rows \cap t.friends = {} /\ t.tomb \cap (t.rows \cup t.friends) = {}
  BY <1>4, <1>5
<1>7. \A x \in Items : t.status[x] = "queued" =>
        s.status[x] = "queued" /\ (x = "chat" \/ x \in t.rows)
  <2> SUFFICES ASSUME NEW x \in Items, t.status[x] = "queued"
               PROVE  s.status[x] = "queued" /\ (x = "chat" \/ x \in t.rows)
    OBVIOUS
  <2>1. s.status[x] = "queued" /\ x # r
    BY <1>4
  <2>2. x = "chat" \/ x \in s.rows
    BY <2>1 DEF GoodStore
  <2>3. QED
    BY <1>4, <2>1, <2>2
<1>8. Len(t.outbox) <= Len(s.outbox) /\ Entries(t.outbox) = Entries(s.outbox)
  <2>1. Len(s.outbox) \in Nat /\ t.outbox = s.outbox
    BY <1>4, GoodFields
  <2>2. QED
    BY <2>1
<1>9. GoodStore(p, t, H, frm)
  <2>1. \A x \in Items : t.status[x] = "queued" =>
          /\ s.status[x] = "queued"
          /\ x = "chat" \/ x \in t.rows
          /\ \A e \in Entries(s.outbox) :
               e.item = x /\ ~IsLifecycle(e) => e \in Entries(t.outbox)
    BY <1>7, <1>8
  <2>2. t \in PeerState /\ Entries(t.outbox) \subseteq Entries(s.outbox)
    BY <1>4, <1>8
  <2>3. QED
    BY <1>6, <1>8, <2>1, <2>2, StaysGood
<1>10. QED
  BY <1>4, <1>9

\* A row or a tombstone that is new; frm2 may name the maker of a request frm does not.
LEMMA NewRowGood ==
    ASSUME NEW p, NEW s, NEW H, NEW frm, NEW frm2, GoodStore(p, s, H, frm),
           NEW r \in Ids \ (s.friends \cup s.tomb),
           \A x \in Ids : x # r => frm2[x] = frm[x], frm2[r] # "nobody",
           r \in s.rows => frm2[r] = frm[r],
           NEW st \in Statuses \ {"queued"},
           NEW t \in PeerState, t.rows = s.rows \cup {r}, t.friends = s.friends,
           t.tomb = s.tomb, t.outbox = s.outbox,
           \A x \in Items : t.status[x] = s.status[x] \/ (x = r /\ t.status[x] = st)
    PROVE  GoodStore(p, t, H, frm2)
<1>1. StoreFields(s)
  BY GoodFields
<1>2. \A x \in s.rows \cup s.friends \cup s.tomb : frm2[x] = frm[x]
  BY <1>1 DEF StoreFields
<1>3. \A x \in Items : t.status[x] = "queued" => s.status[x] = "queued"
  OBVIOUS
<1>4. ASSUME NEW x \in Items, t.status[x] = "queued"
      PROVE  /\ x = "chat" \/ (x \in t.rows /\ frm2[x] = p)
             /\ \E e \in Entries(t.outbox) : e.item = x /\ ~IsLifecycle(e)
  <2>1. /\ x = "chat" \/ (x \in s.rows /\ frm[x] = p)
        /\ \E e \in Entries(s.outbox) : e.item = x /\ ~IsLifecycle(e)
    BY <1>3, <1>4 DEF GoodStore
  <2>2. QED
    BY <1>2, <2>1
<1>5. \A x \in t.rows \cup t.friends \cup t.tomb : frm2[x] # "nobody"
  BY <1>2 DEF GoodStore
<1>6. QED
  BY <1>4, <1>5 DEF GoodStore

LEMMA NewTombGood ==
    ASSUME NEW p, NEW s, NEW H, NEW frm, GoodStore(p, s, H, frm),
           NEW r \in Ids \ (s.rows \cup s.friends), frm[r] # "nobody",
           NEW t, t = [s EXCEPT !.tomb = @ \cup {r}]
    PROVE  GoodStore(p, t, H, frm) /\ Pares(t, s)
<1>1. s \in PeerState /\ StoreFields(s)
  BY GoodFields
<1>2. /\ t \in PeerState /\ t.tomb = s.tomb \cup {r}
      /\ t.rows = s.rows /\ t.friends = s.friends /\ t.status = s.status
      /\ t.outbox = s.outbox /\ t.chats = s.chats
  <2>1. s.tomb \cup {r} \in SUBSET Ids /\ t = [s EXCEPT !.tomb = s.tomb \cup {r}]
    BY <1>1 DEF StoreFields
  <2>2. QED
    BY <1>1, <2>1, WithTomb
<1>3. GoodStore(p, t, H, frm)
  BY <1>2 DEF GoodStore
<1>4. QED
  BY <1>2, <1>3 DEF Pares

----------------------------------------------------------------------------
(* Queueing an entry.                                                       *)

\* A store that is good once e is in its queue.
NearlyGood(p, s, e, H, frm) ==
    /\ s \in PeerState
    /\ Len(s.outbox) <= OutboxCap
    /\ Coherent(Entries(s.outbox) \cup {e} \cup H)
    /\ \A f \in Entries(s.outbox) \cup {e} : Fits(f)
    /\ s.rows \cap s.friends = {}
    /\ s.tomb \cap (s.rows \cup s.friends) = {}
    /\ \A r \in s.rows \cup s.friends \cup s.tomb : frm[r] # "nobody"
    /\ \A x \in Items : s.status[x] = "queued" =>
         /\ x = "chat" \/ (x \in s.rows /\ frm[x] = p)
         /\ \E f \in Entries(s.outbox) \cup {e} : f.item = x /\ ~IsLifecycle(f)

\* Entries come from the old queue or are the new one, and a lifecycle action that is
\* missing was pushed out by another.
Enqueued(t, s, e) ==
    /\ t.rows = s.rows /\ t.friends = s.friends /\ t.tomb = s.tomb
    /\ Entries(t.outbox) \subseteq Entries(s.outbox) \cup {e}
    /\ \A f \in Entries(s.outbox) \cup {e} :
         IsLifecycle(f) /\ f \notin Entries(t.outbox) => f.item \in PushedOut(s, e)

LEMMA CoherentPart ==
    ASSUME NEW S, Coherent(S), NEW T, T \subseteq S
    PROVE  Coherent(T)
BY DEF Coherent

LEMMA NearlyFields ==
    ASSUME NEW p, NEW s, NEW e, NEW H, NEW frm, NearlyGood(p, s, e, H, frm)
    PROVE  /\ s \in PeerState /\ StoreFields(s) /\ Len(s.outbox) \in Nat
           /\ Len(s.outbox) <= OutboxCap
           /\ s.outbox \in Seq(Entry) /\ Entries(s.outbox) \subseteq Entry
<1>1. s \in PeerState /\ StoreFields(s) /\ Len(s.outbox) <= OutboxCap
  BY StoreTyped DEF NearlyGood
<1>2. s.outbox \in Seq(Entry)
  BY <1>1 DEF StoreFields
<1>3. \A i \in 1..Len(s.outbox) : s.outbox[i] \in Entry
  BY <1>2
<1>4. QED
  BY <1>1, <1>2, <1>3 DEF Entries

LEMMA OrdinaryFacts ==
    ASSUME NEW q \in Seq(Entry)
    PROVE  /\ Ordinary(q) # {} =>
                /\ q[FirstOf(Ordinary(q))] \in Entries(q)
                /\ ~IsLifecycle(q[FirstOf(Ordinary(q))])
           /\ Ordinary(q) = {} => \A f \in Entries(q) : IsLifecycle(f)
<1>1. ASSUME Ordinary(q) # {}
      PROVE  /\ q[FirstOf(Ordinary(q))] \in Entries(q)
             /\ ~IsLifecycle(q[FirstOf(Ordinary(q))])
  <2>1. Ordinary(q) \in SUBSET Nat
    BY DEF Ordinary
  <2>2. FirstOf(Ordinary(q)) \in Ordinary(q)
    BY <1>1, <2>1, FirstOfFacts
  <2>3. QED
    BY <2>2 DEF Ordinary, Entries
<1>2. ASSUME Ordinary(q) = {} PROVE \A f \in Entries(q) : IsLifecycle(f)
  BY <1>2 DEF Ordinary, Entries
<1>3. QED
  BY <1>1, <1>2

\* With e in the queue and nothing else changed.
LEMMA AppendedGood ==
    ASSUME NEW p, NEW s, NEW e \in Entry, NEW H, NEW frm, NearlyGood(p, s, e, H, frm),
           Len(s.outbox) < OutboxCap, NEW t, t = [s EXCEPT !.outbox = Append(@, e)]
    PROVE  GoodStore(p, t, H, frm) /\ Enqueued(t, s, e)
<1> DEFINE q == Append(s.outbox, e)
<1>1. /\ s \in PeerState /\ StoreFields(s) /\ Len(s.outbox) \in Nat /\ s.outbox \in Seq(Entry)
  BY NearlyFields
<1>2. q \in Seq(Entry) /\ Len(q) = Len(s.outbox) + 1 /\ Entries(q) = Entries(s.outbox) \cup {e}
  BY <1>1, AppendFacts
<1>3. t = [s EXCEPT !.outbox = q]
  OBVIOUS
<1> HIDE DEF q
<1>4. /\ t \in PeerState /\ t.outbox = q
      /\ t.rows = s.rows /\ t.friends = s.friends /\ t.tomb = s.tomb
      /\ t.status = s.status /\ t.chats = s.chats
  <2>1. ASSUME NEW v, v = [s EXCEPT !.outbox = q]
        PROVE  /\ v \in PeerState /\ v.outbox = q
               /\ v.rows = s.rows /\ v.friends = s.friends /\ v.tomb = s.tomb
               /\ v.status = s.status /\ v.chats = s.chats
    BY <1>1, <1>2, <2>1, WithOutbox
  <2>2. QED
    BY <1>3, <2>1, Zenon
<1>5. Len(t.outbox) <= OutboxCap
  BY <1>1, <1>2, <1>4, QueueBounds
<1>6. Coherent(Entries(t.outbox) \cup H) /\ \A f \in Entries(t.outbox) : Fits(f)
  BY <1>2, <1>4 DEF NearlyGood
<1>7. \A x \in Items : t.status[x] = "queued" =>
         /\ x = "chat" \/ (x \in t.rows /\ frm[x] = p)
         /\ \E f \in Entries(t.outbox) : f.item = x /\ ~IsLifecycle(f)
  BY <1>2, <1>4 DEF NearlyGood
<1>8. GoodStore(p, t, H, frm)
  BY <1>4, <1>5, <1>6, <1>7 DEF NearlyGood, GoodStore
<1>9. QED
  BY <1>2, <1>4, <1>8 DEF Enqueued

\* The queue, with the entries named like v out and e in.
Replaced(t, s, v, e) ==
    /\ t \in PeerState /\ Len(t.outbox) <= OutboxCap
    /\ t.rows = s.rows /\ t.friends = s.friends /\ t.tomb = s.tomb
    /\ t.status = s.status
    /\ Entries(t.outbox) = {f \in Entries(s.outbox) : f.uid # v.uid} \cup {e}
LEMMA ReplacedFacts ==
    ASSUME NEW s \in PeerState, Len(s.outbox) <= OutboxCap, NEW e \in Entry,
           NEW v \in Entries(s.outbox), NEW t,
           t = [s EXCEPT !.outbox = Append(Without(@, {v.uid}), e)]
    PROVE  Replaced(t, s, v, e)
<1> DEFINE w == Without(s.outbox, {v.uid})
           q == Append(w, e)
<1>1. StoreFields(s) /\ s.outbox \in Seq(Entry) /\ Len(s.outbox) \in Nat
  BY StoreTyped DEF StoreFields
<1>2. w \in Seq(Entry) /\ IsWithout(w, s.outbox, {v.uid})
  BY <1>1, WithoutFacts
<1>3. t = [s EXCEPT !.outbox = q]
  OBVIOUS
<1> HIDE DEF w
<1>4. q \in Seq(Entry) /\ Len(q) = Len(w) + 1 /\ Entries(q) = Entries(w) \cup {e}
  BY <1>2, AppendFacts
<1> HIDE DEF q
<1>5. Len(q) <= OutboxCap
  <2>1. Len(w) \in Nat /\ Len(w) < Len(s.outbox)
    BY <1>2 DEF IsWithout
  <2>2. QED
    BY <1>1, <1>4, <2>1, QueueBounds
<1>6. /\ t \in PeerState /\ t.outbox = q
      /\ t.rows = s.rows /\ t.friends = s.friends /\ t.tomb = s.tomb
      /\ t.status = s.status /\ t.chats = s.chats
  <2>1. ASSUME NEW u, u = [s EXCEPT !.outbox = q]
        PROVE  /\ u \in PeerState /\ u.outbox = q
               /\ u.rows = s.rows /\ u.friends = s.friends /\ u.tomb = s.tomb
               /\ u.status = s.status /\ u.chats = s.chats
    BY <1>4, <2>1, WithOutbox
  <2>2. QED
    BY <1>3, <2>1, Zenon
<1>7. QED
  BY <1>2, <1>4, <1>5, <1>6 DEF IsWithout, Replaced

\* An ordinary entry v makes room for e.
LEMMA EvictedGood ==
    ASSUME NEW p, NEW s, NEW e \in Entry, NEW H, NEW frm, NearlyGood(p, s, e, H, frm),
           NEW v \in Entries(s.outbox), ~IsLifecycle(v), v.uid # e.uid, NEW u, NEW t,
           u = [s EXCEPT !.outbox = Append(Without(@, {v.uid}), e)],
           t = Mark(u, v.item, "failed")
    PROVE  GoodStore(p, t, H, frm) /\ Enqueued(t, s, e)
<1>1. s \in PeerState /\ Len(s.outbox) <= OutboxCap /\ v \in Entry /\ v.item \in Items
  BY NearlyFields, EntryTyped
<1>2. Replaced(u, s, v, e)
  BY <1>1, ReplacedFacts, Zenon
<1>3. t \in PeerState /\ MarkedAs(t, u, v.item, "failed")
  BY <1>1, <1>2, MarkFacts DEF Statuses, Replaced
<1>4. /\ t.rows = s.rows /\ t.friends = s.friends /\ t.tomb = s.tomb /\ t.outbox = u.outbox
      /\ \A x \in Items : t.status[x] =
           IF x = v.item /\ (v.item = "chat" \/ v.item \in s.rows) THEN "failed" ELSE s.status[x]
  BY <1>2, <1>3 DEF MarkedAs, Replaced
<1>5. \A f \in Entries(s.outbox) : f.uid = v.uid => f.kind = v.kind /\ f.item = v.item
  BY DEF NearlyGood, Coherent
<1>6. Coherent(Entries(t.outbox) \cup H) /\ \A f \in Entries(t.outbox) : Fits(f)
  <2>1. Entries(t.outbox) \subseteq Entries(s.outbox) \cup {e}
    BY <1>2, <1>4 DEF Replaced
  <2>2. Coherent(Entries(s.outbox) \cup {e} \cup H) /\ \A f \in Entries(s.outbox) \cup {e} : Fits(f)
    BY DEF NearlyGood
  <2>3. Entries(t.outbox) \cup H \subseteq Entries(s.outbox) \cup {e} \cup H
    BY <2>1
  <2>4. QED
    BY <2>1, <2>2, <2>3, CoherentPart
<1>7. ASSUME NEW x \in Items, t.status[x] = "queued"
      PROVE  /\ x = "chat" \/ (x \in t.rows /\ frm[x] = p)
             /\ \E f \in Entries(t.outbox) : f.item = x /\ ~IsLifecycle(f)
  <2>1. s.status[x] = "queued"
    BY <1>4, <1>7
  <2>2. /\ x = "chat" \/ (x \in s.rows /\ frm[x] = p)
        /\ \E f \in Entries(s.outbox) \cup {e} : f.item = x /\ ~IsLifecycle(f)
    BY <2>1 DEF NearlyGood
  <2>3. x # v.item
    BY <1>4, <1>7, <2>2
  <2>4. PICK f \in Entries(s.outbox) \cup {e} : f.item = x /\ ~IsLifecycle(f)
    BY <2>2
  <2>5. f \in Entries(u.outbox)
    BY <1>2, <1>5, <2>3, <2>4 DEF Replaced
  <2>6. QED
    BY <1>4, <2>2, <2>4, <2>5
<1>8. GoodStore(p, t, H, frm)
  BY <1>2, <1>3, <1>4, <1>6, <1>7 DEF NearlyGood, GoodStore, Replaced
<1>9. Enqueued(t, s, e)
  <2>1. \A f \in Entries(s.outbox) : IsLifecycle(f) => f \in Entries(t.outbox)
    BY <1>2, <1>4, <1>5 DEF IsLifecycle, Replaced
  <2>2. e \in Entries(t.outbox) /\ Entries(t.outbox) \subseteq Entries(s.outbox) \cup {e}
    BY <1>2, <1>4 DEF Replaced
  <2>3. QED
    BY <1>4, <2>1, <2>2 DEF Enqueued
<1>10. QED
  BY <1>8, <1>9

\* A lifecycle action e pushes out another, v, when there is nothing else.
LEMMA PushedGood ==
    ASSUME NEW p, NEW s, NEW e \in Entry, NEW H, NEW frm, NearlyGood(p, s, e, H, frm),
           IsLifecycle(e), \A f \in Entries(s.outbox) : IsLifecycle(f),
           NEW v \in Entries(s.outbox), PushedOut(s, e) = {v.item}, NEW t,
           t = [s EXCEPT !.outbox = Append(Without(@, {v.uid}), e)]
    PROVE  GoodStore(p, t, H, frm) /\ Enqueued(t, s, e)
<1>1. s \in PeerState /\ Len(s.outbox) <= OutboxCap
  BY NearlyFields
<1>2. Replaced(t, s, v, e)
  BY <1>1, ReplacedFacts, Zenon
<1>3. \A f \in Entries(s.outbox) : f.uid = v.uid => f.item = v.item
  BY DEF NearlyGood, Coherent
<1>4. Coherent(Entries(t.outbox) \cup H) /\ \A f \in Entries(t.outbox) : Fits(f)
  <2>1. Entries(t.outbox) \subseteq Entries(s.outbox) \cup {e}
    BY <1>2 DEF Replaced
  <2>2. Coherent(Entries(s.outbox) \cup {e} \cup H) /\ \A f \in Entries(s.outbox) \cup {e} : Fits(f)
    BY DEF NearlyGood
  <2>3. Entries(t.outbox) \cup H \subseteq Entries(s.outbox) \cup {e} \cup H
    BY <2>1
  <2>4. QED
    BY <2>1, <2>2, <2>3, CoherentPart
<1>5. \A x \in Items : t.status[x] # "queued"
  BY <1>2 DEF NearlyGood, Replaced
<1>6. GoodStore(p, t, H, frm)
  BY <1>2, <1>4, <1>5 DEF NearlyGood, GoodStore, Replaced
<1>7. Enqueued(t, s, e)
  BY <1>2, <1>3 DEF Enqueued, Replaced
<1>8. QED
  BY <1>6, <1>7

\* An ordinary entry finds the queue full of lifecycle actions.
LEMMA RefusedGood ==
    ASSUME NEW p, NEW s, NEW e \in Entry, NEW H, NEW frm, NearlyGood(p, s, e, H, frm),
           ~IsLifecycle(e), \A f \in Entries(s.outbox) : IsLifecycle(f),
           NEW t, t = Mark(s, e.item, "failed")
    PROVE  GoodStore(p, t, H, frm) /\ Enqueued(t, s, e)
<1>1. s \in PeerState /\ Len(s.outbox) <= OutboxCap /\ e.item \in Items
  BY NearlyFields, EntryTyped
<1>2. t \in PeerState /\ MarkedAs(t, s, e.item, "failed")
  BY <1>1, MarkFacts DEF Statuses
<1>3. \A x \in Items : t.status[x] # "queued"
  <2> SUFFICES ASSUME NEW x \in Items, t.status[x] = "queued" PROVE FALSE
    OBVIOUS
  <2>1. s.status[x] = "queued"
    BY <1>2 DEF MarkedAs
  <2>2. /\ x = "chat" \/ x \in s.rows
        /\ \E f \in Entries(s.outbox) \cup {e} : f.item = x /\ ~IsLifecycle(f)
    BY <2>1 DEF NearlyGood
  <2>3. x = e.item
    BY <2>2
  <2>4. QED
    BY <1>2, <2>2, <2>3 DEF MarkedAs
<1>4. Coherent(Entries(t.outbox) \cup H) /\ \A f \in Entries(t.outbox) : Fits(f)
  BY <1>2 DEF NearlyGood, Coherent, MarkedAs
<1>5. GoodStore(p, t, H, frm)
  BY <1>1, <1>2, <1>3, <1>4 DEF NearlyGood, GoodStore, MarkedAs
<1>6. QED
  BY <1>2, <1>5 DEF Enqueued, MarkedAs

LEMMA EnqueueGood ==
    ASSUME NEW p, NEW s, NEW e \in Entry, NEW H, NEW frm, NearlyGood(p, s, e, H, frm),
           e.uid \notin Uids(s.outbox), NEW t, t = Enqueue(s, e)
    PROVE  GoodStore(p, t, H, frm) /\ Enqueued(t, s, e)
<1> DEFINE q == s.outbox
           v == Victim(q, e)
           u == [s EXCEPT !.outbox = IF v = e THEN @ ELSE Append(Without(@, {v.uid}), e)]
<1>1. /\ s \in PeerState /\ StoreFields(s) /\ Len(q) \in Nat /\ Len(q) <= OutboxCap
      /\ q \in Seq(Entry) /\ Entries(q) \subseteq Entry
  BY NearlyFields
<1>2. \A f \in Entries(q) : f.uid # e.uid /\ f # e
  BY UidsOf
<1>3. CASE Len(q) < OutboxCap
  BY <1>3, AppendedGood DEF Enqueue
<1>4. CASE ~(Len(q) < OutboxCap)
  <2>1. t = IF IsLifecycle(v) THEN u ELSE Mark(u, v.item, "failed")
    BY <1>4 DEF Enqueue
  <2>2. CASE Ordinary(q) # {}
    <3>1. v \in Entries(q) /\ ~IsLifecycle(v)
      BY <1>1, <2>2, OrdinaryFacts DEF Victim
    <3>2. v.uid # e.uid /\ v # e
      BY <1>2, <3>1
    <3>3. u = [s EXCEPT !.outbox = Append(Without(@, {v.uid}), e)]
      BY <3>2
    <3>4. t = Mark(u, v.item, "failed")
      BY <2>1, <3>1
    <3> HIDE DEF q, v, u
    <3>5. QED
      BY <3>1, <3>2, <3>3, <3>4, EvictedGood DEF q
  <2>3. CASE Ordinary(q) = {} /\ IsLifecycle(e)
    <3>1. v = q[1] /\ q[1] \in Entries(q)
      BY <1>1, <1>4, <2>3, QueueBounds DEF Victim, Entries
    <3>2. \A f \in Entries(q) : IsLifecycle(f)
      BY <1>1, <2>3, OrdinaryFacts
    <3>3. u = [s EXCEPT !.outbox = Append(Without(@, {v.uid}), e)]
      BY <1>2, <3>1
    <3>4. t = u
      BY <2>1, <3>1, <3>2
    <3>5. PushedOut(s, e) = {v.item}
      BY <1>1, <1>4, <2>3, <3>1, QueueBounds DEF PushedOut
    <3> HIDE DEF q, v, u
    <3>6. QED
      BY <2>3, <3>1, <3>2, <3>3, <3>4, <3>5, PushedGood DEF q
  <2>4. CASE Ordinary(q) = {} /\ ~IsLifecycle(e)
    <3>1. v = e
      BY <2>4 DEF Victim
    <3>2. \A f \in Entries(q) : IsLifecycle(f)
      BY <1>1, <2>4, OrdinaryFacts
    <3>3. u = s
      BY <1>1, <3>1 DEF StoreFields
    <3>4. t = Mark(s, e.item, "failed")
      BY <2>1, <2>4, <3>1, <3>3
    <3>5. QED
      BY <2>4, <3>2, <3>4, RefusedGood
  <2>5. QED
    BY <2>2, <2>3, <2>4
<1>5. QED
  BY <1>3, <1>4

----------------------------------------------------------------------------
(* New entries, and what is done when a delivery returns.                   *)

LEMMA PassFields ==
    ASSUME NEW d, GoodPass(d)
    PROVE  /\ d.rest \in Seq(Entry) /\ Len(d.rest) \in Nat /\ Len(d.rest) <= OutboxCap
           /\ d.cur \in Entry \cup {Nothing} /\ d.again \in BOOLEAN
           /\ Held(d) \subseteq Entry /\ Entries(d.rest) \subseteq Held(d)
           /\ d.cur # Nothing => d.cur \in Held(d) /\ d.cur \in Entry
<1>1. /\ d.rest \in Seq(Entry) /\ Len(d.rest) \in Nat /\ Len(d.rest) <= OutboxCap
      /\ d.cur \in Entry \cup {Nothing} /\ d.again \in BOOLEAN
  BY DEF GoodPass, DrainState
<1>2. \A i \in 1..Len(d.rest) : d.rest[i] \in Entry
  BY <1>1
<1>3. QED
  BY <1>1, <1>2 DEF Held, Entries

LEMMA NewIsFresh ==
    ASSUME NEW p \in Peers, GoodPass(drain[p]),
           GoodStore(p, peer[p], Held(drain[p]), from),
           NEW kind \in Lifecycle \cup {"request", "chat"}, NEW item \in Items,
           kind = "chat" <=> item = "chat", NEW e, e = NewEntry(p, kind, item)
    PROVE  /\ e \in Entry /\ e.kind = kind /\ e.item = item /\ Fits(e)
           /\ e.uid \notin Uids(peer[p].outbox)
           /\ Coherent(Entries(peer[p].outbox) \cup {e} \cup Held(drain[p]))
<1> DEFINE A == Uids(peer[p].outbox)
           B == Uids(drain[p].rest)
           used == A \cup B \cup {drain[p].cur.uid}
<1>1. /\ peer[p].outbox \in Seq(Entry) /\ Len(peer[p].outbox) \in Nat
      /\ Len(peer[p].outbox) <= OutboxCap
  <2>1. StoreFields(peer[p]) /\ Len(peer[p].outbox) \in Nat
    BY GoodFields
  <2>2. Len(peer[p].outbox) <= OutboxCap
    BY DEF GoodStore
  <2>3. QED
    BY <2>1, <2>2 DEF StoreFields
<1>2. /\ drain[p].rest \in Seq(Entry) /\ Len(drain[p].rest) \in Nat
      /\ Len(drain[p].rest) <= OutboxCap
  BY PassFields
<1>3. IsFiniteSet(A) /\ Cardinality(A) \in Nat /\ Cardinality(A) <= OutboxCap
  <2>1. IsFiniteSet(A) /\ Cardinality(A) <= Len(peer[p].outbox)
    BY <1>1, UidsAreFew
  <2>2. Cardinality(A) \in Nat
    BY <2>1, FS_CardinalityType
  <2>3. QED
    BY <1>1, <2>1, <2>2, QueueBounds
<1>4. IsFiniteSet(B) /\ Cardinality(B) \in Nat /\ Cardinality(B) <= OutboxCap
  <2>1. IsFiniteSet(B) /\ Cardinality(B) <= Len(drain[p].rest)
    BY <1>2, UidsAreFew
  <2>2. Cardinality(B) \in Nat
    BY <2>1, FS_CardinalityType
  <2>3. QED
    BY <1>2, <2>1, <2>2, QueueBounds
<1> HIDE DEF A, B
<1>5. IsFiniteSet(A \cup B) /\ Cardinality(A \cup B) <= 2 * OutboxCap
  <2>1. IsFiniteSet(A \cup B) /\ IsFiniteSet(A \cap B)
        /\ Cardinality(A \cup B) = Cardinality(A) + Cardinality(B) - Cardinality(A \cap B)
    BY <1>3, <1>4, FS_Union, FS_Intersection
  <2>2. Cardinality(A \cap B) \in Nat
    BY <2>1, FS_CardinalityType
  <2>3. QED
    BY <1>3, <1>4, <2>1, <2>2, QueueBounds
<1>6. IsFiniteSet(used) /\ Cardinality(used) \in Nat /\ Cardinality(used) <= 2 * OutboxCap + 1
  <2> DEFINE c == drain[p].cur.uid
  <2> HIDE DEF c
  <2>1. /\ IsFiniteSet(A \cup B \cup {c})
        /\ Cardinality(A \cup B \cup {c}) \in {Cardinality(A \cup B), Cardinality(A \cup B) + 1}
    BY <1>5, FS_AddElement
  <2>2. Cardinality(A \cup B) \in Nat
    BY <1>5, FS_CardinalityType
  <2>3. QED
    BY <1>5, <2>1, <2>2, QueueBounds DEF c
<1> HIDE DEF used
<1>7. (1..MaxUid) \ used # {}
  <2> SUFFICES ASSUME 1..MaxUid \subseteq used PROVE FALSE
    OBVIOUS
  <2>1. Cardinality(1..MaxUid) = MaxUid
    BY CountTo, UidsSuffice
  <2>2. Cardinality(1..MaxUid) <= Cardinality(used)
    BY <1>6, FS_Subset
  <2>3. QED
    BY <1>6, <2>1, <2>2, UidsSuffice, QueueBounds
<1>8. FreshUid(p) \in (1..MaxUid) \ used
  <2>1. (1..MaxUid) \ used \in SUBSET Nat
    BY UidsSuffice
  <2>2. FirstOf((1..MaxUid) \ used) \in (1..MaxUid) \ used
    BY <1>7, <2>1, FirstOfFacts
  <2>3. FreshUid(p) = FirstOf((1..MaxUid) \ used)
    BY DEF FreshUid, used, A, B
  <2>4. QED
    BY <2>2, <2>3
<1>9. e \in Entry /\ e.kind = kind /\ e.item = item /\ e.uid = FreshUid(p)
  BY <1>8, QueueBounds DEF NewEntry, Entry
<1>10. /\ e.uid \notin Uids(peer[p].outbox) /\ e.uid \notin Uids(drain[p].rest)
       /\ e.uid # drain[p].cur.uid
  BY <1>8, <1>9 DEF used, A, B
<1>11. \A f \in Entries(peer[p].outbox) \cup Held(drain[p]) : f.uid # e.uid
  BY <1>10, UidsOf DEF Held
<1>12. Coherent(Entries(peer[p].outbox) \cup Held(drain[p]))
  BY DEF GoodStore
<1>13. Coherent(Entries(peer[p].outbox) \cup {e} \cup Held(drain[p]))
  BY <1>11, <1>12 DEF Coherent
<1>14. QED
  BY <1>9, <1>10, <1>13 DEF Fits

\* What a step may do to a queue, entries X aside: rows and friends stay, and lifecycle
\* actions stay but for the requests in lost.
Queues(t, s, X, lost) ==
    /\ t.rows = s.rows /\ t.friends = s.friends
    /\ Entries(t.outbox) \subseteq Entries(s.outbox) \cup X
    /\ \A f \in Entries(s.outbox) :
         IsLifecycle(f) => f \in Entries(t.outbox) \/ f.item \in lost

\* An action that could not be delivered is queued.
LEMMA ActionQueued ==
    ASSUME NEW p \in Peers, GoodPass(drain[p]),
           GoodStore(p, peer[p], Held(drain[p]), from),
           NEW kind \in Lifecycle, NEW r \in Ids, NEW e, e = NewEntry(p, kind, r),
           NEW t, t = Enqueue(peer[p], e)
    PROVE  /\ GoodStore(p, t, Held(drain[p]), from)
           /\ Queues(t, peer[p], {e}, PushedOut(peer[p], e))
           /\ e.kind = kind /\ e.item = r
           /\ e \in Entries(t.outbox) \/ r \in PushedOut(peer[p], e)
<1>1. /\ e \in Entry /\ e.kind = kind /\ e.item = r /\ Fits(e)
      /\ e.uid \notin Uids(peer[p].outbox)
      /\ Coherent(Entries(peer[p].outbox) \cup {e} \cup Held(drain[p]))
  <2>1. kind = "chat" <=> r = "chat"
    BY RequestIds DEF Lifecycle
  <2>2. kind \in Lifecycle \cup {"request", "chat"} /\ r \in Items
    BY DEF Items
  <2>3. QED
    BY <2>1, <2>2, NewIsFresh
<1>2. NearlyGood(p, peer[p], e, Held(drain[p]), from)
  <2>1. \A x \in Items : peer[p].status[x] = "queued" =>
         /\ x = "chat" \/ (x \in peer[p].rows /\ from[x] = p)
         /\ \E f \in Entries(peer[p].outbox) \cup {e} : f.item = x /\ ~IsLifecycle(f)
    BY DEF GoodStore
  <2>2. QED
    BY <1>1, <2>1 DEF NearlyGood, GoodStore
<1>3. GoodStore(p, t, Held(drain[p]), from) /\ Enqueued(t, peer[p], e)
  BY <1>1, <1>2, EnqueueGood
<1>4. IsLifecycle(e)
  BY <1>1 DEF IsLifecycle
<1>5. QED
  BY <1>1, <1>3, <1>4 DEF Enqueued, Queues

\* An ordinary entry never pushes a lifecycle action out.
LEMMA OrdinaryPushesNothing ==
    ASSUME NEW s, NEW e, ~IsLifecycle(e)
    PROVE  PushedOut(s, e) = {}
BY DEF PushedOut

LEMMA WithChats ==
    ASSUME NEW s \in PeerState, NEW n \in Nat, NEW t, t = [s EXCEPT !.chats = n]
    PROVE  /\ t \in PeerState /\ t.chats = n
           /\ t.rows = s.rows /\ t.friends = s.friends /\ t.tomb = s.tomb
           /\ t.status = s.status /\ t.outbox = s.outbox
BY StoreTyped DEF StoreFields

LEMMA ChatQueued ==
    ASSUME NEW p \in Peers, GoodPass(drain[p]),
           GoodStore(p, peer[p], Held(drain[p]), from),
           NEW e, e = NewEntry(p, "chat", "chat"), NEW t,
           t = Enqueue(Mark([peer[p] EXCEPT !.chats = @ + 1], "chat", "queued"), e)
    PROVE  /\ GoodStore(p, t, Held(drain[p]), from)
           /\ Queues(t, peer[p], {e}, {}) /\ e.kind = "chat"
<1> DEFINE s == peer[p]
           v == [s EXCEPT !.chats = s.chats + 1]
           u == Mark(v, "chat", "queued")
<1>1. /\ e \in Entry /\ e.kind = "chat" /\ e.item = "chat" /\ Fits(e)
      /\ e.uid \notin Uids(s.outbox)
      /\ Coherent(Entries(s.outbox) \cup {e} \cup Held(drain[p]))
  BY NewIsFresh DEF Items
<1>2. s \in PeerState /\ StoreFields(s)
  BY GoodFields
<1>3. /\ u \in PeerState /\ u.rows = s.rows /\ u.friends = s.friends /\ u.tomb = s.tomb
      /\ u.outbox = s.outbox
      /\ \A x \in Items : u.status[x] = IF x = "chat" THEN "queued" ELSE s.status[x]
  <2>1. s.chats + 1 \in Nat
    BY <1>2 DEF StoreFields
  <2>2. /\ v \in PeerState /\ v.rows = s.rows /\ v.friends = s.friends /\ v.tomb = s.tomb
        /\ v.status = s.status /\ v.outbox = s.outbox
    BY <1>2, <2>1, WithChats
  <2> HIDE DEF v
  <2>3. u \in PeerState /\ MarkedAs(u, v, "chat", "queued")
    BY <2>2, MarkFacts DEF Items, Statuses
  <2>4. QED
    BY <2>2, <2>3 DEF MarkedAs
<1>4. ~IsLifecycle(e)
  BY <1>1 DEF IsLifecycle, Lifecycle
<1>5. GoodStore(p, s, Held(drain[p]), from)
  OBVIOUS
<1>6. t = Enqueue(u, e)
  OBVIOUS
<1> HIDE DEF u, s
<1>7. NearlyGood(p, u, e, Held(drain[p]), from)
  <2>1. \A x \in Items : u.status[x] = "queued" =>
         /\ x = "chat" \/ (x \in u.rows /\ from[x] = p)
         /\ \E f \in Entries(u.outbox) \cup {e} : f.item = x /\ ~IsLifecycle(f)
    BY <1>1, <1>3, <1>4, <1>5 DEF GoodStore
  <2>2. QED
    BY <1>1, <1>3, <1>5, <2>1 DEF NearlyGood, GoodStore
<1>8. GoodStore(p, t, Held(drain[p]), from) /\ Enqueued(t, u, e)
  BY <1>1, <1>3, <1>6, <1>7, EnqueueGood
<1>9. Queues(t, s, {e}, {})
  BY <1>3, <1>4, <1>8, OrdinaryPushesNothing DEF Enqueued, Queues
<1>10. QED
  BY <1>1, <1>8, <1>9 DEF s

LEMMA AnsweredGood ==
    ASSUME NEW p \in Peers, GoodPass(drain[p]),
           GoodStore(p, peer[p], Held(drain[p]), from),
           NEW r \in Ids, NEW ok \in BOOLEAN, NEW t, t = Answered(p, r, ok)
    PROVE  \E e :
             /\ e.kind = "request" /\ e.item = r
             /\ GoodStore(p, t, Held(drain[p]), from) /\ Queues(t, peer[p], {e}, {})
<1> DEFINE s == peer[p]
           H == Held(drain[p])
           e == NewEntry(p, "request", r)
           u == Mark(s, r, IF ok THEN "sent" ELSE "queued")
<1>1. /\ e \in Entry /\ e.kind = "request" /\ e.item = r /\ Fits(e)
      /\ e.uid \notin Uids(s.outbox)
      /\ Coherent(Entries(s.outbox) \cup {e} \cup H)
  <2>1. "request" = "chat" <=> r = "chat"
    BY RequestIds
  <2>2. QED
    BY <2>1, NewIsFresh DEF Items
<1>2. s \in PeerState /\ StoreFields(s) /\ GoodStore(p, s, H, from) /\ s.outbox \in Seq(Entry)
  BY GoodFields DEF StoreFields
<1>3. SUFFICES GoodStore(p, t, H, from) /\ Queues(t, s, {e}, {})
  <2>1. \A x : GoodStore(p, t, H, from) /\ Queues(t, s, {x}, {})
               /\ x.kind = "request" /\ x.item = r =>
          \E y : /\ y.kind = "request" /\ y.item = r
                 /\ GoodStore(p, t, Held(drain[p]), from) /\ Queues(t, peer[p], {y}, {})
    BY Zenon
  <2>2. QED
    BY <1>1, <1>3, <2>1, Zenon
<1>4. ~IsLifecycle(e)
  BY <1>1 DEF IsLifecycle, Lifecycle
<1>5. t = IF ~IsPendingOutgoing(p, r) THEN s
          ELSE IF ok THEN [u EXCEPT !.outbox = WithoutRequests(@, {r})]
          ELSE IF HasQueued(s, r) THEN u
          ELSE Enqueue(u, e)
  BY DEF Answered
<1>6. CASE ~IsPendingOutgoing(p, r)
  BY <1>2, <1>5, <1>6 DEF Queues
<1>7. CASE IsPendingOutgoing(p, r)
  <2>1. r \in s.rows /\ from[r] = p
    BY <1>7 DEF IsPendingOutgoing, Outgoing
  <2>2. u \in PeerState /\ MarkedAs(u, s, r, IF ok THEN "sent" ELSE "queued")
    BY <1>2, MarkFacts DEF Items, Statuses
  <2>3. /\ u.rows = s.rows /\ u.friends = s.friends /\ u.tomb = s.tomb /\ u.outbox = s.outbox
        /\ \A x \in Items : u.status[x] =
             IF x = r THEN IF ok THEN "sent" ELSE "queued" ELSE s.status[x]
    BY <2>1, <2>2 DEF MarkedAs
  <2> HIDE DEF u, s, H, e
  <2>4. CASE ok
    <3> DEFINE q == WithoutRequests(s.outbox, {r})
    <3>1. /\ q \in Seq(Entry) /\ Len(q) <= Len(s.outbox)
          /\ Entries(q) = {f \in Entries(s.outbox) : ~(f.kind = "request" /\ f.item \in {r})}
      BY <1>2, WithoutRequestsFacts
    <3>2. t = [u EXCEPT !.outbox = q]
      BY <1>5, <1>7, <2>3, <2>4
    <3> HIDE DEF q
    <3>3. /\ t \in PeerState /\ t.outbox = q
          /\ t.rows = u.rows /\ t.friends = u.friends /\ t.tomb = u.tomb
          /\ t.status = u.status /\ t.chats = u.chats
      BY <2>2, <3>1, <3>2, WithOutbox
    <3>4. /\ s.rows \cap s.friends = {} /\ s.tomb \cap (s.rows \cup s.friends) = {}
      BY <1>2 DEF GoodStore
    <3>5. \A x \in Items : t.status[x] = "queued" =>
            /\ s.status[x] = "queued"
            /\ x = "chat" \/ x \in t.rows
            /\ \A f \in Entries(s.outbox) :
                 f.item = x /\ ~IsLifecycle(f) => f \in Entries(t.outbox)
      <4> SUFFICES ASSUME NEW x \in Items, t.status[x] = "queued"
                   PROVE  /\ s.status[x] = "queued"
                          /\ x = "chat" \/ x \in t.rows
                          /\ \A f \in Entries(s.outbox) : f.item = x => f \in Entries(t.outbox)
        OBVIOUS
      <4>1. x # r /\ s.status[x] = "queued"
        BY <2>3, <2>4, <3>3
      <4>2. x = "chat" \/ x \in s.rows
        BY <1>2, <4>1 DEF GoodStore
      <4>3. QED
        BY <2>3, <3>1, <3>3, <4>1, <4>2
    <3>6. /\ Len(t.outbox) <= Len(s.outbox) /\ Entries(t.outbox) \subseteq Entries(s.outbox)
          /\ t.rows \cup t.friends \cup t.tomb \subseteq s.rows \cup s.friends \cup s.tomb
          /\ t.rows \cap t.friends = {} /\ t.tomb \cap (t.rows \cup t.friends) = {}
      BY <2>3, <3>1, <3>3, <3>4
    <3>7. GoodStore(p, t, H, from)
      BY <1>2, <3>3, <3>5, <3>6, StaysGood
    <3>8. Queues(t, s, {e}, {})
      <4>1. \A f \in Entries(s.outbox) : IsLifecycle(f) => f \in Entries(t.outbox)
        BY <3>1, <3>3 DEF IsLifecycle, Lifecycle
      <4>2. QED
        BY <2>3, <3>3, <3>6, <4>1 DEF Queues
    <3>9. QED
      BY <3>7, <3>8
  <2>5. CASE ~ok /\ HasQueued(s, r)
    <3>1. t = u
      BY <1>5, <1>7, <2>5
    <3>2. \E f \in Entries(s.outbox) : f.item = r /\ ~IsLifecycle(f)
      BY <2>5 DEF HasQueued, Entries, IsLifecycle, Lifecycle
    <3>3. \A x \in Items : t.status[x] = "queued" =>
             /\ x = "chat" \/ (x \in t.rows /\ from[x] = p)
             /\ \E f \in Entries(t.outbox) : f.item = x /\ ~IsLifecycle(f)
      BY <1>2, <2>1, <2>3, <3>1, <3>2 DEF GoodStore
    <3>4. GoodStore(p, t, H, from)
      BY <1>2, <2>2, <2>3, <3>1, <3>3 DEF GoodStore
    <3>5. QED
      BY <2>3, <3>1, <3>4 DEF Queues
  <2>6. CASE ~ok /\ ~HasQueued(s, r)
    <3>1. t = Enqueue(u, e)
      BY <1>5, <1>7, <2>6
    <3>2. \A x \in Items : u.status[x] = "queued" =>
             /\ x = "chat" \/ (x \in u.rows /\ from[x] = p)
             /\ \E f \in Entries(u.outbox) \cup {e} : f.item = x /\ ~IsLifecycle(f)
      BY <1>1, <1>2, <1>4, <2>1, <2>3 DEF GoodStore
    <3>3. NearlyGood(p, u, e, H, from)
      BY <1>1, <1>2, <2>2, <2>3, <3>2 DEF GoodStore, NearlyGood
    <3>4. GoodStore(p, t, H, from) /\ Enqueued(t, u, e)
      BY <1>1, <2>3, <3>1, <3>3, EnqueueGood
    <3>5. Queues(t, s, {e}, {})
      BY <1>4, <2>3, <3>4, OrdinaryPushesNothing DEF Enqueued, Queues
    <3>6. QED
      BY <3>4, <3>5
  <2>7. QED
    BY <2>4, <2>5, <2>6
<1>8. QED
  BY <1>6, <1>7

----------------------------------------------------------------------------
(* The entry a pass awaited is handled.                                     *)

\* What is in the queue afterwards was in it, or stands for e; a lifecycle action is
\* still there, is the one that is done with, or is in lost.
Alike(f, g) == f.kind = g.kind /\ f.item = g.item
HandledAs(t, s, e, done, lost) ==
    /\ t.rows = s.rows /\ t.friends = s.friends
    /\ \A g \in Entries(t.outbox) : \E f \in Entries(s.outbox) \cup {e} : Alike(f, g)
    /\ \A f \in Entries(s.outbox) : IsLifecycle(f) =>
         \/ \E g \in Entries(t.outbox) : Alike(f, g)
         \/ done /\ Alike(f, e)
         \/ f.item \in lost

LEMMA RemovedFacts ==
    ASSUME NEW s \in PeerState, NEW uid, NEW t, t = RemoveOutbox(s, uid)
    PROVE  /\ t \in PeerState /\ t.rows = s.rows /\ t.friends = s.friends /\ t.tomb = s.tomb
           /\ t.status = s.status
           /\ Len(t.outbox) <= Len(s.outbox)
           /\ Entries(t.outbox) = {f \in Entries(s.outbox) : f.uid # uid}
<1> DEFINE q == Without(s.outbox, {uid})
<1>1. s.outbox \in Seq(Entry)
  BY StoreTyped DEF StoreFields
<1>2. q \in Seq(Entry) /\ IsWithout(q, s.outbox, {uid})
  BY <1>1, WithoutFacts
<1>3. t = [s EXCEPT !.outbox = q]
  BY DEF RemoveOutbox
<1> HIDE DEF q
<1>4. /\ t \in PeerState /\ t.outbox = q
      /\ t.rows = s.rows /\ t.friends = s.friends /\ t.tomb = s.tomb
      /\ t.status = s.status /\ t.chats = s.chats
  BY <1>2, <1>3, WithOutbox
<1>5. QED
  BY <1>2, <1>4 DEF IsWithout

\* It is done with: delivered or given up.
LEMMA DoneGood ==
    ASSUME NEW p, NEW s, NEW H, NEW frm, GoodStore(p, s, H, frm),
           NEW e \in Entry, e \in H, Fits(e), NEW st \in {"sent", "failed"},
           NEW t, NEW u, u = RemoveOutbox(s, e.uid),
           t = IF IsLifecycle(e) THEN u ELSE Mark(u, e.item, st)
    PROVE  GoodStore(p, t, H, frm) /\ HandledAs(t, s, e, TRUE, {})
<1>1. s \in PeerState /\ StoreFields(s) /\ Len(s.outbox) \in Nat
  BY GoodFields
<1>2. /\ u \in PeerState /\ u.rows = s.rows /\ u.friends = s.friends /\ u.tomb = s.tomb
      /\ u.status = s.status
      /\ Len(u.outbox) <= Len(s.outbox)
      /\ Entries(u.outbox) = {f \in Entries(s.outbox) : f.uid # e.uid}
  BY <1>1, RemovedFacts
<1>3. \A f \in Entries(s.outbox) : f.uid = e.uid => Alike(f, e)
  BY DEF GoodStore, Coherent, Alike
<1>4. /\ t \in PeerState /\ t.rows = s.rows /\ t.friends = s.friends /\ t.tomb = s.tomb
      /\ t.outbox = u.outbox
      /\ \A x \in Items : t.status[x] = "queued" =>
           /\ s.status[x] = "queued"
           /\ ~IsLifecycle(e) /\ (e.item = "chat" \/ e.item \in s.rows) => x # e.item
  <2>1. CASE IsLifecycle(e)
    BY <1>2, <2>1
  <2>2. CASE ~IsLifecycle(e)
    <3>1. e.item \in Items /\ st \in Statuses
      BY EntryTyped DEF Statuses
    <3>2. t = Mark(u, e.item, st)
      BY <2>2
    <3>3. t \in PeerState /\ MarkedAs(t, u, e.item, st)
      BY <1>2, <3>1, <3>2, MarkFacts
    <3>4. \A x \in Items : t.status[x] = "queued" =>
           /\ s.status[x] = "queued"
           /\ (e.item = "chat" \/ e.item \in s.rows) => x # e.item
      BY <1>2, <3>3 DEF MarkedAs
    <3>5. QED
      BY <1>2, <2>2, <3>3, <3>4 DEF MarkedAs
  <2>3. QED
    BY <2>1, <2>2
<1>5. \A x \in Items : t.status[x] = "queued" =>
        /\ s.status[x] = "queued"
        /\ x = "chat" \/ x \in t.rows
        /\ \A f \in Entries(s.outbox) : f.item = x /\ ~IsLifecycle(f) => f \in Entries(t.outbox)
  <2> SUFFICES ASSUME NEW x \in Items, t.status[x] = "queued"
               PROVE  /\ s.status[x] = "queued"
                      /\ x = "chat" \/ x \in t.rows
                      /\ \A f \in Entries(s.outbox) :
                           f.item = x /\ ~IsLifecycle(f) => f \in Entries(t.outbox)
    OBVIOUS
  <2>1. s.status[x] = "queued"
    BY <1>4
  <2>2. x = "chat" \/ x \in s.rows
    BY <2>1 DEF GoodStore
  <2>3. ASSUME NEW f \in Entries(s.outbox), f.item = x, ~IsLifecycle(f)
        PROVE  f.uid # e.uid
    <3> SUFFICES ASSUME f.uid = e.uid PROVE FALSE
      OBVIOUS
    <3>1. e.item = x /\ ~IsLifecycle(e)
      BY <1>3, <2>3 DEF Alike, IsLifecycle
    <3>2. QED
      BY <1>4, <2>2, <3>1
  <2>4. QED
    BY <1>2, <1>4, <2>1, <2>2, <2>3
<1>6. /\ s.rows \cap s.friends = {} /\ s.tomb \cap (s.rows \cup s.friends) = {}
  BY DEF GoodStore
<1>7. GoodStore(p, t, H, frm)
  <2>1. /\ Len(t.outbox) <= Len(s.outbox) /\ Entries(t.outbox) \subseteq Entries(s.outbox)
        /\ t.rows \cup t.friends \cup t.tomb \subseteq s.rows \cup s.friends \cup s.tomb
        /\ t.rows \cap t.friends = {} /\ t.tomb \cap (t.rows \cup t.friends) = {}
    BY <1>2, <1>4, <1>6
  <2>2. QED
    BY <1>4, <1>5, <2>1, StaysGood
<1>8. HandledAs(t, s, e, TRUE, {})
  <2>1. \A f \in Entries(s.outbox) : Alike(f, f)
    BY DEF Alike
  <2>2. QED
    BY <1>2, <1>3, <1>4, <2>1 DEF HandledAs
<1>9. QED
  BY <1>7, <1>8

\* It is not: it goes back to the end of the queue.
LEMMA BackGood ==
    ASSUME NEW p, NEW s, NEW H, NEW frm, GoodStore(p, s, H, frm),
           NEW e \in Entry, e \in H, Fits(e), NEW u, u = RemoveOutbox(s, e.uid),
           NEW f \in Entry, f.uid = e.uid, Alike(f, e), NEW t, t = Enqueue(u, f)
    PROVE  GoodStore(p, t, H, frm) /\ HandledAs(t, s, e, FALSE, PushedOut(u, e))
<1>1. s \in PeerState /\ StoreFields(s) /\ Len(s.outbox) \in Nat
  BY GoodFields
<1>2. /\ u \in PeerState /\ u.rows = s.rows /\ u.friends = s.friends /\ u.tomb = s.tomb
      /\ u.status = s.status
      /\ Len(u.outbox) <= Len(s.outbox)
      /\ Entries(u.outbox) = {g \in Entries(s.outbox) : g.uid # e.uid}
  BY <1>1, RemovedFacts
<1>3. \A g \in Entries(s.outbox) : g.uid = e.uid => Alike(g, e)
  BY DEF GoodStore, Coherent, Alike
<1>4. f.uid \notin Uids(u.outbox)
  BY <1>2, UidsOf
<1>5. NearlyGood(p, u, f, H, frm)
  <2>1. Len(u.outbox) <= OutboxCap
    <3>1. Len(u.outbox) \in Nat /\ Len(s.outbox) <= OutboxCap /\ OutboxCap \in Nat
      BY <1>2, StoreTyped, QueueBounds DEF GoodStore, StoreFields
    <3>2. QED
      BY <1>1, <1>2, <3>1
  <2>2. Coherent(Entries(s.outbox) \cup H)
    BY DEF GoodStore
  <2>3. Coherent(Entries(u.outbox) \cup {f} \cup H)
    BY <1>2, <2>2 DEF Coherent, Alike
  <2>4. \A g \in Entries(u.outbox) \cup {f} : Fits(g)
    BY <1>2 DEF GoodStore, Fits, Alike
  <2>5. ASSUME NEW x \in Items, u.status[x] = "queued"
        PROVE  /\ x = "chat" \/ (x \in u.rows /\ frm[x] = p)
               /\ \E g \in Entries(u.outbox) \cup {f} : g.item = x /\ ~IsLifecycle(g)
    <3>1. /\ x = "chat" \/ (x \in u.rows /\ frm[x] = p)
          /\ \E g \in Entries(s.outbox) : g.item = x /\ ~IsLifecycle(g)
      BY <1>2, <2>5 DEF GoodStore
    <3>2. PICK g \in Entries(s.outbox) : g.item = x /\ ~IsLifecycle(g)
      BY <3>1
    <3>3. CASE g.uid = e.uid
      BY <1>3, <3>1, <3>2, <3>3 DEF Alike, IsLifecycle
    <3>4. CASE g.uid # e.uid
      BY <1>2, <3>1, <3>2, <3>4
    <3>5. QED
      BY <3>3, <3>4
  <2>6. QED
    BY <1>2, <2>1, <2>3, <2>4, <2>5 DEF GoodStore, NearlyGood
<1>6. GoodStore(p, t, H, frm) /\ Enqueued(t, u, f)
  BY <1>4, <1>5, EnqueueGood
<1>7. PushedOut(u, f) = PushedOut(u, e)
  BY DEF PushedOut, IsLifecycle, Alike
<1>8. ASSUME NEW g \in Entries(s.outbox), IsLifecycle(g)
      PROVE  (\E h \in Entries(t.outbox) : Alike(g, h)) \/ g.item \in PushedOut(u, e)
  <2>1. CASE g.uid = e.uid
    <3>1. Alike(g, f) /\ IsLifecycle(f) /\ g.item = f.item
      BY <1>3, <1>8, <2>1 DEF Alike, IsLifecycle
    <3>2. QED
      BY <1>6, <1>7, <3>1 DEF Enqueued
  <2>2. CASE g.uid # e.uid
    <3>1. g \in Entries(u.outbox) /\ Alike(g, g)
      BY <1>2, <2>2 DEF Alike
    <3>2. QED
      BY <1>6, <1>7, <1>8, <3>1 DEF Enqueued
  <2>3. QED
    BY <2>1, <2>2
<1>9. ASSUME NEW g \in Entries(t.outbox)
      PROVE  \E h \in Entries(s.outbox) \cup {e} : Alike(h, g)
  <2>1. g \in Entries(u.outbox) \cup {f}
    BY <1>6 DEF Enqueued
  <2>2. CASE g = f
    BY <2>2 DEF Alike
  <2>3. CASE g \in Entries(u.outbox)
    BY <1>2, <2>3 DEF Alike
  <2>4. QED
    BY <2>1, <2>2, <2>3
<1>10. QED
  BY <1>2, <1>6, <1>8, <1>9 DEF HandledAs, Enqueued

LEMMA HandledGood ==
    ASSUME NEW p, NEW s, NEW H, NEW frm, GoodStore(p, s, H, frm),
           NEW e \in Entry, e \in H, Fits(e), NEW ok \in BOOLEAN, NEW t, t = Handled(s, e, ok)
    PROVE  /\ GoodStore(p, t, H, frm)
           /\ HandledAs(t, s, e, ok \/ GivenUp(e),
                        IF ok \/ GivenUp(e) THEN {} ELSE PushedOut(RemoveOutbox(s, e.uid), e))
<1> DEFINE u == RemoveOutbox(s, e.uid)
           f == [e EXCEPT !.tries = IF IsLifecycle(e) THEN @ ELSE @ + 1]
<1>1. CASE ok \/ GivenUp(e)
  <2>1. t = IF IsLifecycle(e) THEN u ELSE Mark(u, e.item, IF ok THEN "sent" ELSE "failed")
    BY <1>1 DEF Handled
  <2>2. (IF ok THEN "sent" ELSE "failed") \in {"sent", "failed"}
    OBVIOUS
  <2> HIDE DEF u
  <2>3. GoodStore(p, t, H, frm) /\ HandledAs(t, s, e, TRUE, {})
    BY <2>1, <2>2, DoneGood DEF u
  <2>4. QED
    BY <1>1, <2>3
<1>2. CASE ~(ok \/ GivenUp(e))
  <2>1. t = Enqueue(u, f)
    BY <1>2 DEF Handled
  <2>2. f \in Entry /\ f.uid = e.uid /\ Alike(f, e)
    <3>1. e.tries \in 0..MaxAttempts
      BY EntryTyped
    <3>2. ~IsLifecycle(e) => e.tries + 1 \in 0..MaxAttempts
      BY <1>2, <3>1, QueueBounds DEF GivenUp
    <3>3. QED
      BY <3>1, <3>2 DEF Entry, Alike
  <2> HIDE DEF f
  <2>3. GoodStore(p, t, H, frm) /\ HandledAs(t, s, e, FALSE, PushedOut(u, e))
    BY <2>1, <2>2, BackGood
  <2>4. QED
    BY <1>2, <2>3
<1>3. QED
  BY <1>1, <1>2

----------------------------------------------------------------------------
(* A pass walks its snapshot.                                               *)

LEMMA SplitFacts ==
    ASSUME NEW q \in Seq(Entry), NEW n \in 1..(Len(q) + 1), NEW a, a = SubSeq(q, 1, n - 1),
           NEW b, b = SubSeq(q, n + 1, Len(q))
    PROVE  /\ Entries(a) = {q[i] : i \in 1..(n - 1)}
           /\ b \in Seq(Entry) /\ Len(b) <= Len(q)
           /\ Entries(b) = {q[i] : i \in (n + 1)..Len(q)}
<1>1. Len(q) \in Nat /\ n \in Nat /\ n <= Len(q) + 1 /\ n >= 1
  OBVIOUS
<1>2. /\ Len(a) = n - 1 /\ \A i \in 1..(n - 1) : a[i] = q[i]
  BY <1>1
<1>3. Entries(a) = {q[i] : i \in 1..(n - 1)}
  BY <1>2 DEF Entries
<1>4. CASE n <= Len(q)
  <2>1. /\ b \in Seq(Entry) /\ Len(b) = Len(q) - n
        /\ \A i \in 1..(Len(q) - n) : b[i] = q[i + n]
    BY <1>1, <1>4
  <2>2. \A i \in (n + 1)..Len(q) : i - n \in 1..(Len(q) - n) /\ (i - n) + n = i
    BY <1>1
  <2>3. \A i \in 1..(Len(q) - n) : i + n \in (n + 1)..Len(q)
    BY <1>1
  <2>4. \A x \in Entries(b) : \E i \in (n + 1)..Len(q) : x = q[i]
    BY <2>1, <2>3 DEF Entries
  <2>5. \A i \in (n + 1)..Len(q) : q[i] \in Entries(b)
    BY <2>1, <2>2 DEF Entries
  <2>6. QED
    BY <1>1, <1>3, <2>1, <2>4, <2>5
<1>5. CASE n = Len(q) + 1
  <2>1. b = <<>>
    BY <1>1, <1>5
  <2>2. (n + 1)..Len(q) = {} /\ Entries(b) = {}
    BY <1>1, <1>5, <2>1 DEF Entries
  <2>3. QED
    BY <1>1, <1>3, <2>1, <2>2
<1>6. QED
  BY <1>1, <1>4, <1>5

LEMMA StopFacts ==
    ASSUME NEW p, NEW s, NEW q \in Seq(Entry)
    PROVE  /\ Stop(p, s, q) \in 1..(Len(q) + 1)
           /\ \A i \in 1..(Stop(p, s, q) - 1) : Stale(p, s, q[i])
<1> DEFINE T == {i \in 1..Len(q) : ~Stale(p, s, q[i])} \cup {Len(q) + 1}
<1>1. Len(q) \in Nat
  OBVIOUS
<1>2. T \in SUBSET Nat /\ T # {} /\ T \subseteq 1..(Len(q) + 1)
  BY <1>1
<1>3. \A i \in 1..Len(q) : i \in T \/ Stale(p, s, q[i])
  OBVIOUS
<1>4. Stop(p, s, q) = FirstOf(T)
  BY DEF Stop
<1> HIDE DEF T
<1>5. Stop(p, s, q) \in T /\ \A i \in T : Stop(p, s, q) <= i
  BY <1>2, <1>4, FirstOfFacts
<1>6. ASSUME NEW i \in 1..(Stop(p, s, q) - 1) PROVE Stale(p, s, q[i])
  <2>1. Stop(p, s, q) \in 1..(Len(q) + 1)
    BY <1>2, <1>5
  <2>2. i \in 1..Len(q) /\ ~(Stop(p, s, q) <= i)
    BY <1>1, <2>1
  <2>3. QED
    BY <1>3, <1>5, <2>2
<1>7. QED
  BY <1>2, <1>5, <1>6

\* What a walk over a snapshot leads to.  What it was to examine and is still queued is
\* the entry it stopped at or after it.
Walked(w, s, q, again) ==
    /\ w.pass.again = again
    /\ Held(w.pass) \subseteq Entries(q)
    /\ Queues(w.store, s, {}, {})
    /\ \A u \in Uids(q) \cap Uids(w.store.outbox) :
         w.pass.cur # Nothing /\ (u = w.pass.cur.uid \/ u \in Uids(w.pass.rest))

\* The pass a walk that stops at n leaves.
PassAt(d, q, n, again) ==
    /\ GoodPass(d) /\ Held(d) \subseteq Entries(q) /\ d.again = again
    /\ \A e \in Entries(q) :
         \/ e \in Entries(SubSeq(q, 1, n - 1))
         \/ d.cur # Nothing /\ (e = d.cur \/ e \in Entries(d.rest))
LEMMA PassLeft ==
    ASSUME NEW q \in Seq(Entry), Len(q) <= OutboxCap, \A e \in Entries(q) : Fits(e),
           NEW n \in 1..(Len(q) + 1), NEW again \in BOOLEAN, NEW d,
           d = [cur |-> IF n > Len(q) THEN Nothing ELSE q[n],
                rest |-> SubSeq(q, n + 1, Len(q)), again |-> again]
    PROVE  PassAt(d, q, n, again)
<1> DEFINE b == SubSeq(q, n + 1, Len(q))
           a == SubSeq(q, 1, n - 1)
<1>1. Len(q) \in Nat /\ n \in Nat /\ n >= 1 /\ n <= Len(q) + 1
  OBVIOUS
<1>2. /\ Entries(a) = {q[i] : i \in 1..(n - 1)}
      /\ b \in Seq(Entry) /\ Len(b) <= Len(q)
      /\ Entries(b) = {q[i] : i \in (n + 1)..Len(q)}
  BY SplitFacts
<1>3. d.cur = (IF n > Len(q) THEN Nothing ELSE q[n]) /\ d.rest = b /\ d.again = again
      /\ d = [cur |-> d.cur, rest |-> d.rest, again |-> d.again]
  OBVIOUS
<1> HIDE DEF a, b
<1>4. \A i \in 1..Len(q) : q[i] \in Entry /\ q[i] \in Entries(q)
  BY DEF Entries
<1>5. \A i \in (n + 1)..Len(q) : i \in 1..Len(q)
  BY <1>1
<1>6. Entries(b) \subseteq Entries(q)
  BY <1>2, <1>4, <1>5
<1>7. n <= Len(q) => d.cur = q[n] /\ q[n] \in Entry /\ q[n] \in Entries(q) /\ d.cur # Nothing
  <2> SUFFICES ASSUME n <= Len(q)
               PROVE  d.cur = q[n] /\ q[n] \in Entry /\ q[n] \in Entries(q) /\ d.cur # Nothing
    OBVIOUS
  <2>1. n \in 1..Len(q) /\ ~(n > Len(q))
    BY <1>1
  <2>2. d.cur = q[n] /\ q[n] \in Entry /\ q[n] \in Entries(q)
    BY <1>3, <1>4, <2>1
  <2>3. QED
    BY <2>2, EntryTyped
<1>8. n > Len(q) => d.cur = Nothing
  BY <1>3
<1>9. Held(d) \subseteq Entries(q)
  <2>1. d.cur = Nothing \/ d.cur \in Entries(q)
    BY <1>1, <1>7, <1>8
  <2>2. Entries(d.rest) \subseteq Entries(q)
    BY <1>3, <1>6
  <2>3. QED
    BY <2>1, <2>2 DEF Held
<1>10. d \in DrainState
  BY <1>1, <1>2, <1>3, <1>7, <1>8 DEF DrainState
<1>11. Len(d.rest) <= OutboxCap
  BY <1>1, <1>2, <1>3, QueueBounds
<1>12. ASSUME NEW e \in Entries(q)
       PROVE  \/ e \in Entries(a)
              \/ d.cur # Nothing /\ (e = d.cur \/ e \in Entries(d.rest))
  <2>1. PICK i \in 1..Len(q) : e = q[i]
    BY DEF Entries
  <2>2. i \in 1..(n - 1) \/ i = n \/ i \in (n + 1)..Len(q)
    BY <1>1
  <2>3. i # n /\ i \notin 1..(n - 1) => n <= Len(q)
    BY <1>1
  <2>4. CASE i \in 1..(n - 1)
    BY <1>2, <2>1, <2>4
  <2>5. CASE i = n
    BY <1>7, <2>1, <2>5
  <2>6. CASE i \in (n + 1)..Len(q)
    <3>1. n <= Len(q)
      BY <1>1, <2>6
    <3>2. e \in Entries(b)
      BY <1>2, <2>1, <2>6
    <3>3. QED
      BY <1>3, <1>7, <3>1, <3>2
  <2>7. QED
    BY <2>2, <2>4, <2>5, <2>6
<1>13. QED
  BY <1>3, <1>9, <1>10, <1>11, <1>12 DEF GoodPass, PassAt, a

\* Stale requests leave the queue: nothing that is shown as queued, and no lifecycle action.
LEMMA StaleGood ==
    ASSUME NEW p \in Peers, NEW s, NEW q \in Seq(Entry), GoodStore(p, s, Entries(q), from),
           \A e \in Entries(q) : Fits(e),
           NEW a, \A e \in Entries(a) : e \in Entries(q) /\ Stale(p, s, e),
           NEW t, t = [s EXCEPT !.outbox = Without(@, Uids(a))]
    PROVE  /\ GoodStore(p, t, Entries(q), from) /\ Queues(t, s, {}, {})
           /\ \A u \in Uids(a) : u \notin Uids(t.outbox)
<1> DEFINE o == Without(s.outbox, Uids(a))
<1>1. s \in PeerState /\ StoreFields(s) /\ s.outbox \in Seq(Entry)
  BY GoodFields DEF StoreFields
<1>2. o \in Seq(Entry) /\ IsWithout(o, s.outbox, Uids(a))
  BY <1>1, WithoutFacts
<1>3. t = [s EXCEPT !.outbox = o]
  OBVIOUS
<1> HIDE DEF o
<1>4. /\ t \in PeerState /\ t.outbox = o
      /\ t.rows = s.rows /\ t.friends = s.friends /\ t.tomb = s.tomb
      /\ t.status = s.status /\ t.chats = s.chats
  <2>1. ASSUME NEW v, v = [s EXCEPT !.outbox = o]
        PROVE  /\ v \in PeerState /\ v.outbox = o
               /\ v.rows = s.rows /\ v.friends = s.friends /\ v.tomb = s.tomb
               /\ v.status = s.status /\ v.chats = s.chats
    BY <1>1, <1>2, <2>1, WithOutbox
  <2>2. QED
    BY <1>3, <2>1, Zenon
<1>5. Entries(t.outbox) = {e \in Entries(s.outbox) : e.uid \notin Uids(a)}
  BY <1>2, <1>4 DEF IsWithout
<1>6. ASSUME NEW f \in Entries(s.outbox), f.uid \in Uids(a)
      PROVE  f.kind = "request" /\ ~(f.item \in s.rows /\ from[f.item] = p) /\ f.item # "chat"
  <2>1. PICK e \in Entries(a) : e.uid = f.uid
    BY <1>6, UidsOf
  <2>2. e \in Entries(q) /\ Stale(p, s, e) /\ Fits(e)
    BY <2>1
  <2>3. f.kind = e.kind /\ f.item = e.item
    BY <2>1, <2>2 DEF GoodStore, Coherent
  <2>4. QED
    BY <2>2, <2>3 DEF Stale, Outgoing, Fits
<1>7. \A x \in Items : t.status[x] = "queued" =>
        /\ s.status[x] = "queued"
        /\ x = "chat" \/ x \in t.rows
        /\ \A f \in Entries(s.outbox) : f.item = x /\ ~IsLifecycle(f) => f \in Entries(t.outbox)
  <2> SUFFICES ASSUME NEW x \in Items, t.status[x] = "queued"
               PROVE  /\ s.status[x] = "queued"
                      /\ x = "chat" \/ x \in t.rows
                      /\ \A f \in Entries(s.outbox) : f.item = x => f \in Entries(t.outbox)
    OBVIOUS
  <2>1. s.status[x] = "queued"
    BY <1>4
  <2>2. x = "chat" \/ (x \in s.rows /\ from[x] = p)
    BY <2>1 DEF GoodStore
  <2>3. \A f \in Entries(s.outbox) : f.item = x => f.uid \notin Uids(a)
    BY <1>6, <2>2
  <2>4. QED
    BY <1>4, <1>5, <2>1, <2>2, <2>3
<1>8. /\ s.rows \cap s.friends = {} /\ s.tomb \cap (s.rows \cup s.friends) = {}
  BY DEF GoodStore
<1>9. GoodStore(p, t, Entries(q), from)
  <2>1. /\ Len(t.outbox) <= Len(s.outbox) /\ Entries(t.outbox) \subseteq Entries(s.outbox)
        /\ t.rows \cup t.friends \cup t.tomb \subseteq s.rows \cup s.friends \cup s.tomb
        /\ t.rows \cap t.friends = {} /\ t.tomb \cap (t.rows \cup t.friends) = {}
    BY <1>2, <1>4, <1>5, <1>8 DEF IsWithout
  <2>2. QED
    BY <1>4, <1>7, <2>1, StaysGood
<1>10. Queues(t, s, {}, {})
  <2>1. \A f \in Entries(s.outbox) : IsLifecycle(f) => f.uid \notin Uids(a)
    BY <1>6 DEF IsLifecycle, Lifecycle
  <2>2. QED
    BY <1>4, <1>5, <2>1 DEF Queues
<1>11. \A u \in Uids(a) : u \notin Uids(t.outbox)
  BY <1>5, UidsOf
<1>12. QED
  BY <1>9, <1>10, <1>11

LEMMA WalkGood ==
    ASSUME NEW p \in Peers, NEW s, NEW q \in Seq(Entry), Len(q) <= OutboxCap,
           GoodStore(p, s, Entries(q), from), \A e \in Entries(q) : Fits(e),
           NEW again \in BOOLEAN, NEW w \in Walk(p, s, again, q)
    PROVE  /\ GoodPass(w.pass) /\ GoodStore(p, w.store, Held(w.pass), from)
           /\ Walked(w, s, q, again)
<1> DEFINE n == Stop(p, s, q)
           a == SubSeq(q, 1, n - 1)
<1>1. n \in 1..(Len(q) + 1) /\ \A i \in 1..(n - 1) : Stale(p, s, q[i])
  BY StopFacts
<1>2. w = WalkTo(n, s, again, q)
  BY DEF Walk
<1> HIDE DEF n
<1>3. /\ w.store = [s EXCEPT !.outbox = Without(@, Uids(a))]
      /\ w.pass = [cur |-> IF n > Len(q) THEN Nothing ELSE q[n],
                   rest |-> SubSeq(q, n + 1, Len(q)), again |-> again]
  BY <1>2 DEF WalkTo
<1>4. Entries(a) = {q[i] : i \in 1..(n - 1)}
  BY <1>1, SplitFacts
<1> HIDE DEF a
<1>5. \A e \in Entries(a) : e \in Entries(q) /\ Stale(p, s, e)
  <2>1. \A i \in 1..(n - 1) : i \in 1..Len(q)
    BY <1>1
  <2>2. QED
    BY <1>1, <1>4, <2>1 DEF Entries
<1>6. /\ GoodPass(w.pass) /\ Held(w.pass) \subseteq Entries(q) /\ w.pass.again = again
      /\ \A e \in Entries(q) :
           \/ e \in Entries(a)
           \/ w.pass.cur # Nothing /\ (e = w.pass.cur \/ e \in Entries(w.pass.rest))
  <2>1. PassAt(w.pass, q, n, again)
    BY <1>1, <1>3, PassLeft, Zenon
  <2>2. QED
    BY <2>1 DEF PassAt, a
<1>7. /\ GoodStore(p, w.store, Entries(q), from) /\ Queues(w.store, s, {}, {})
      /\ \A u \in Uids(a) : u \notin Uids(w.store.outbox)
  BY <1>3, <1>5, StaleGood
<1>8. GoodStore(p, w.store, Held(w.pass), from)
  <2>1. Coherent(Entries(w.store.outbox) \cup Entries(q))
    BY <1>7 DEF GoodStore
  <2>2. Coherent(Entries(w.store.outbox) \cup Held(w.pass))
    <3>1. Entries(w.store.outbox) \cup Held(w.pass) \subseteq Entries(w.store.outbox) \cup Entries(q)
      BY <1>6
    <3>2. QED
      BY <2>1, <3>1, CoherentPart
  <2>3. QED
    BY <1>7, <2>2 DEF GoodStore
<1>9. ASSUME NEW u \in Uids(q) \cap Uids(w.store.outbox)
      PROVE  w.pass.cur # Nothing /\ (u = w.pass.cur.uid \/ u \in Uids(w.pass.rest))
  <2>1. PICK e \in Entries(q) : u = e.uid
    BY <1>9, UidsOf
  <2>2. e \notin Entries(a)
    <3>1. e \in Entries(a) => u \in Uids(a)
      BY <2>1, UidsOf
    <3>2. QED
      BY <1>7, <1>9, <3>1
  <2>3. QED
    BY <1>6, <2>1, <2>2, UidsOf
<1>10. QED
  BY <1>6, <1>7, <1>8, <1>9 DEF Walked

----------------------------------------------------------------------------
(* A pass begins, or goes on.                                               *)

\* What a walk that a step takes leaves of the store s and of the entries H it holds.
Taken(p, w, s, H) ==
    /\ GoodPass(w.pass) /\ GoodStore(p, w.store, Held(w.pass), from)
    /\ Held(w.pass) \subseteq Entries(s.outbox) \cup H
    /\ Pares(w.store, s)
\* What is then owed, of what was owed before.
StillOwed(w, uids) == (uids \cap Uids(w.store.outbox)) \ {w.pass.cur.uid}

LEMMA PassGood ==
    ASSUME NEW p \in Peers, NEW s, NEW H, GoodStore(p, s, H, from), NEW w \in Pass(p, s), NEW uids
    PROVE  Taken(p, w, s, {}) /\ Honoured(w.pass, StillOwed(w, uids))
<1> DEFINE q == s.outbox
<1>1. q \in Seq(Entry) /\ Len(q) <= OutboxCap /\ \A e \in Entries(q) : Fits(e)
  <2>1. q \in Seq(Entry)
    BY GoodFields DEF StoreFields
  <2>2. QED
    BY <2>1 DEF GoodStore
<1>2. GoodStore(p, s, Entries(q), from)
  <2>1. Coherent(Entries(q) \cup H)
    BY DEF GoodStore
  <2>2. Coherent(Entries(q) \cup Entries(q))
    BY <2>1, CoherentPart
  <2>3. QED
    BY <2>2 DEF GoodStore
<1>3. w \in Walk(p, s, FALSE, q)
  BY DEF Pass
<1> HIDE DEF q
<1>4. /\ GoodPass(w.pass) /\ GoodStore(p, w.store, Held(w.pass), from)
      /\ Walked(w, s, q, FALSE)
  <2>1. ASSUME NEW again \in BOOLEAN, w \in Walk(p, s, again, q)
        PROVE  /\ GoodPass(w.pass) /\ GoodStore(p, w.store, Held(w.pass), from)
               /\ Walked(w, s, q, again)
    BY <1>1, <1>2, <2>1, WalkGood
  <2>2. QED
    BY <1>3, <2>1
<1>5. Taken(p, w, s, {})
  BY <1>4 DEF Taken, Walked, Queues, Pares, q
<1>6. Uids(w.store.outbox) \subseteq Uids(q)
  <2>1. Entries(w.store.outbox) \subseteq Entries(q)
    BY <1>4 DEF Walked, Queues, q
  <2>2. QED
    BY <2>1, UidsOf
<1>7. Honoured(w.pass, StillOwed(w, uids))
  <2>1. \A u \in Uids(w.store.outbox) :
          w.pass.cur # Nothing /\ (u = w.pass.cur.uid \/ u \in Uids(w.pass.rest))
    BY <1>4, <1>6 DEF Walked
  <2>2. ~w.pass.again
    BY <1>4 DEF Walked
  <2>3. QED
    BY <2>1, <2>2 DEF Honoured, StillOwed
<1>8. QED
  BY <1>5, <1>7

LEMMA OnwardsGood ==
    ASSUME NEW p \in Peers, NEW d, d = drain[p], GoodPass(d),
           NEW s, GoodStore(p, s, Held(d), from), NEW w \in Onwards(p, s),
           NEW uids, ~d.again => uids \subseteq Uids(d.rest)
    PROVE  Taken(p, w, s, Held(d)) /\ Honoured(w.pass, StillOwed(w, uids))
<1> DEFINE q == d.rest
<1>1. /\ q \in Seq(Entry) /\ Len(q) <= OutboxCap /\ Entries(q) \subseteq Held(d)
      /\ d.again \in BOOLEAN /\ \A e \in Entries(q) : Fits(e)
  <2>1. /\ q \in Seq(Entry) /\ Len(q) <= OutboxCap /\ Entries(q) \subseteq Held(d)
        /\ d.again \in BOOLEAN
    BY PassFields
  <2>2. QED
    BY <2>1 DEF GoodPass
<1>2. GoodStore(p, s, Entries(q), from)
  <2>1. Coherent(Entries(s.outbox) \cup Held(d))
    BY DEF GoodStore
  <2>2. Entries(s.outbox) \cup Entries(q) \subseteq Entries(s.outbox) \cup Held(d)
    BY <1>1
  <2>3. Coherent(Entries(s.outbox) \cup Entries(q))
    BY <2>1, <2>2, CoherentPart
  <2>4. QED
    BY <2>3 DEF GoodStore
<1>3. PICK v \in Walk(p, s, d.again, q) :
        w \in IF v.pass.cur = Nothing /\ v.pass.again
              THEN Pass(p, Prune(v.store, expired)) ELSE {v}
  BY DEF Onwards
<1> HIDE DEF q
<1>4. /\ GoodPass(v.pass) /\ GoodStore(p, v.store, Held(v.pass), from)
      /\ Walked(v, s, q, d.again)
  <2>1. ASSUME NEW again \in BOOLEAN, v \in Walk(p, s, again, q)
        PROVE  /\ GoodPass(v.pass) /\ GoodStore(p, v.store, Held(v.pass), from)
               /\ Walked(v, s, q, again)
    BY <1>1, <1>2, <2>1, WalkGood
  <2>2. QED
    BY <1>1, <1>3, <2>1
<1>5. CASE v.pass.cur = Nothing /\ v.pass.again
  <2>1. PICK t : t = Prune(v.store, expired)
    OBVIOUS
  <2>2. GoodStore(p, t, Held(v.pass), from) /\ Pares(t, v.store)
    BY <1>4, <2>1, PruneGood
  <2>3. w \in Pass(p, t)
    BY <1>3, <1>5, <2>1
  <2>4. Taken(p, w, t, {}) /\ Honoured(w.pass, StillOwed(w, uids))
    BY <2>2, <2>3, PassGood
  <2>5. Pares(t, s)
    BY <1>4, <2>2 DEF Pares, Walked, Queues
  <2>6. Taken(p, w, s, Held(d))
    <3>1. Pares(w.store, s)
      BY <2>4, <2>5 DEF Pares, Taken
    <3>2. Held(w.pass) \subseteq Entries(s.outbox)
      BY <2>4, <2>5 DEF Pares, Taken
    <3>3. QED
      BY <2>4, <3>1, <3>2 DEF Taken
  <2>7. QED
    BY <2>4, <2>6
<1>6. CASE ~(v.pass.cur = Nothing /\ v.pass.again)
  <2>1. w = v
    BY <1>3, <1>6
  <2>2. Taken(p, w, s, Held(d))
    BY <1>1, <1>4, <2>1 DEF Taken, Walked, Queues, Pares
  <2>3. v.pass.again = d.again
    BY <1>4 DEF Walked
  <2>4. \A u \in Uids(q) \cap Uids(v.store.outbox) :
          v.pass.cur # Nothing /\ (u = v.pass.cur.uid \/ u \in Uids(v.pass.rest))
    BY <1>4 DEF Walked
  <2>5. ASSUME ~d.again
        PROVE  \A u \in StillOwed(v, uids) : v.pass.cur # Nothing /\ u \in Uids(v.pass.rest)
    <3>1. uids \subseteq Uids(q)
      BY <2>5 DEF q
    <3>2. QED
      BY <2>4, <3>1 DEF StillOwed
  <2>6. v.pass.cur = Nothing => ~d.again
    BY <1>6, <2>3
  <2>7. Honoured(v.pass, StillOwed(v, uids))
    BY <2>3, <2>5, <2>6 DEF Honoured
  <2>8. QED
    BY <2>1, <2>2, <2>7
<1>7. QED
  BY <1>5, <1>6

----------------------------------------------------------------------------
(* What keeps the invariant: one peer moves, the rest only grows.           *)

LEMMA InitGood == Init => IInv
<1> SUFFICES ASSUME Init PROVE IInv
  OBVIOUS
<1> USE DEF Init
<1>1. NoStore \in PeerState /\ NoStore.outbox = <<>> /\ Entries(<<>>) = {}
  BY DEF NoStore, PeerState, Statuses, Entries
<1>2. Idle \in DrainState /\ Idle.rest = <<>> /\ Idle.cur = Nothing /\ ~Idle.again
  BY DEF Idle, DrainState
<1>3. Held(Idle) = {}
  BY <1>1, <1>2 DEF Held
<1>4. GoodPass(Idle)
  BY <1>2, <1>3, QueueBounds DEF GoodPass
<1>5. ASSUME NEW p \in Peers PROVE GoodStore(p, NoStore, Held(Idle), from)
  <2>1. /\ NoStore.rows = {} /\ NoStore.friends = {} /\ NoStore.tomb = {}
        /\ \A x \in Items : NoStore.status[x] = "none"
    BY DEF NoStore
  <2>2. Len(NoStore.outbox) <= OutboxCap
    BY <1>1, QueueBounds
  <2>3. QED
    BY <1>1, <1>3, <2>1, <2>2 DEF GoodStore, Coherent
<1>6. Honoured(Idle, {})
  BY <1>2 DEF Honoured
<1>7. AllGood
  <2> SUFFICES ASSUME NEW p \in Peers PROVE GoodAt(p, NoStore, Idle, {}, {}, from, acted)
    BY DEF AllGood
  <2>1. NoStore.friends = {}
    BY DEF NoStore
  <2>2. QED
    BY <1>1, <1>3, <1>4, <1>5, <1>6, <2>1 DEF GoodAt
<1>8. Shapes
  BY DEF Shapes
<1>9. QED
  BY <1>7, <1>8 DEF IInv, NetMeant, AllBacked

LEMMA MeantLater ==
    ASSUME NEW k, NEW r \in Ids, NEW frm, NEW done, NEW frm2, NEW done2, Meant(k, r, frm, done),
           frm[r] # "nobody" => frm2[r] = frm[r], done \subseteq done2
    PROVE  Meant(k, r, frm2, done2)
BY DEF Meant

\* Who made a request is learned once.
Later(frm2, frm) == \A r \in Ids : frm[r] # "nobody" => frm2[r] = frm[r]

LEMMA StoreLater ==
    ASSUME NEW p \in Peers, NEW s, NEW H, NEW frm, NEW frm2, GoodStore(p, s, H, frm), Later(frm2, frm)
    PROVE  GoodStore(p, s, H, frm2)
<1>1. StoreFields(s)
  BY GoodFields
<1>2. \A r \in s.rows \cup s.friends \cup s.tomb : r \in Ids /\ frm2[r] = frm[r] /\ frm2[r] # "nobody"
  BY <1>1 DEF GoodStore, Later, StoreFields
<1>3. \A x \in Items : s.status[x] = "queued" =>
         /\ x = "chat" \/ (x \in s.rows /\ frm2[x] = p)
         /\ \E e \in Entries(s.outbox) : e.item = x /\ ~IsLifecycle(e)
  BY <1>2 DEF GoodStore
<1>4. QED
  BY <1>2, <1>3 DEF GoodStore

\* Of an entry that is not a message, the item is a request.
LEMMA HeldIsOfRequest ==
    ASSUME NEW p, NEW s, NEW d, NEW frm, GoodPass(d), GoodStore(p, s, Held(d), frm)
    PROVE  \A e \in Entries(s.outbox) \cup Held(d) : e.kind # "chat" => e.item \in Ids
<1>1. \A e \in Entries(s.outbox) \cup Held(d) : e \in Entry /\ Fits(e)
  <2>1. Entries(s.outbox) \subseteq Entry /\ Held(d) \subseteq Entry
    BY GoodFields, PassFields
  <2>2. QED
    BY <2>1 DEF GoodStore, GoodPass
<1>2. QED
  BY <1>1, EntryTyped

LEMMA GoodLater ==
    ASSUME NEW p \in Peers, NEW s, NEW d, NEW c, NEW o, NEW frm, NEW done, NEW frm2, NEW done2,
           GoodAt(p, s, d, c, o, frm, done), Later(frm2, frm), done \subseteq done2
    PROVE  GoodAt(p, s, d, c, o, frm2, done2)
<1>1. GoodPass(d) /\ GoodStore(p, s, Held(d), frm) /\ c \subseteq Deliveries
  BY DEF GoodAt
<1>2. GoodStore(p, s, Held(d), frm2)
  BY <1>1, StoreLater
<1>3. \A e \in Entries(s.outbox) \cup Held(d) : e.kind # "chat" => Meant(e.kind, e.item, frm2, done2)
  <2> SUFFICES ASSUME NEW e \in Entries(s.outbox) \cup Held(d), e.kind # "chat"
               PROVE  Meant(e.kind, e.item, frm2, done2)
    OBVIOUS
  <2>1. e.item \in Ids /\ Meant(e.kind, e.item, frm, done)
    BY <1>1, HeldIsOfRequest DEF GoodAt
  <2>2. QED
    BY <2>1 DEF Meant, Later
<1>4. \A x \in c : Meant(x.kind, x.item, frm2, done2)
  <2>1. \A x \in c : x.item \in Ids /\ Meant(x.kind, x.item, frm, done)
    BY <1>1 DEF GoodAt, Deliveries
  <2>2. QED
    BY <2>1 DEF Meant, Later
<1>5. QED
  BY <1>1, <1>2, <1>3, <1>4 DEF GoodAt

\* p comes to store s, pass d, deliveries c and debts o.
Changes(p, s, d, c, o) ==
    /\ peer' = [peer EXCEPT ![p] = s] /\ drain' = [drain EXCEPT ![p] = d]
    /\ calls' = [calls EXCEPT ![p] = c] /\ owed' = [owed EXCEPT ![p] = o]
\* The rest of the state only grows, and a packet is placed for what was meant.
Grows ==
    /\ net \subseteq net' /\ net' \subseteq Packet
    /\ \A m \in net' : Meant(m.kind, m.item, from', acted')
    /\ from' \in [Ids -> Peers \cup {"nobody"}] /\ Later(from', from)
    /\ expired \subseteq expired' /\ expired' \subseteq Ids
    /\ cut \subseteq cut' /\ cut' \subseteq Ids
    /\ acted \subseteq acted' /\ acted' \subseteq Actions
\* An action p had yet to deliver it still has, unless its packet is placed or it is lost.
Carries(p, s, c) ==
    \A act \in acted : Carried(act, peer[p], calls[p]) /\ Actor(act) = p =>
        \/ Carried(act, s, c)
        \/ PacketOf(p, act.kind, act.item) \in net'
        \/ act.item \in expired' \cup cut'
\* A new action is one of p's.
Adds(p, s, c) ==
    \A act \in acted' \ acted :
        from'[act.item] # "nobody" /\ Actor(act)' = p /\ Carried(act, s, c)

LEMMA PeerMoves ==
    ASSUME IInv, NEW p \in Peers, NEW s, NEW d, NEW c, NEW o,
           Changes(p, s, d, c, o), Grows, GoodAt(p, s, d, c, o, from', acted'),
           Carries(p, s, c), Adds(p, s, c)
    PROVE  IInv'
<1>1. /\ peer = [x \in Peers |-> peer[x]] /\ drain = [x \in Peers |-> drain[x]]
      /\ calls = [x \in Peers |-> calls[x]] /\ owed = [x \in Peers |-> owed[x]]
  BY DEF IInv, Shapes
<1>2. /\ peer' = [x \in Peers |-> IF x = p THEN s ELSE peer[x]]
      /\ drain' = [x \in Peers |-> IF x = p THEN d ELSE drain[x]]
      /\ calls' = [x \in Peers |-> IF x = p THEN c ELSE calls[x]]
      /\ owed' = [x \in Peers |-> IF x = p THEN o ELSE owed[x]]
  BY <1>1 DEF Changes
<1>3. \A x \in Peers : /\ peer'[x] = (IF x = p THEN s ELSE peer[x])
                       /\ drain'[x] = (IF x = p THEN d ELSE drain[x])
                       /\ calls'[x] = (IF x = p THEN c ELSE calls[x])
                       /\ owed'[x] = (IF x = p THEN o ELSE owed[x])
  BY <1>2
<1>4. /\ peer' = [x \in Peers |-> peer'[x]] /\ drain' = [x \in Peers |-> drain'[x]]
      /\ calls' = [x \in Peers |-> calls'[x]] /\ owed' = [x \in Peers |-> owed'[x]]
  BY <1>2
<1>5. Shapes'
  BY <1>4 DEF Shapes, Grows
<1>6. AllGood'
  <2> SUFFICES ASSUME NEW x \in Peers
               PROVE  GoodAt(x, peer'[x], drain'[x], calls'[x], owed'[x], from', acted')
    BY DEF AllGood
  <2>1. CASE x = p
    BY <1>3, <2>1
  <2>2. CASE x # p
    <3>1. GoodAt(x, peer[x], drain[x], calls[x], owed[x], from, acted)
      BY DEF IInv, AllGood
    <3>2. Later(from', from) /\ acted \subseteq acted'
      BY DEF Grows
    <3>3. GoodAt(x, peer[x], drain[x], calls[x], owed[x], from', acted')
      BY <3>1, <3>2, GoodLater
    <3>4. QED
      BY <1>3, <2>2, <3>3
  <2>3. QED
    BY <2>1, <2>2
<1>7. NetMeant'
  BY DEF Grows, NetMeant
<1>8. AllBacked'
  <2> SUFFICES ASSUME NEW act \in acted' PROVE from'[act.item] # "nobody" /\ Backed(act)'
    BY DEF AllBacked
  <2>1. act \in Actions /\ act.item \in Ids
    BY DEF Grows, Actions
  <2>2. CASE act \in acted
    <3>1. from[act.item] # "nobody" /\ Backed(act)
      BY <2>2 DEF IInv, AllBacked
    <3>2. from'[act.item] = from[act.item] /\ from[act.item] \in Peers
      BY <2>1, <3>1 DEF Grows, Later, IInv, Shapes
    <3> DEFINE y == Actor(act)
    <3>3. Actor(act)' = y /\ y \in Peers
      BY <3>2, PeersFacts DEF Actor
    <3> HIDE DEF y
    <3>4. /\ peer'[y] = (IF y = p THEN s ELSE peer[y])
          /\ calls'[y] = (IF y = p THEN c ELSE calls[y])
      BY <1>3, <3>3
    <3>5. \/ PacketOf(y, act.kind, act.item) \in net
          \/ Carried(act, peer[y], calls[y])
          \/ act.item \in expired \cup cut
      BY <3>1 DEF Backed, y
    <3>6. \/ PacketOf(y, act.kind, act.item) \in net'
          \/ Carried(act, peer'[y], calls'[y])
          \/ act.item \in expired' \cup cut'
      <4>1. CASE y = p
        <5>1. Carried(act, peer[p], calls[p]) =>
                 \/ Carried(act, s, c)
                 \/ PacketOf(p, act.kind, act.item) \in net'
                 \/ act.item \in expired' \cup cut'
          BY <2>2, <4>1 DEF Carries, y
        <5>2. QED
          BY <3>4, <3>5, <4>1, <5>1 DEF Grows
      <4>2. CASE y # p
        BY <3>4, <3>5, <4>2 DEF Grows
      <4>3. QED
        BY <4>1, <4>2
    <3>7. Backed(act)'
      BY <3>3, <3>6 DEF Backed
    <3>8. QED
      BY <3>1, <3>2, <3>7
  <2>3. CASE act \notin acted
    <3>1. from'[act.item] # "nobody" /\ Actor(act)' = p /\ Carried(act, s, c)
      BY <2>3 DEF Adds
    <3>2. peer'[p] = s /\ calls'[p] = c
      BY <1>3
    <3>3. Carried(act, peer'[Actor(act)'], calls'[Actor(act)'])
      BY <3>1, <3>2
    <3>4. QED
      BY <3>1, <3>3 DEF Backed
  <2>4. QED
    BY <2>2, <2>3
<1>9. QED
  BY <1>5, <1>6, <1>7, <1>8 DEF IInv

----------------------------------------------------------------------------
(* A step that changes the store of one peer and starts or ends a delivery. *)

PeerFacts(p) ==
    /\ GoodAt(p, peer[p], drain[p], calls[p], owed[p], from, acted)
    /\ GoodPass(drain[p]) /\ GoodStore(p, peer[p], Held(drain[p]), from)
    /\ GoodStore(p, Pruned(p), Held(drain[p]), from) /\ Pares(Pruned(p), peer[p])
    /\ from \in [Ids -> Peers \cup {"nobody"}]
LEMMA PeerIsGood == ASSUME IInv, NEW p \in Peers PROVE PeerFacts(p)
<1>1. GoodAt(p, peer[p], drain[p], calls[p], owed[p], from, acted)
  BY DEF IInv, AllGood
<1>2. GoodPass(drain[p]) /\ GoodStore(p, peer[p], Held(drain[p]), from)
  BY <1>1 DEF GoodAt
<1>3. GoodStore(p, Pruned(p), Held(drain[p]), from) /\ Pares(Pruned(p), peer[p])
  <2>1. Pruned(p) = Prune(peer[p], expired)
    BY DEF Pruned
  <2>2. QED
    BY <1>2, <2>1, PruneGood
<1>4. QED
  BY <1>1, <1>2, <1>3 DEF PeerFacts, IInv, Shapes

LEMMA OwedStays ==
    ASSUME NEW d, NEW o, Honoured(d, o), NEW o2, o2 \subseteq o
    PROVE  Honoured(d, o2)
BY DEF Honoured

\* The new queue holds old entries and some of X; only actions in lost have left it.
Moves(t, s, X, lost) ==
    /\ Entries(t.outbox) \subseteq Entries(s.outbox) \cup X
    /\ \A f \in Entries(s.outbox) : IsLifecycle(f) => f \in Entries(t.outbox) \/ f.item \in lost

\* p comes to store s and deliveries c.
StoreStep(p, s, c, X, lost) ==
    /\ Store(p, s) /\ drain' = drain /\ Grows
    /\ c \subseteq Deliveries /\ calls' = [calls EXCEPT ![p] = c]
    /\ \A x \in c : Meant(x.kind, x.item, from', acted')
    /\ GoodStore(p, s, Held(drain[p]), from')
    /\ \A r \in s.friends : Act("accept", r) \in acted'
    /\ Moves(s, peer[p], X, lost) /\ lost \subseteq cut'
    /\ \A e \in X : e.kind # "chat" => Meant(e.kind, e.item, from', acted')
    /\ \A act \in calls[p] : act \in acted =>
         \/ Carried(act, s, c)
         \/ PacketOf(p, act.kind, act.item) \in net'
         \/ act.item \in expired' \cup cut'
    /\ Adds(p, s, c)
LEMMA StoreMoves ==
    ASSUME IInv, NEW p \in Peers, NEW s, NEW c, NEW X, NEW lost, StoreStep(p, s, c, X, lost)
    PROVE  IInv'
<1> USE DEF StoreStep
<1> DEFINE d == drain[p]
           o == owed[p] \cap Uids(s.outbox)
<1>1. GoodAt(p, peer[p], d, calls[p], owed[p], from, acted)
  BY PeerIsGood DEF PeerFacts
<1>2. Changes(p, s, d, c, o)
  <2>1. drain = [x \in Peers |-> drain[x]]
    BY DEF IInv, Shapes
  <2>2. drain' = [drain EXCEPT ![p] = d]
    BY <2>1
  <2>3. QED
    BY <2>2 DEF Changes, Store
<1>3. GoodAt(p, peer[p], d, calls[p], owed[p], from', acted')
  <2>1. Later(from', from) /\ acted \subseteq acted'
    BY DEF Grows
  <2>2. QED
    BY <1>1, <2>1, GoodLater
<1> HIDE DEF d
<1>4. \A e \in Entries(s.outbox) \cup Held(d) : e.kind # "chat" => Meant(e.kind, e.item, from', acted')
  BY <1>3 DEF GoodAt, Moves
<1>5. GoodPass(d) /\ GoodStore(p, s, Held(d), from')
  BY <1>1 DEF GoodAt, d
<1>6. Honoured(d, o) /\ o \subseteq 1..MaxUid
  BY <1>1, OwedStays DEF GoodAt
<1> HIDE DEF o
<1>7. GoodAt(p, s, d, c, o, from', acted')
  BY <1>4, <1>5, <1>6 DEF GoodAt
<1>8. Carries(p, s, c)
  <2> SUFFICES ASSUME NEW act \in acted, Carried(act, peer[p], calls[p])
               PROVE  \/ Carried(act, s, c)
                      \/ PacketOf(p, act.kind, act.item) \in net'
                      \/ act.item \in expired' \cup cut'
    BY DEF Carries
  <2>1. CASE act \in calls[p]
    BY <2>1
  <2>2. CASE act \notin calls[p]
    <3>1. PICK e \in Entries(peer[p].outbox) : e.kind = act.kind /\ e.item = act.item
      BY <2>2 DEF Carried
    <3>2. IsLifecycle(e)
      BY <3>1 DEF IsLifecycle, IInv, Shapes, Actions
    <3>3. e \in Entries(s.outbox) \/ act.item \in cut'
      BY <3>1, <3>2 DEF Moves
    <3>4. QED
      BY <3>1, <3>3 DEF Carried
  <2>3. QED
    BY <2>1, <2>2
<1>9. QED
  BY <1>2, <1>7, <1>8, PeerMoves

\* The rest of the state when a packet of p may be placed and nothing else happens to it.
LEMMA PlacedGrows ==
    ASSUME IInv, NEW p \in Peers, NEW k \in Lifecycle \cup {"request"}, NEW r \in Ids, Place(p, k, r),
           from' \in [Ids -> Peers \cup {"nobody"}], Later(from', from),
           acted \subseteq acted', acted' \subseteq Actions, Meant(k, r, from', acted'),
           expired' = expired, cut \subseteq cut', cut' \subseteq Ids
    PROVE  Grows
<1>1. net \subseteq net' /\ net' \subseteq net \cup {PacketOf(p, k, r)}
  BY DEF Place
<1>2. PacketOf(p, k, r) \in Packet /\ PacketOf(p, k, r).kind = k /\ PacketOf(p, k, r).item = r
  BY PeersFacts DEF PacketOf, Packet
<1>3. net' \subseteq Packet
  BY <1>1, <1>2 DEF IInv, Shapes
<1>4. \A m \in net' : Meant(m.kind, m.item, from', acted')
  <2>1. ASSUME NEW m \in net PROVE Meant(m.kind, m.item, from', acted')
    <3>1. m.item \in Ids /\ Meant(m.kind, m.item, from, acted)
      BY DEF IInv, NetMeant, Shapes, Packet
    <3>2. QED
      BY <3>1 DEF Meant, Later
  <2>2. QED
    BY <1>1, <1>2, <2>1
<1>5. QED
  BY <1>1, <1>3, <1>4 DEF Grows, IInv, Shapes
LEMMA NothingGrows ==
    ASSUME IInv, net' = net, from' = from, acted' = acted, expired \subseteq expired',
           expired' \subseteq Ids, cut \subseteq cut', cut' \subseteq Ids
    PROVE  Grows
BY DEF Grows, IInv, Shapes, NetMeant, Later

----------------------------------------------------------------------------
(* Users' operations keep the invariant.                                    *)

\* A delivery that begins.
LEMMA CallFacts ==
    ASSUME IInv, NEW p \in Peers, NEW k \in Lifecycle \cup {"request"}, NEW r \in Ids,
           NEW frm, NEW done, Meant(k, r, frm, done), Later(frm, from), acted \subseteq done,
           NEW c, c = calls[p] \cup {Act(k, r)}
    PROVE  c \in SUBSET Deliveries /\ \A x \in c : Meant(x.kind, x.item, frm, done)
<1>1. /\ calls[p] \subseteq Deliveries
      /\ \A x \in calls[p] : Meant(x.kind, x.item, from, acted)
  BY PeerIsGood DEF PeerFacts, GoodAt
<1>2. \A x \in calls[p] : x.item \in Ids
  BY <1>1 DEF Deliveries
<1>3. \A x \in calls[p] : Meant(x.kind, x.item, frm, done)
  BY <1>1, <1>2 DEF Meant, Later
<1>4. Act(k, r) \in Deliveries /\ Act(k, r).kind = k /\ Act(k, r).item = r
  BY DEF Act, Deliveries
<1>5. QED
  BY <1>1, <1>3, <1>4

\* What was called stays called.
LEMMA CallsStay ==
    ASSUME NEW p, NEW s, NEW c, calls[p] \subseteq c
    PROVE  \A act \in calls[p] : act \in acted =>
               \/ Carried(act, s, c)
               \/ PacketOf(p, act.kind, act.item) \in net'
               \/ act.item \in expired' \cup cut'
BY DEF Carried

\* A store that only loses rows and copies of requests moves no action out.
LEMMA ParesMoves ==
    ASSUME NEW t, NEW s, Pares(t, s)
    PROVE  Moves(t, s, {}, {}) /\ t.friends = s.friends
BY DEF Pares, Moves

LEMMA FriendsKept ==
    ASSUME IInv, NEW p \in Peers, acted \subseteq acted'
    PROVE  \A r \in peer[p].friends : Act("accept", r) \in acted'
BY PeerIsGood DEF PeerFacts, GoodAt

LEMMA AddRequestKeeps ==
    ASSUME IInv, NEW p \in Peers, NEW r \in Ids, AddRequest(p, r) PROVE IInv'
<1>1. PICK s : s = Pruned(p)
  OBVIOUS
<1>2. PICK t : t = [s EXCEPT !.rows = @ \cup {r}, !.status[r] = "pending"]
  OBVIOUS
<1>3. PICK c : c = calls[p] \cup {Act("request", r)}
  OBVIOUS
<1>4. /\ from[r] = "nobody" /\ from' = [from EXCEPT ![r] = p] /\ Store(p, t)
      /\ calls' = [calls EXCEPT ![p] = c] /\ Place(p, "request", r)
      /\ UNCHANGED <<drain, expired, removals, restarts, acted, cut, world>>
  BY <1>1, <1>2, <1>3 DEF AddRequest, Call
<1>5. PeerFacts(p)
  BY PeerIsGood
<1>6. /\ GoodStore(p, s, Held(drain[p]), from) /\ Moves(s, peer[p], {}, {})
      /\ s.friends = peer[p].friends
  BY <1>1, <1>5, ParesMoves DEF PeerFacts
<1>7. from' \in [Ids -> Peers \cup {"nobody"}] /\ Later(from', from) /\ from'[r] = p
  BY <1>4, <1>5 DEF PeerFacts, Later
<1>8. /\ t \in PeerState /\ t.rows = s.rows \cup {r} /\ t.friends = s.friends
      /\ t.tomb = s.tomb /\ t.outbox = s.outbox
      /\ \A x \in Items : t.status[x] = s.status[x] \/ (x = r /\ t.status[x] = "pending")
  <2>1. StoreFields(s)
    BY <1>6, GoodFields
  <2>2. t = [rows |-> s.rows \cup {r}, friends |-> s.friends, tomb |-> s.tomb,
             status |-> [s.status EXCEPT ![r] = "pending"], outbox |-> s.outbox,
             chats |-> s.chats]
    <3>1. ASSUME NEW rows, NEW friends, NEW tomb, NEW status, NEW outbox, NEW chats,
                 s = [rows |-> rows, friends |-> friends, tomb |-> tomb, status |-> status,
                      outbox |-> outbox, chats |-> chats]
          PROVE  t = [rows |-> rows \cup {r}, friends |-> friends, tomb |-> tomb,
                      status |-> [status EXCEPT ![r] = "pending"], outbox |-> outbox,
                      chats |-> chats]
      BY <1>2, <3>1
    <3>2. QED
      BY <2>1, <3>1 DEF StoreFields
  <2>3. [s.status EXCEPT ![r] = "pending"] \in [Items -> Statuses]
    BY <2>1 DEF StoreFields, Statuses
  <2>4. \A x \in Items : [s.status EXCEPT ![r] = "pending"][x] = s.status[x]
                         \/ (x = r /\ [s.status EXCEPT ![r] = "pending"][x] = "pending")
    BY <2>1 DEF StoreFields
  <2>5. StoreFields(t)
    BY <2>1, <2>2, <2>3 DEF StoreFields
  <2>6. QED
    BY <2>2, <2>4, <2>5, StoreTyped
<1>9. GoodStore(p, t, Held(drain[p]), from')
  <2>1. r \in Ids \ (s.friends \cup s.tomb) /\ r \notin s.rows
    BY <1>4, <1>6 DEF GoodStore
  <2>2. \A x \in Ids : x # r => from'[x] = from[x]
    BY <1>4, <1>5 DEF PeerFacts
  <2>3. from'[r] # "nobody"
    BY <1>7, PeersFacts
  <2>4. "pending" \in Statuses \ {"queued"}
    BY DEF Statuses
  <2>5. ASSUME NEW frm2, frm2 = from' PROVE GoodStore(p, t, Held(drain[p]), frm2)
    BY <1>6, <1>8, <2>1, <2>2, <2>3, <2>4, <2>5, NewRowGood
  <2>6. QED
    BY <2>5
<1>10. Meant("request", r, from', acted')
  BY <1>7, PeersFacts DEF Meant, Lifecycle
<1>11. c \in SUBSET Deliveries /\ \A x \in c : Meant(x.kind, x.item, from', acted')
  BY <1>3, <1>4, <1>7, <1>10, CallFacts
<1>12. Grows
  <2>1. acted \subseteq acted' /\ acted' \subseteq Actions /\ expired' = expired /\ cut \subseteq cut'
        /\ cut' \subseteq Ids
    BY <1>4 DEF IInv, Shapes
  <2>2. QED
    BY <1>4, <1>7, <1>10, <2>1, PlacedGrows
<1>13. Moves(t, peer[p], {}, {}) /\ Adds(p, t, c)
  BY <1>4, <1>6, <1>8 DEF Moves, Adds
<1>14. \A x \in t.friends : Act("accept", x) \in acted'
  BY <1>4, <1>6, <1>8, FriendsKept
<1>15. \A act \in calls[p] : act \in acted =>
               \/ Carried(act, t, c)
               \/ PacketOf(p, act.kind, act.item) \in net'
               \/ act.item \in expired' \cup cut'
  BY <1>3, CallsStay
<1>16. StoreStep(p, t, c, {}, {})
  BY <1>4, <1>9, <1>11, <1>12, <1>13, <1>14, <1>15 DEF StoreStep
<1>17. QED
  BY <1>16, StoreMoves

\* An operation on a request that exists: its packet, and for a lifecycle action the record
\* that it was taken.
LEMMA ActsKeep ==
    ASSUME IInv, NEW p \in Peers, NEW k \in Lifecycle \cup {"request"}, NEW r \in Ids, NEW t,
           Store(p, t), Call(p, k, r), UNCHANGED <<drain, from, expired, cut>>, from[r] # "nobody",
           acted' = IF k = "request" THEN acted ELSE acted \cup {Act(k, r)},
           k # "request" => Actor(Act(k, r)) = p,
           GoodStore(p, t, Held(drain[p]), from), Moves(t, peer[p], {}, {}),
           \A x \in t.friends : Act("accept", x) \in acted'
    PROVE  IInv'
<1>1. PICK c : c = calls[p] \cup {Act(k, r)}
  OBVIOUS
<1>2. calls' = [calls EXCEPT ![p] = c] /\ Place(p, k, r)
  BY <1>1 DEF Call
<1>3. /\ from' \in [Ids -> Peers \cup {"nobody"}] /\ Later(from', from)
      /\ acted \subseteq acted' /\ acted' \subseteq Actions
      /\ expired' = expired /\ cut \subseteq cut' /\ cut' \subseteq Ids
  <2>1. k # "request" => Act(k, r) \in Actions
    BY DEF Act, Actions
  <2>2. QED
    BY <2>1 DEF Later, IInv, Shapes
<1>4. Meant(k, r, from', acted')
  BY DEF Meant, Lifecycle
<1>5. Grows
  BY <1>2, <1>3, <1>4, PlacedGrows
<1>6. c \subseteq Deliveries /\ \A x \in c : Meant(x.kind, x.item, from', acted')
  <2>1. c \in SUBSET Deliveries /\ \A x \in c : Meant(x.kind, x.item, from', acted')
    BY <1>1, <1>3, <1>4, CallFacts
  <2>2. QED
    BY <2>1
<1>7. Adds(p, t, c)
  <2> SUFFICES ASSUME NEW act \in acted' \ acted
               PROVE  from'[act.item] # "nobody" /\ Actor(act)' = p /\ Carried(act, t, c)
    BY DEF Adds
  <2>1. act = Act(k, r) /\ act.item = r /\ k # "request"
    BY DEF Act
  <2>2. Actor(act)' = Actor(act)
    BY DEF Actor
  <2>3. QED
    BY <1>1, <2>1, <2>2 DEF Carried
<1>8. \A act \in calls[p] : act \in acted =>
               \/ Carried(act, t, c)
               \/ PacketOf(p, act.kind, act.item) \in net'
               \/ act.item \in expired' \cup cut'
  BY <1>1, CallsStay
<1>9. GoodStore(p, t, Held(drain[p]), from')
  OBVIOUS
<1>10. StoreStep(p, t, c, {}, {})
  BY <1>2, <1>5, <1>6, <1>7, <1>8, <1>9 DEF StoreStep
<1>11. QED
  BY <1>10, StoreMoves

\* A row is of a request that was made, whoever holds it.
LEMMA RowsAreMade ==
    ASSUME NEW p, NEW s, NEW H, GoodStore(p, s, H, from), NEW r \in s.rows
    PROVE  r \in Ids /\ from[r] # "nobody"
<1>1. s.rows \in SUBSET Ids
  BY GoodFields DEF StoreFields
<1>2. QED
  BY <1>1 DEF GoodStore
LEMMA PrunedFacts ==
    ASSUME IInv, NEW p \in Peers, NEW s, s = Pruned(p)
    PROVE  /\ GoodStore(p, s, Held(drain[p]), from) /\ Moves(s, peer[p], {}, {})
           /\ s.friends = peer[p].friends
           /\ \A r \in s.rows : from[r] \in Peers
<1>1. PeerFacts(p)
  BY PeerIsGood
<1>2. /\ GoodStore(p, s, Held(drain[p]), from) /\ Moves(s, peer[p], {}, {})
      /\ s.friends = peer[p].friends
  BY <1>1, ParesMoves DEF PeerFacts
<1>3. \A r \in s.rows : from[r] \in Peers
  BY <1>1, <1>2, RowsAreMade DEF PeerFacts
<1>4. QED
  BY <1>2, <1>3

LEMMA MovesOn ==
    ASSUME NEW s, NEW t, NEW u, Moves(t, s, {}, {}), Pares(u, t) \/ u.outbox = t.outbox
    PROVE  Moves(u, s, {}, {})
BY DEF Moves, Pares

LEMMA RetryKeeps ==
    ASSUME IInv, NEW p \in Peers, NEW r \in Ids, Retry(p, r) PROVE IInv'
<1>1. PICK s : s = Pruned(p)
  OBVIOUS
<1>2. /\ r \in s.rows /\ Store(p, s) /\ Call(p, "request", r)
      /\ UNCHANGED <<drain, from, expired, removals, restarts, acted, cut, world>>
  BY <1>1 DEF Retry
<1>3. /\ GoodStore(p, s, Held(drain[p]), from) /\ Moves(s, peer[p], {}, {})
      /\ s.friends = peer[p].friends
  BY <1>1, PrunedFacts
<1>4. from[r] # "nobody"
  BY <1>2, <1>3, RowsAreMade
<1>5. \A x \in s.friends : Act("accept", x) \in acted'
  BY <1>2, <1>3, FriendsKept
<1>6. QED
  BY <1>2, <1>3, <1>4, <1>5, ActsKeep

LEMMA AcceptKeeps ==
    ASSUME IInv, NEW p \in Peers, NEW r \in Ids, Accept(p, r) PROVE IInv'
<1>1. PICK s : s = Pruned(p)
  OBVIOUS
<1>2. PICK t : t = Befriend(s, r)
  OBVIOUS
<1>3. /\ r \in s.rows /\ ~Outgoing(p, r) /\ Store(p, t) /\ Call(p, "accept", r)
      /\ acted' = acted \cup {Act("accept", r)}
      /\ UNCHANGED <<drain, from, expired, removals, restarts, cut, world>>
  BY <1>1, <1>2 DEF Accept
<1>4. /\ GoodStore(p, s, Held(drain[p]), from) /\ Moves(s, peer[p], {}, {})
      /\ s.friends = peer[p].friends /\ from[r] \in Peers
  BY <1>1, <1>3, PrunedFacts
<1>5. /\ GoodStore(p, t, Held(drain[p]), from) /\ t.friends = s.friends \cup {r}
      /\ t.outbox = s.outbox
  BY <1>2, <1>3, <1>4, BefriendGood
<1>6. from[r] # "nobody" /\ Actor(Act("accept", r)) = p
  <2>1. from[r] # p
    BY <1>3 DEF Outgoing
  <2>2. QED
    BY <1>4, <2>1, PeersFacts DEF Actor, Act
<1>7. \A x \in t.friends : Act("accept", x) \in acted'
  BY <1>3, <1>4, <1>5, FriendsKept
<1>8. Moves(t, peer[p], {}, {})
  BY <1>4, <1>5, MovesOn
<1>9. "accept" \in Lifecycle \cup {"request"} /\ "accept" # "request"
  BY DEF Lifecycle
<1>10. QED
  BY <1>3, <1>5, <1>6, <1>7, <1>8, <1>9, ActsKeep

LEMMA EndKeeps ==
    ASSUME IInv, NEW p \in Peers, NEW r \in Ids, NEW kind \in {"cancel", "decline"}, End(p, r, kind)
    PROVE  IInv'
<1>1. PICK s : s = Pruned(p)
  OBVIOUS
<1>2. PICK t : t = Terminalize(s, r, kind = "cancel")
  OBVIOUS
<1>3. /\ r \in s.rows /\ Outgoing(p, r) = (kind = "cancel") /\ Store(p, t) /\ Call(p, kind, r)
      /\ acted' = acted \cup {Act(kind, r)}
      /\ UNCHANGED <<drain, from, expired, removals, restarts, cut, world>>
  BY <1>1, <1>2 DEF End
<1>4. /\ GoodStore(p, s, Held(drain[p]), from) /\ Moves(s, peer[p], {}, {})
      /\ s.friends = peer[p].friends /\ from[r] \in Peers
  BY <1>1, <1>3, PrunedFacts
<1>5. kind # "cancel" => from[r] # p
  BY <1>3 DEF Outgoing
<1>6. GoodStore(p, t, Held(drain[p]), from) /\ Pares(t, s)
  <2>1. ASSUME NEW outgoing \in BOOLEAN, outgoing = (kind = "cancel")
        PROVE  GoodStore(p, t, Held(drain[p]), from) /\ Pares(t, s)
    <3>1. t = Terminalize(s, r, outgoing)
      BY <1>2, <2>1
    <3>2. ~outgoing => from[r] # p
      BY <1>5, <2>1
    <3>3. QED
      BY <1>3, <1>4, <3>1, <3>2, TerminalizeGood
  <2>2. QED
    BY <2>1
<1>7. from[r] # "nobody" /\ Actor(Act(kind, r)) = p
  <2>1. kind = "cancel" => from[r] = p
    BY <1>3 DEF Outgoing
  <2>2. QED
    BY <1>4, <1>5, <2>1, PeersFacts DEF Actor, Act
<1>8. \A x \in t.friends : Act("accept", x) \in acted'
  <2>1. t.friends = peer[p].friends
    BY <1>4, <1>6 DEF Pares
  <2>2. QED
    BY <1>3, <2>1, FriendsKept
<1>9. Moves(t, peer[p], {}, {})
  BY <1>4, <1>6, MovesOn
<1>10. kind \in Lifecycle \cup {"request"} /\ kind # "request"
  BY DEF Lifecycle
<1>11. QED
  BY <1>3, <1>6, <1>7, <1>8, <1>9, <1>10, ActsKeep

----------------------------------------------------------------------------
(* Steps that only change a store, and answers to deliveries.               *)

LEMMA LocalKeeps ==
    ASSUME IInv, NEW p \in Peers, NEW t, Store(p, t),
           UNCHANGED <<drain, calls, net, from, expired, acted, cut>>,
           GoodStore(p, t, Held(drain[p]), from), NEW X, Moves(t, peer[p], X, {}),
           \A e \in X : e.kind # "chat" => Meant(e.kind, e.item, from, acted),
           \A x \in t.friends : Act("accept", x) \in acted
    PROVE  IInv'
<1> DEFINE c == calls[p]
<1>1. calls' = [calls EXCEPT ![p] = c]
  BY DEF IInv, Shapes
<1>2. /\ c \subseteq Deliveries /\ \A x \in c : Meant(x.kind, x.item, from', acted')
  BY PeerIsGood DEF PeerFacts, GoodAt
<1>3. Grows
  BY NothingGrows DEF IInv, Shapes
<1>4. \A act \in calls[p] : act \in acted =>
               \/ Carried(act, t, c)
               \/ PacketOf(p, act.kind, act.item) \in net'
               \/ act.item \in expired' \cup cut'
  BY CallsStay
<1>5. Adds(p, t, c)
  BY DEF Adds
<1> HIDE DEF c
<1>6. StoreStep(p, t, c, X, {})
  BY <1>1, <1>2, <1>3, <1>4, <1>5 DEF StoreStep
<1>7. QED
  BY <1>6, StoreMoves

LEMMA FriendsAre ==
    ASSUME IInv, NEW p \in Peers
    PROVE  \A x \in peer[p].friends : Act("accept", x) \in acted
BY PeerIsGood DEF PeerFacts, GoodAt

LEMMA BlockKeeps ==
    ASSUME IInv, NEW p \in Peers, NEW r \in Ids, Block(p, r) PROVE IInv'
<1>1. PICK s : s = Pruned(p)
  OBVIOUS
<1>2. PICK t : t = Terminalize(s, r, FALSE)
  OBVIOUS
<1>3. /\ r \in s.rows /\ from[r] # p /\ Store(p, t)
      /\ UNCHANGED <<drain, calls, net, from, expired, acted, cut>>
  BY <1>1, <1>2 DEF Block, Outgoing
<1>4. /\ GoodStore(p, s, Held(drain[p]), from) /\ Moves(s, peer[p], {}, {})
      /\ s.friends = peer[p].friends
  BY <1>1, PrunedFacts
<1>5. GoodStore(p, t, Held(drain[p]), from) /\ Pares(t, s)
  BY <1>2, <1>3, <1>4, TerminalizeGood
<1>6. Moves(t, peer[p], {}, {})
  BY <1>4, <1>5, MovesOn
<1>7. \A x \in t.friends : Act("accept", x) \in acted
  <2>1. t.friends = peer[p].friends
    BY <1>4, <1>5 DEF Pares
  <2>2. QED
    BY <2>1, FriendsAre
<1>8. QED
  BY <1>3, <1>5, <1>6, <1>7, LocalKeeps

LEMMA RemoveFriendKeeps ==
    ASSUME IInv, NEW p \in Peers, NEW r \in Ids, RemoveFriend(p, r) PROVE IInv'
<1>1. PICK s : s = peer[p]
  OBVIOUS
<1>2. PICK t : t = Removed(s, r)
  OBVIOUS
<1>3. Store(p, t) /\ UNCHANGED <<drain, calls, net, from, expired, acted, cut>>
  BY <1>1, <1>2 DEF RemoveFriend, Removed
<1>4. GoodStore(p, s, Held(drain[p]), from)
  BY <1>1, PeerIsGood DEF PeerFacts
<1>5. GoodStore(p, t, Held(drain[p]), from) /\ t.friends \subseteq s.friends /\ t.outbox = s.outbox
  BY <1>2, <1>4, RemoveGood
<1>6. Moves(t, peer[p], {}, {})
  BY <1>1, <1>5 DEF Moves
<1>7. \A x \in t.friends : Act("accept", x) \in acted
  BY <1>1, <1>5, FriendsAre
<1>8. QED
  BY <1>3, <1>5, <1>6, <1>7, LocalKeeps

LEMMA QueueChatKeeps ==
    ASSUME IInv, NEW p \in Peers, QueueChat(p) PROVE IInv'
<1>1. PICK e : e = NewEntry(p, "chat", "chat")
  OBVIOUS
<1>2. PICK t : t = Enqueue(Mark([peer[p] EXCEPT !.chats = @ + 1], "chat", "queued"), e)
  OBVIOUS
<1>3. Store(p, t) /\ UNCHANGED <<drain, calls, net, from, expired, acted, cut>>
  BY <1>1, <1>2 DEF QueueChat
<1>4. GoodPass(drain[p]) /\ GoodStore(p, peer[p], Held(drain[p]), from)
  BY PeerIsGood DEF PeerFacts
<1>5. /\ GoodStore(p, t, Held(drain[p]), from) /\ Queues(t, peer[p], {e}, {})
      /\ e.kind = "chat"
  BY <1>1, <1>2, <1>4, ChatQueued
<1>6. Moves(t, peer[p], {e}, {}) /\ t.friends = peer[p].friends
  BY <1>5 DEF Queues, Moves
<1>7. \A x \in t.friends : Act("accept", x) \in acted
  BY <1>6, FriendsAre
<1>8. QED
  BY <1>3, <1>5, <1>6, <1>7, LocalKeeps

\* The store a packet leaves; only an acceptance makes a friend.
Heard(s, p, m) ==
    CASE m.kind = "request" -> OnRequest(s, m.item)
      [] m.kind = "accept" -> OnAccept(s, p, m.item)
      [] m.kind = "decline" -> OnDecline(s, p, m.item)
      [] m.kind = "cancel" -> OnCancel(s, p, m.item)
LEMMA HandlersGood ==
    ASSUME NEW p \in Peers, NEW s, NEW H, GoodStore(p, s, H, from),
           NEW m \in Packet, from[m.item] # "nobody", NEW t,
           t = Heard(s, p, m)
    PROVE  /\ GoodStore(p, t, H, from) /\ (Pares(t, s) \/ t.outbox = s.outbox)
           /\ t.friends \subseteq s.friends \cup (IF m.kind = "accept" THEN {m.item} ELSE {})
<1> DEFINE r == m.item
<1>1. r \in Ids /\ m.kind \in {"request", "accept", "decline", "cancel"}
  BY DEF Packet, Lifecycle
<1> HIDE DEF r
<1>2. CASE m.kind = "request"
  <2>1. t = OnRequest(s, r)
    BY <1>2 DEF r, Heard
  <2>2. CASE r \in s.tomb \/ s.friends # {} \/ s.rows # {} \/ r \in expired
    BY <2>1, <2>2 DEF OnRequest
  <2>3. CASE ~(r \in s.tomb \/ s.friends # {} \/ s.rows # {} \/ r \in expired)
    <3>1. PICK rows : rows = s.rows \cup {r}
      OBVIOUS
    <3>2. t = [s EXCEPT !.rows = rows] /\ s \in PeerState /\ rows \in SUBSET Ids
      <4>1. t = [s EXCEPT !.rows = rows]
        BY <2>1, <2>3, <3>1 DEF OnRequest
      <4>2. QED
        BY <1>1, <3>1, <4>1, GoodFields DEF StoreFields
    <3>3. /\ t \in PeerState /\ t.rows = rows
          /\ t.friends = s.friends /\ t.tomb = s.tomb /\ t.status = s.status
          /\ t.outbox = s.outbox
      <4>1. ASSUME NEW v, v = [s EXCEPT !.rows = rows]
            PROVE  /\ v \in PeerState /\ v.rows = rows
                   /\ v.friends = s.friends /\ v.tomb = s.tomb /\ v.status = s.status
                   /\ v.outbox = s.outbox
        BY <3>2, <4>1, WithRows
      <4>2. QED
        BY <3>2, <4>1, Zenon
    <3>4. r \in Ids \ (s.friends \cup s.tomb) /\ from[r] # "nobody"
      BY <1>1, <2>3 DEF r
    <3>5. "pending" \in Statuses \ {"queued"}
      BY DEF Statuses
    <3>6. \A x \in Items : t.status[x] = s.status[x] \/ (x = r /\ t.status[x] = "pending")
      BY <3>3
    <3>7. GoodStore(p, t, H, from)
      <4>1. \A x \in Ids : x # r => from[x] = from[x]
        OBVIOUS
      <4>2. r \in s.rows => from[r] = from[r]
        OBVIOUS
      <4>3. QED
        BY <3>1, <3>3, <3>4, <3>5, <3>6, <4>1, <4>2, NewRowGood
    <3>8. QED
      BY <3>3, <3>7
  <2>4. QED
    BY <2>2, <2>3
<1>3. CASE m.kind = "accept"
  <2>1. t = OnAccept(s, p, r)
    BY <1>3 DEF r, Heard
  <2>2. CASE r \in s.rows /\ Outgoing(p, r)
    <3>1. t = Befriend(s, r)
      BY <2>1, <2>2 DEF OnAccept
    <3>2. QED
      BY <1>3, <2>2, <3>1, BefriendGood DEF r
  <2>3. CASE ~(r \in s.rows /\ Outgoing(p, r))
    BY <2>1, <2>3 DEF OnAccept
  <2>4. QED
    BY <2>2, <2>3
<1>4. CASE m.kind = "decline"
  <2>1. t = OnDecline(s, p, r)
    BY <1>4 DEF r, Heard
  <2>2. CASE r \in s.rows /\ Outgoing(p, r)
    <3>1. t = Terminalize(s, r, TRUE)
      BY <2>1, <2>2 DEF OnDecline
    <3>2. GoodStore(p, t, H, from) /\ Pares(t, s)
      BY <2>2, <3>1, TerminalizeGood
    <3>3. QED
      BY <3>2 DEF Pares
  <2>3. CASE ~(r \in s.rows /\ Outgoing(p, r))
    BY <2>1, <2>3 DEF OnDecline
  <2>4. QED
    BY <2>2, <2>3
<1>5. CASE m.kind = "cancel"
  <2>1. t = OnCancel(s, p, r)
    BY <1>5 DEF r, Heard
  <2>2. CASE r \in s.rows /\ ~Outgoing(p, r)
    <3>1. t = Terminalize(s, r, FALSE) /\ from[r] # p
      BY <2>1, <2>2 DEF OnCancel, Outgoing
    <3>2. GoodStore(p, t, H, from) /\ Pares(t, s)
      BY <2>2, <3>1, TerminalizeGood
    <3>3. QED
      BY <3>2 DEF Pares
  <2>3. CASE r \in s.rows \cup s.friends /\ ~(r \in s.rows /\ ~Outgoing(p, r))
    BY <2>1, <2>3 DEF OnCancel
  <2>4. CASE r \notin s.rows \cup s.friends
    <3>1. t = [s EXCEPT !.tomb = @ \cup {r}]
      BY <2>1, <2>4 DEF OnCancel
    <3>2. r \in Ids \ (s.rows \cup s.friends) /\ from[r] # "nobody"
      BY <1>1, <2>4 DEF r
    <3>3. ASSUME NEW u, u = [s EXCEPT !.tomb = @ \cup {r}]
          PROVE  GoodStore(p, u, H, from) /\ Pares(u, s)
      BY <3>2, <3>3, NewTombGood
    <3>4. GoodStore(p, t, H, from) /\ Pares(t, s)
      BY <3>1, <3>3, Zenon
    <3>5. QED
      BY <3>4 DEF Pares
  <2>5. QED
    BY <2>2, <2>3, <2>4
<1>6. QED
  BY <1>1, <1>2, <1>3, <1>4, <1>5

LEMMA ReceiveKeeps ==
    ASSUME IInv, NEW m \in net, Receive(m) PROVE IInv'
<1>1. m \in Packet /\ m.to \in Peers /\ Meant(m.kind, m.item, from, acted)
  BY DEF IInv, Shapes, NetMeant, Packet
<1>2. PICK p \in Peers : p = m.to
  BY <1>1
<1>3. PICK s : s = Pruned(p)
  OBVIOUS
<1>4. PICK t : t = Heard(s, p, m)
  OBVIOUS
<1>5. Store(p, t) /\ UNCHANGED <<drain, calls, net, from, expired, acted, cut>>
  BY <1>2, <1>3, <1>4 DEF Receive, Heard
<1>6. /\ GoodStore(p, s, Held(drain[p]), from) /\ Moves(s, peer[p], {}, {})
      /\ s.friends = peer[p].friends
  BY <1>3, PrunedFacts
<1>7. from[m.item] # "nobody"
  BY <1>1 DEF Meant
<1>8. /\ GoodStore(p, t, Held(drain[p]), from) /\ (Pares(t, s) \/ t.outbox = s.outbox)
      /\ t.friends \subseteq s.friends \cup (IF m.kind = "accept" THEN {m.item} ELSE {})
  BY <1>1, <1>4, <1>6, <1>7, HandlersGood
<1>9. Moves(t, peer[p], {}, {})
  BY <1>6, <1>8, MovesOn
<1>10. m.kind = "accept" => Act("accept", m.item) \in acted
  BY <1>1 DEF Meant, Lifecycle
<1>11. \A x \in t.friends : Act("accept", x) \in acted
  BY <1>6, <1>8, <1>10, FriendsAre
<1>12. QED
  BY <1>5, <1>8, <1>9, <1>11, LocalKeeps

\* A delivery that ends: c is what p still awaits.
LEMMA ReturnsFacts ==
    ASSUME IInv, NEW p \in Peers, NEW k, NEW r, Returns(p, k, r)
    PROVE  /\ Act(k, r) \in calls[p] /\ k \in Lifecycle \cup {"request"} /\ r \in Ids
           /\ from[r] # "nobody" /\ net' = net
           /\ calls' = [calls EXCEPT ![p] = calls[p] \ {Act(k, r)}]
           /\ calls[p] \ {Act(k, r)} \subseteq Deliveries
           /\ \A x \in calls[p] : Meant(x.kind, x.item, from, acted)
<1>1. /\ calls[p] \subseteq Deliveries
      /\ \A x \in calls[p] : Meant(x.kind, x.item, from, acted)
  BY PeerIsGood DEF PeerFacts, GoodAt
<1>2. Act(k, r) \in calls[p] /\ Act(k, r).kind = k /\ Act(k, r).item = r
  BY DEF Returns, Act
<1>3. k \in Lifecycle \cup {"request"} /\ r \in Ids /\ from[r] # "nobody"
  BY <1>1, <1>2 DEF Deliveries, Meant
<1>4. QED
  BY <1>1, <1>2, <1>3 DEF Returns

LEMMA RequestReturnsKeeps ==
    ASSUME IInv, NEW p \in Peers, NEW r \in Ids, NEW ok \in BOOLEAN, RequestReturns(p, r, ok)
    PROVE  IInv'
<1>1. PICK t : t = Answered(p, r, ok)
  OBVIOUS
<1>2. PICK c : c = calls[p] \ {Act("request", r)}
  OBVIOUS
<1>3. /\ Store(p, t) /\ Returns(p, "request", r)
      /\ UNCHANGED <<drain, from, expired, removals, restarts, acted, cut, world>>
  BY <1>1 DEF RequestReturns
<1>4. /\ net' = net /\ calls' = [calls EXCEPT ![p] = c] /\ c \subseteq Deliveries
      /\ from[r] # "nobody" /\ \A x \in c : Meant(x.kind, x.item, from', acted')
  BY <1>2, <1>3, ReturnsFacts
<1>5. GoodPass(drain[p]) /\ GoodStore(p, peer[p], Held(drain[p]), from)
  BY PeerIsGood DEF PeerFacts
<1>6. PICK e : /\ e.kind = "request" /\ e.item = r
               /\ GoodStore(p, t, Held(drain[p]), from) /\ Queues(t, peer[p], {e}, {})
  BY <1>1, <1>5, AnsweredGood
<1>7. Grows
  BY <1>3, <1>4, NothingGrows DEF IInv, Shapes
<1>8. Moves(t, peer[p], {e}, {}) /\ t.friends = peer[p].friends
  BY <1>6 DEF Queues, Moves
<1>9. Meant(e.kind, e.item, from', acted')
  BY <1>3, <1>4, <1>6 DEF Meant, Lifecycle
<1>10. \A x \in t.friends : Act("accept", x) \in acted'
  BY <1>3, <1>8, FriendsAre
<1>11. \A act \in calls[p] : act \in acted =>
               \/ Carried(act, t, c)
               \/ PacketOf(p, act.kind, act.item) \in net'
               \/ act.item \in expired' \cup cut'
  <2> SUFFICES ASSUME NEW act \in calls[p], act \in acted PROVE Carried(act, t, c)
    OBVIOUS
  <2>1. act.kind # "request"
    BY DEF IInv, Shapes, Actions, Lifecycle
  <2>2. act # Act("request", r)
    BY <2>1 DEF Act
  <2>3. QED
    BY <1>2, <2>2 DEF Carried
<1>12. Adds(p, t, c) /\ GoodStore(p, t, Held(drain[p]), from')
  BY <1>3, <1>6 DEF Adds
<1>13. StoreStep(p, t, c, {e}, {})
  BY <1>3, <1>4, <1>7, <1>8, <1>9, <1>10, <1>11, <1>12 DEF StoreStep
<1>14. QED
  BY <1>13, StoreMoves

\* What a lifecycle action pushes out is about a request.
LEMMA PushedIsId ==
    ASSUME NEW s \in PeerState, NEW e, \A f \in Entries(s.outbox) : Fits(f)
    PROVE  PushedOut(s, e) \subseteq Ids
<1> SUFFICES ASSUME Len(s.outbox) >= OutboxCap, Ordinary(s.outbox) = {}
             PROVE  s.outbox[1].item \in Ids
  BY DEF PushedOut
<1>1. s.outbox \in Seq(Entry)
  BY StoreTyped DEF StoreFields
<1>2. 1 \in 1..Len(s.outbox)
  BY <1>1, QueueBounds
<1> DEFINE f == s.outbox[1]
<1>3. f \in Entry /\ f \in Entries(s.outbox) /\ IsLifecycle(f)
  BY <1>1, <1>2 DEF Entries, Ordinary
<1>4. Fits(f) /\ f.kind # "chat"
  BY <1>3 DEF IsLifecycle, Lifecycle
<1> HIDE DEF f
<1>5. QED
  BY <1>3, <1>4, EntryTyped DEF f

LEMMA ActionReturnsKeeps ==
    ASSUME IInv, NEW p \in Peers, NEW kind \in Lifecycle, NEW r \in Ids, NEW ok \in BOOLEAN,
           ActionReturns(p, kind, r, ok)
    PROVE  IInv'
<1>1. PICK e : e = NewEntry(p, kind, r)
  OBVIOUS
<1>2. PICK t : t = IF ok THEN peer[p] ELSE Enqueue(peer[p], e)
  OBVIOUS
<1>3. PICK c : c = calls[p] \ {Act(kind, r)}
  OBVIOUS
<1>4. PICK lost : lost = IF ok THEN {} ELSE PushedOut(peer[p], e)
  OBVIOUS
<1>5. /\ Store(p, t) /\ Returns(p, kind, r) /\ MayReport(p, kind, r, ok)
      /\ cut' = cut \cup lost
      /\ UNCHANGED <<drain, from, expired, removals, restarts, acted, world>>
  BY <1>1, <1>2, <1>4 DEF ActionReturns
<1>6. /\ net' = net /\ calls' = [calls EXCEPT ![p] = c] /\ c \subseteq Deliveries
      /\ \A x \in c : Meant(x.kind, x.item, from', acted')
      /\ Meant(kind, r, from, acted)
  <2>1. Act(kind, r).kind = kind /\ Act(kind, r).item = r
    BY DEF Act
  <2>2. QED
    BY <1>3, <1>5, <2>1, ReturnsFacts
<1>7. GoodPass(drain[p]) /\ GoodStore(p, peer[p], Held(drain[p]), from)
  BY PeerIsGood DEF PeerFacts
<1>8. /\ GoodStore(p, t, Held(drain[p]), from) /\ Queues(t, peer[p], {e}, lost)
      /\ e.kind = kind /\ e.item = r
      /\ ok \/ e \in Entries(t.outbox) \/ r \in lost
  <2>1. CASE ok
    <3>1. e.kind = kind /\ e.item = r
      BY <1>1 DEF NewEntry
    <3>2. t = peer[p]
      BY <1>2, <2>1
    <3>3. QED
      BY <1>7, <2>1, <3>1, <3>2 DEF Queues
  <2>2. CASE ~ok
    <3>1. t = Enqueue(peer[p], e) /\ lost = PushedOut(peer[p], e)
      BY <1>2, <1>4, <2>2
    <3>2. QED
      BY <1>1, <1>7, <3>1, ActionQueued
  <2>3. QED
    BY <2>1, <2>2
<1>9. lost \subseteq Ids
  BY <1>4, <1>7, PushedIsId DEF GoodStore
<1>10. Grows
  BY <1>5, <1>6, <1>9, NothingGrows DEF IInv, Shapes
<1>11. Moves(t, peer[p], {e}, lost) /\ t.friends = peer[p].friends
  BY <1>8 DEF Queues, Moves
<1>12. Meant(e.kind, e.item, from', acted')
  BY <1>5, <1>6, <1>8
<1>13. \A x \in t.friends : Act("accept", x) \in acted'
  BY <1>5, <1>11, FriendsAre
<1>14. \A act \in calls[p] : act \in acted =>
               \/ Carried(act, t, c)
               \/ PacketOf(p, act.kind, act.item) \in net'
               \/ act.item \in expired' \cup cut'
  <2> SUFFICES ASSUME NEW act \in calls[p]
               PROVE  \/ Carried(act, t, c)
                      \/ PacketOf(p, act.kind, act.item) \in net'
                      \/ act.item \in expired' \cup cut'
    OBVIOUS
  <2>1. CASE act = Act(kind, r)
    <3>1. act.kind = kind /\ act.item = r
      BY <2>1 DEF Act
    <3>2. ok => PacketOf(p, kind, r) \in net'
      BY <1>5, <1>6 DEF MayReport
    <3>3. QED
      BY <1>5, <1>8, <3>1, <3>2 DEF Carried
  <2>2. CASE act # Act(kind, r)
    BY <1>3, <2>2 DEF Carried
  <2>3. QED
    BY <2>1, <2>2
<1>15. Adds(p, t, c) /\ GoodStore(p, t, Held(drain[p]), from') /\ lost \subseteq cut'
  BY <1>5, <1>8 DEF Adds
<1>16. StoreStep(p, t, c, {e}, lost)
  BY <1>5, <1>6, <1>10, <1>11, <1>12, <1>13, <1>14, <1>15 DEF StoreStep
<1>17. QED
  BY <1>16, StoreMoves

----------------------------------------------------------------------------
(* Drains, time and restarts.                                               *)

\* The rest of the state when the walk w is taken and the delivery it stopped at begins.
LEMMA ProceedGrows ==
    ASSUME IInv, NEW p \in Peers, NEW d, GoodPass(d),
           d.cur # Nothing /\ d.cur.kind # "chat" => Meant(d.cur.kind, d.cur.item, from, acted),
           IF d.cur.kind \in {"none", "chat"} THEN UNCHANGED net
           ELSE Place(p, d.cur.kind, d.cur.item),
           UNCHANGED <<from, expired, acted>>, cut \subseteq cut', cut' \subseteq Ids
    PROVE  Grows
<1>1. CASE d.cur.kind \in {"none", "chat"}
  BY <1>1, NothingGrows DEF IInv, Shapes
<1>2. CASE d.cur.kind \notin {"none", "chat"}
  <2> DEFINE e == d.cur
  <2>1. e # Nothing /\ e.kind # "chat"
    BY <1>2 DEF Nothing
  <2>2. e \in Entry /\ e \in Held(d) /\ Fits(e)
    <3>1. e \in Entry /\ e \in Held(d)
      BY <2>1, PassFields
    <3>2. QED
      BY <3>1 DEF GoodPass
  <2>3. e.item \in Ids /\ e.kind \in Lifecycle \cup {"request"}
    <3>1. e.item \in Ids /\ e.kind \in Lifecycle \cup {"request", "chat"}
      BY <2>1, <2>2, EntryTyped
    <3>2. QED
      BY <2>1, <3>1
  <2>4. Place(p, e.kind, e.item) /\ Meant(e.kind, e.item, from, acted)
    BY <1>2, <2>1
  <2> HIDE DEF e
  <2>5. PICK k \in Lifecycle \cup {"request"}, r \in Ids : k = e.kind /\ r = e.item
    BY <2>3
  <2>6. Place(p, k, r) /\ Meant(k, r, from', acted')
    BY <2>4, <2>5
  <2>7. /\ from' \in [Ids -> Peers \cup {"nobody"}] /\ Later(from', from)
        /\ acted \subseteq acted' /\ acted' \subseteq Actions /\ expired' = expired
    BY DEF IInv, Shapes, Later
  <2>8. QED
    BY <2>6, <2>7, PlacedGrows
<1>3. QED
  BY <1>1, <1>2

\* p takes the walk w from the store s, after which the entries H may still be held.
Proceeds(p, w, s, H, uids) ==
    /\ Taken(p, w, s, H) /\ Honoured(w.pass, StillOwed(w, uids)) /\ uids \subseteq 1..MaxUid
    /\ peer' = [peer EXCEPT ![p] = w.store] /\ drain' = [drain EXCEPT ![p] = w.pass]
    /\ owed' = [owed EXCEPT ![p] = StillOwed(w, uids)]
    /\ IF w.pass.cur.kind \in {"none", "chat"} THEN UNCHANGED net
       ELSE Place(p, w.pass.cur.kind, w.pass.cur.item)
    /\ UNCHANGED <<calls, from, expired, acted>> /\ cut \subseteq cut' /\ cut' \subseteq Ids
    /\ s.friends = peer[p].friends
    /\ \A e \in Entries(s.outbox) \cup H : e.kind # "chat" => Meant(e.kind, e.item, from, acted)
    /\ \A act \in acted : \A f \in Entries(peer[p].outbox) : Alike(f, act) =>
         \/ \E e \in Entries(s.outbox) : Alike(e, act)
         \/ PacketOf(p, act.kind, act.item) \in net
         \/ act.item \in expired \cup cut'
LEMMA ProceedKeeps ==
    ASSUME IInv, NEW p \in Peers, NEW w, NEW s, NEW H, NEW uids, Proceeds(p, w, s, H, uids)
    PROVE  IInv'
<1> DEFINE d == w.pass
           c == calls[p]
           o == StillOwed(w, uids)
<1> USE DEF Proceeds
<1>1. GoodAt(p, peer[p], drain[p], c, owed[p], from, acted)
  BY PeerIsGood DEF PeerFacts
<1>2. /\ GoodPass(d) /\ GoodStore(p, w.store, Held(d), from)
      /\ Held(d) \subseteq Entries(s.outbox) \cup H /\ Pares(w.store, s)
  BY DEF Taken
<1>3. Changes(p, w.store, d, c, o)
  <2>1. calls = [x \in Peers |-> calls[x]]
    BY DEF IInv, Shapes
  <2>2. calls' = [calls EXCEPT ![p] = c]
    BY <2>1
  <2>3. QED
    BY <2>2 DEF Changes
<1>4. \A e \in Entries(w.store.outbox) \cup Held(d) :
        e.kind # "chat" => Meant(e.kind, e.item, from, acted)
  BY <1>2 DEF Pares
<1>5. Grows
  <2>1. d.cur # Nothing /\ d.cur.kind # "chat" => Meant(d.cur.kind, d.cur.item, from, acted)
    BY <1>4 DEF Held
  <2>2. /\ IF d.cur.kind \in {"none", "chat"} THEN UNCHANGED net
           ELSE Place(p, d.cur.kind, d.cur.item)
        /\ UNCHANGED <<from, expired, acted>> /\ cut \subseteq cut' /\ cut' \subseteq Ids
    OBVIOUS
  <2>3. ASSUME NEW b, b = d PROVE Grows
    BY <1>2, <2>1, <2>2, <2>3, ProceedGrows
  <2>4. QED
    BY <2>3
<1>6. GoodAt(p, w.store, d, c, o, from', acted')
  <2>1. o \subseteq 1..MaxUid /\ Honoured(d, o)
    BY DEF StillOwed
  <2>2. w.store.friends = peer[p].friends
    BY <1>2 DEF Pares
  <2>3. \A x \in w.store.friends : Act("accept", x) \in acted
    BY <2>2, FriendsAre
  <2>4. c \subseteq Deliveries /\ \A x \in c : Meant(x.kind, x.item, from, acted)
    BY <1>1 DEF GoodAt
  <2> HIDE DEF c, d, o
  <2>5. GoodAt(p, w.store, d, c, o, from, acted)
    BY <1>2, <1>4, <2>1, <2>3, <2>4 DEF GoodAt, d
  <2>6. QED
    BY <2>5
<1>7. Carries(p, w.store, c)
  <2> SUFFICES ASSUME NEW act \in acted, Carried(act, peer[p], calls[p])
               PROVE  \/ Carried(act, w.store, c)
                      \/ PacketOf(p, act.kind, act.item) \in net'
                      \/ act.item \in expired' \cup cut'
    BY DEF Carries
  <2>1. CASE act \in calls[p]
    BY <2>1 DEF Carried
  <2>2. CASE act \notin calls[p]
    <3>1. PICK f \in Entries(peer[p].outbox) : Alike(f, act)
      BY <2>2 DEF Carried, Alike
    <3>2. \/ \E e \in Entries(s.outbox) : Alike(e, act)
          \/ PacketOf(p, act.kind, act.item) \in net
          \/ act.item \in expired \cup cut'
      BY <3>1
    <3>3. CASE \E e \in Entries(s.outbox) : Alike(e, act)
      <4>1. PICK e \in Entries(s.outbox) : Alike(e, act)
        BY <3>3
      <4>2. IsLifecycle(e)
        BY <4>1 DEF IsLifecycle, Alike, IInv, Shapes, Actions
      <4>3. e \in Entries(w.store.outbox)
        BY <1>2, <4>1, <4>2 DEF Pares
      <4>4. QED
        BY <4>1, <4>3 DEF Carried, Alike
    <3>4. CASE PacketOf(p, act.kind, act.item) \in net \/ act.item \in expired \cup cut'
      BY <1>5, <3>4 DEF Grows
    <3>5. QED
      BY <3>2, <3>3, <3>4
  <2>3. QED
    BY <2>1, <2>2
<1>8. Adds(p, w.store, c)
  BY DEF Adds
<1> HIDE DEF c, d, o
<1>9. QED
  BY <1>3, <1>5, <1>6, <1>7, <1>8, PeerMoves

LEMMA RequestDrainKeeps ==
    ASSUME IInv, NEW p \in Peers, RequestDrain(p) PROVE IInv'
<1>1. PeerFacts(p)
  BY PeerIsGood
<1>2. cut \subseteq Ids
  BY DEF IInv, Shapes
<1>3. CASE drain[p].cur # Nothing
  <2> DEFINE b == [drain[p] EXCEPT !.again = TRUE]
             c == calls[p]
             o == Uids(peer[p].outbox)
  <2>1. /\ drain' = [drain EXCEPT ![p] = b] /\ owed' = [owed EXCEPT ![p] = o]
        /\ UNCHANGED <<peer, net, calls, from, expired, acted, cut>>
    <3>1. /\ drain' = [drain EXCEPT ![p].again = TRUE] /\ owed' = [owed EXCEPT ![p] = o]
          /\ UNCHANGED <<peer, net, calls, from, expired, acted, cut>>
      BY <1>3 DEF RequestDrain
    <3>2. QED
      BY <3>1
  <2>2. /\ b.cur = drain[p].cur /\ b.rest = drain[p].rest /\ b.again = TRUE /\ b \in DrainState
    BY <1>1 DEF PeerFacts, GoodPass, DrainState
  <2> HIDE DEF b
  <2>3. Held(b) = Held(drain[p])
    BY <2>2 DEF Held
  <2>4. GoodPass(b) /\ GoodStore(p, peer[p], Held(b), from)
    BY <1>1, <2>2, <2>3 DEF PeerFacts, GoodPass
  <2>5. Honoured(b, o)
    BY <1>3, <2>2 DEF Honoured
  <2>6. o \subseteq 1..MaxUid
    <3>1. Entries(peer[p].outbox) \subseteq Entry
      BY <1>1, GoodFields DEF PeerFacts
    <3>2. QED
      BY <3>1, UidsOf, EntryTyped
  <2> HIDE DEF o
  <2>7. GoodAt(p, peer[p], b, c, o, from', acted')
    BY <1>1, <2>1, <2>3, <2>4, <2>5, <2>6 DEF PeerFacts, GoodAt
  <2>8. Changes(p, peer[p], b, c, o)
    BY <2>1 DEF Changes, IInv, Shapes
  <2>9. Grows
    BY <2>1, NothingGrows DEF IInv, Shapes
  <2>10. Carries(p, peer[p], c) /\ Adds(p, peer[p], c)
    BY <2>1 DEF Carries, Adds
  <2> HIDE DEF c
  <2>11. QED
    BY <2>7, <2>8, <2>9, <2>10, PeerMoves
<1>4. CASE drain[p].cur = Nothing
  <2>1. PICK s : s = Pruned(p)
    OBVIOUS
  <2>2. PICK uids : uids = 1..MaxUid
    OBVIOUS
  <2>3. Proceed(p, Pass(p, s), uids) /\ UNCHANGED <<calls, from, expired, acted, cut>>
    BY <1>4, <2>1, <2>2 DEF RequestDrain
  <2>4. PICK w \in Pass(p, s) :
          /\ peer' = [peer EXCEPT ![p] = w.store] /\ drain' = [drain EXCEPT ![p] = w.pass]
          /\ owed' = [owed EXCEPT ![p] = StillOwed(w, uids)]
          /\ IF w.pass.cur.kind \in {"none", "chat"} THEN UNCHANGED net
             ELSE Place(p, w.pass.cur.kind, w.pass.cur.item)
    BY <2>3 DEF Proceed, StillOwed
  <2>5. GoodStore(p, s, Held(drain[p]), from) /\ Pares(s, peer[p])
    BY <1>1, <2>1 DEF PeerFacts
  <2>6. Taken(p, w, s, {}) /\ Honoured(w.pass, StillOwed(w, uids))
    BY <2>4, <2>5, PassGood
  <2>7. \A e \in Entries(s.outbox) \cup {} : e.kind # "chat" => Meant(e.kind, e.item, from, acted)
    BY <1>1, <2>5 DEF PeerFacts, GoodAt, Pares
  <2>8. \A act \in acted : \A f \in Entries(peer[p].outbox) : Alike(f, act) =>
           \/ \E e \in Entries(s.outbox) : Alike(e, act)
           \/ PacketOf(p, act.kind, act.item) \in net
           \/ act.item \in expired \cup cut'
    <3> SUFFICES ASSUME NEW act \in acted, NEW f \in Entries(peer[p].outbox), Alike(f, act)
                 PROVE  f \in Entries(s.outbox)
      OBVIOUS
    <3>1. IsLifecycle(f)
      BY DEF IsLifecycle, Alike, IInv, Shapes, Actions
    <3>2. QED
      BY <2>5, <3>1 DEF Pares
  <2>9. s.friends = peer[p].friends
    BY <2>5 DEF Pares
  <2>10. Proceeds(p, w, s, {}, uids)
    BY <1>2, <2>2, <2>3, <2>4, <2>6, <2>7, <2>8, <2>9 DEF Proceeds
  <2>11. QED
    BY <2>10, ProceedKeeps
<1>5. QED
  BY <1>3, <1>4

LEMMA EntryReturnsKeeps ==
    ASSUME IInv, NEW p \in Peers, NEW ok \in BOOLEAN, EntryReturns(p, ok) PROVE IInv'
<1>1. PICK e : e = drain[p].cur
  OBVIOUS
<1>2. PICK s : s = Handled(peer[p], e, ok)
  OBVIOUS
<1>3. PICK H : H = Held(drain[p])
  OBVIOUS
<1>4. PICK lost : lost = IF ok \/ GivenUp(e) THEN {} ELSE PushedOut(RemoveOutbox(peer[p], e.uid), e)
  OBVIOUS
<1>5. /\ e # Nothing /\ (e.kind # "chat" => MayReport(p, e.kind, e.item, ok))
      /\ Proceed(p, Onwards(p, s), owed[p]) /\ cut' = cut \cup lost
      /\ UNCHANGED <<calls, from, expired, acted>>
  BY <1>1, <1>2, <1>4 DEF EntryReturns
<1>6. PICK w \in Onwards(p, s) :
        /\ peer' = [peer EXCEPT ![p] = w.store] /\ drain' = [drain EXCEPT ![p] = w.pass]
        /\ owed' = [owed EXCEPT ![p] = StillOwed(w, owed[p])]
        /\ IF w.pass.cur.kind \in {"none", "chat"} THEN UNCHANGED net
           ELSE Place(p, w.pass.cur.kind, w.pass.cur.item)
  BY <1>5 DEF Proceed, StillOwed
<1>7. PeerFacts(p)
  BY PeerIsGood
<1>8. GoodPass(drain[p]) /\ GoodStore(p, peer[p], H, from) /\ peer[p] \in PeerState
  BY <1>3, <1>7 DEF PeerFacts, GoodStore
<1>9. e \in Entry /\ e \in H /\ Fits(e)
  <2>1. e \in Entry /\ e \in H
    BY <1>1, <1>3, <1>5, <1>8, PassFields
  <2>2. QED
    BY <1>3, <1>8, <2>1 DEF GoodPass
<1>10. GoodStore(p, s, H, from) /\ HandledAs(s, peer[p], e, ok \/ GivenUp(e), lost)
  BY <1>2, <1>4, <1>8, <1>9, HandledGood
<1>11. Taken(p, w, s, H) /\ Honoured(w.pass, StillOwed(w, owed[p]))
  <2>1. PICK d : d = drain[p]
    OBVIOUS
  <2>2. ~d.again => owed[p] \subseteq Uids(d.rest)
    BY <1>7, <2>1 DEF PeerFacts, GoodAt, Honoured
  <2>3. Taken(p, w, s, Held(d)) /\ Honoured(w.pass, StillOwed(w, owed[p]))
    BY <1>3, <1>6, <1>8, <1>10, <2>1, <2>2, OnwardsGood
  <2>4. QED
    BY <1>3, <2>1, <2>3
<1>12. lost \subseteq Ids
  <2>1. PICK u, id : id = e.uid /\ u = RemoveOutbox(peer[p], id)
    OBVIOUS
  <2>2. u \in PeerState /\ Entries(u.outbox) \subseteq Entries(peer[p].outbox)
    <3>1. PICK q \in PeerState : q = peer[p]
      BY <1>8
    <3>2. u \in PeerState /\ Entries(u.outbox) = {f \in Entries(q.outbox) : f.uid # id}
      BY <2>1, <3>1, RemovedFacts
    <3>3. QED
      BY <3>1, <3>2
  <2>3. \A f \in Entries(u.outbox) : Fits(f)
    BY <1>8, <2>2 DEF GoodStore
  <2>4. PushedOut(u, e) \subseteq Ids
    BY <2>2, <2>3, PushedIsId
  <2>5. QED
    BY <1>4, <2>1, <2>4
<1>13. \A g \in Entries(s.outbox) \cup H : g.kind # "chat" => Meant(g.kind, g.item, from, acted)
  <2>1. \A f \in Entries(peer[p].outbox) \cup H : f.kind # "chat" => Meant(f.kind, f.item, from, acted)
    BY <1>3, <1>7 DEF PeerFacts, GoodAt
  <2>2. ASSUME NEW g \in Entries(s.outbox), g.kind # "chat" PROVE Meant(g.kind, g.item, from, acted)
    <3>1. PICK f \in Entries(peer[p].outbox) \cup {e} : Alike(f, g)
      BY <1>10 DEF HandledAs
    <3>2. QED
      BY <1>9, <2>1, <2>2, <3>1 DEF Alike
  <2>3. QED
    BY <2>1, <2>2
<1>14. \A act \in acted : \A f \in Entries(peer[p].outbox) : Alike(f, act) =>
         \/ \E g \in Entries(s.outbox) : Alike(g, act)
         \/ PacketOf(p, act.kind, act.item) \in net
         \/ act.item \in expired \cup cut'
  <2> SUFFICES ASSUME NEW act \in acted, NEW f \in Entries(peer[p].outbox), Alike(f, act)
               PROVE  \/ \E g \in Entries(s.outbox) : Alike(g, act)
                      \/ PacketOf(p, act.kind, act.item) \in net
                      \/ act.item \in expired \cup cut'
    OBVIOUS
  <2>1. IsLifecycle(f) /\ f.item = act.item /\ f.kind = act.kind
    BY DEF IsLifecycle, Alike, IInv, Shapes, Actions
  <2>2. \/ \E g \in Entries(s.outbox) : Alike(f, g)
        \/ (ok \/ GivenUp(e)) /\ Alike(f, e)
        \/ f.item \in lost
    BY <1>10, <2>1 DEF HandledAs
  <2>3. CASE \E g \in Entries(s.outbox) : Alike(f, g)
    BY <2>3 DEF Alike
  <2>4. CASE ok /\ Alike(f, e)
    <3>1. e.kind = act.kind /\ e.item = act.item /\ e.kind # "chat"
      BY <2>1, <2>4 DEF Alike, IsLifecycle, Lifecycle
    <3>2. PacketOf(p, e.kind, e.item) \in net
      BY <1>5, <2>4, <3>1 DEF MayReport
    <3>3. QED
      BY <3>1, <3>2
  <2>5. CASE GivenUp(e) /\ Alike(f, e)
    <3>1. IsLifecycle(e) /\ e.item = act.item
      BY <2>1, <2>5 DEF Alike, IsLifecycle
    <3>2. QED
      BY <2>5, <3>1 DEF GivenUp
  <2>6. CASE f.item \in lost
    BY <1>5, <2>1, <2>6
  <2>7. QED
    BY <2>2, <2>3, <2>4, <2>5, <2>6
<1>15. s.friends = peer[p].friends
  BY <1>10 DEF HandledAs
<1>16. owed[p] \subseteq 1..MaxUid
  BY <1>7 DEF PeerFacts, GoodAt
<1>17. cut \subseteq cut' /\ cut' \subseteq Ids
  BY <1>5, <1>12 DEF IInv, Shapes
<1>18. Proceeds(p, w, s, H, owed[p])
  BY <1>5, <1>6, <1>11, <1>13, <1>14, <1>15, <1>16, <1>17 DEF Proceeds
<1>19. QED
  BY <1>18, ProceedKeeps

LEMMA ExpireKeeps == ASSUME IInv, NEW r \in Ids, Expire(r) PROVE IInv'
<1>1. /\ expired' = expired \cup {r}
      /\ UNCHANGED <<peer, drain, calls, net, from, owed, acted, cut>>
  BY DEF Expire
<1>2. Shapes' /\ AllGood' /\ NetMeant'
  <2>1. Shapes'
    BY <1>1 DEF IInv, Shapes
  <2>2. AllGood'
    <3> SUFFICES ASSUME NEW p \in Peers
                 PROVE  GoodAt(p, peer'[p], drain'[p], calls'[p], owed'[p], from', acted')
      BY DEF AllGood
    <3>1. GoodAt(p, peer[p], drain[p], calls[p], owed[p], from, acted)
      BY PeerIsGood DEF PeerFacts
    <3>2. QED
      BY <1>1, <3>1
  <2>3. NetMeant'
    BY <1>1 DEF IInv, NetMeant
  <2>4. QED
    BY <2>1, <2>2, <2>3
<1>3. AllBacked'
  <2> SUFFICES ASSUME NEW act \in acted PROVE from[act.item] # "nobody" /\ Backed(act)'
    BY <1>1 DEF AllBacked
  <2>1. from[act.item] # "nobody" /\ Backed(act)
    BY DEF IInv, AllBacked
  <2>2. Actor(act)' = Actor(act)
    BY <1>1 DEF Actor
  <2>3. QED
    BY <1>1, <2>1, <2>2 DEF Backed
<1>4. QED
  BY <1>2, <1>3 DEF IInv

LEMMA RestartKeeps == ASSUME IInv, NEW p \in Peers, Restart(p) PROVE IInv'
<1>1. PICK s : s = Pruned(p)
  OBVIOUS
<1>2. PICK lost : lost = {c.item : c \in {d \in calls[p] : d.kind \in Lifecycle}}
  OBVIOUS
<1>3. /\ peer' = [peer EXCEPT ![p] = s] /\ drain' = [drain EXCEPT ![p] = Idle]
      /\ calls' = [calls EXCEPT ![p] = {}] /\ owed' = [owed EXCEPT ![p] = {}]
      /\ cut' = cut \cup lost /\ UNCHANGED <<net, from, expired, acted>>
  BY <1>1, <1>2 DEF Restart
<1>4. PeerFacts(p)
  BY PeerIsGood
<1>5. GoodStore(p, s, Held(drain[p]), from) /\ Pares(s, peer[p])
  BY <1>1, <1>4 DEF PeerFacts
<1>6. Held(Idle) = {} /\ GoodPass(Idle) /\ Honoured(Idle, {})
  <2>1. Idle \in DrainState /\ Idle.rest = <<>> /\ Idle.cur = Nothing /\ ~Idle.again
    BY DEF Idle, DrainState
  <2>2. Held(Idle) = {}
    BY <2>1 DEF Held, Entries
  <2>3. QED
    BY <2>1, <2>2, QueueBounds DEF GoodPass, Honoured
<1>7. GoodStore(p, s, Held(Idle), from)
  <2>1. Coherent(Entries(s.outbox) \cup Held(drain[p]))
    BY <1>5 DEF GoodStore
  <2>2. Coherent(Entries(s.outbox) \cup Held(Idle))
    BY <1>6, <2>1, CoherentPart
  <2>3. QED
    BY <1>5, <2>2 DEF GoodStore
<1>8. GoodAt(p, s, Idle, {}, {}, from', acted')
  <2>1. \A e \in Entries(s.outbox) : e.kind # "chat" => Meant(e.kind, e.item, from, acted)
    BY <1>4, <1>5 DEF PeerFacts, GoodAt, Pares
  <2>2. \A x \in s.friends : Act("accept", x) \in acted
    BY <1>5, FriendsAre DEF Pares
  <2>3. QED
    BY <1>3, <1>6, <1>7, <2>1, <2>2 DEF GoodAt
<1>9. lost \subseteq Ids
  <2>1. calls[p] \subseteq Deliveries
    BY <1>4 DEF PeerFacts, GoodAt
  <2>2. QED
    BY <1>2, <2>1 DEF Deliveries
<1>10. Grows
  BY <1>3, <1>9, NothingGrows DEF IInv, Shapes
<1>11. Changes(p, s, Idle, {}, {})
  BY <1>3 DEF Changes
<1>12. Carries(p, s, {})
  <2> SUFFICES ASSUME NEW act \in acted, Carried(act, peer[p], calls[p])
               PROVE  Carried(act, s, {}) \/ act.item \in cut'
    BY DEF Carries
  <2>1. act.kind \in Lifecycle
    BY DEF IInv, Shapes, Actions
  <2>2. CASE act \in calls[p]
    BY <1>2, <1>3, <2>1, <2>2
  <2>3. CASE act \notin calls[p]
    <3>1. PICK f \in Entries(peer[p].outbox) : f.kind = act.kind /\ f.item = act.item
      BY <2>3 DEF Carried
    <3>2. f \in Entries(s.outbox)
      BY <1>5, <2>1, <3>1 DEF Pares, IsLifecycle
    <3>3. QED
      BY <3>1, <3>2 DEF Carried
  <2>4. QED
    BY <2>2, <2>3
<1>13. Adds(p, s, {})
  BY <1>3 DEF Adds
<1>14. QED
  BY <1>8, <1>10, <1>11, <1>12, <1>13, PeerMoves

LEMMA StepKeeps == ASSUME IInv, [Next]_vars PROVE IInv'
<1>1. CASE UserStep
  <2>1. ASSUME NEW p \in Peers, NEW r \in Ids,
               \/ AddRequest(p, r) \/ Retry(p, r) \/ Accept(p, r) \/ Cancel(p, r)
               \/ Decline(p, r) \/ Block(p, r) \/ RemoveFriend(p, r)
        PROVE  IInv'
    <3>1. CASE Cancel(p, r)
      BY <3>1, EndKeeps DEF Cancel
    <3>2. CASE Decline(p, r)
      BY <3>2, EndKeeps DEF Decline
    <3>3. QED
      BY <2>1, <3>1, <3>2, AddRequestKeeps, RetryKeeps, AcceptKeeps, BlockKeeps, RemoveFriendKeeps
  <2>2. QED
    BY <1>1, <2>1, QueueChatKeeps DEF UserStep
<1>2. CASE CallStep
  BY <1>2, RequestReturnsKeeps, ActionReturnsKeeps DEF CallStep
<1>3. CASE DrainStep
  BY <1>3, RequestDrainKeeps, EntryReturnsKeeps DEF DrainStep
<1>4. CASE \/ \E m \in net : Receive(m)
           \/ \E r \in Ids : Expire(r)
           \/ \E p \in Peers : Restart(p)
  BY <1>4, ReceiveKeeps, ExpireKeeps, RestartKeeps
<1>5. CASE UNCHANGED vars
  <2>1. UNCHANGED <<peer, drain, calls, net, from, expired, owed, acted, cut>>
    BY <1>5 DEF vars
  <2>2. Shapes' /\ AllGood' /\ NetMeant' /\ AllBacked'
    BY <2>1 DEF IInv, Shapes, AllGood, NetMeant, AllBacked, Backed, Actor, Other
  <2>3. QED
    BY <2>2 DEF IInv
<1>6. QED
  BY <1>1, <1>2, <1>3, <1>4, <1>5 DEF Next

LEMMA AlwaysIInv == Spec => []IInv
BY InitGood, StepKeeps, PTL DEF Spec

----------------------------------------------------------------------------
(* What it shows.                                                           *)

\* A request that was cancelled, declined, blocked or has expired at a peer is never a row
\* or a friend there again: every transition of native/state/store.ts that brings one in
\* consults the tombstones, and each that buries one takes it out of both.
THEOREM TombstonesStayFinal == Spec => []TombstonesAreFinal
<1>1. IInv => TombstonesAreFinal
  BY PeerIsGood DEF PeerFacts, GoodStore, TombstonesAreFinal
<1>2. QED
  BY <1>1, AlwaysIInv, PTL

\* Whoever holds a friend under a request, its recipient accepted that very request,
\* whatever copies of accepts, declines and cancels arrive late (handleFriendOp).
THEOREM FriendsConsented == Spec => []FriendsByConsent
<1>1. IInv => FriendsByConsent
  BY PeerIsGood DEF PeerFacts, GoodAt, FriendsByConsent
<1>2. QED
  BY <1>1, AlwaysIInv, PTL

\* nativeDrainOutbox, coalescing requests while a pass runs, leaves nothing unexamined that
\* was queued when a drain was last asked for.
THEOREM RequestsHonoured == Spec => []RequestsAreHonoured
<1>1. IInv => RequestsAreHonoured
  BY PeerIsGood DEF PeerFacts, GoodAt, Honoured, RequestsAreHonoured
<1>2. QED
  BY <1>1, AlwaysIInv, PTL

\* What is shown as queued is in the outbox, and an accept, decline or cancel the other side
\* has yet to learn of is on its way, awaited or in the outbox, unless the request is over,
\* the client restarted during the await or another such action pushed it out.
THEOREM PromisesBacked == Spec => []PromisesAreBacked
<1>1. IInv => PromisesAreBacked
  <2> SUFFICES ASSUME IInv PROVE PromisesAreBacked
    OBVIOUS
  <2>1. ASSUME NEW p \in Peers, NEW x \in Items, peer[p].status[x] = "queued"
        PROVE  \E i \in 1..Len(peer[p].outbox) :
                 peer[p].outbox[i].item = x /\ ~IsLifecycle(peer[p].outbox[i])
    <3>1. GoodStore(p, peer[p], Held(drain[p]), from)
      BY PeerIsGood DEF PeerFacts
    <3>2. PICK e \in Entries(peer[p].outbox) : e.item = x /\ ~IsLifecycle(e)
      BY <2>1, <3>1 DEF GoodStore
    <3>3. QED
      BY <3>2 DEF Entries
  <2>2. ASSUME NEW act \in acted
        PROVE  \/ PacketOf(Actor(act), act.kind, act.item) \in net
               \/ act \in calls[Actor(act)]
               \/ \E i \in 1..Len(peer[Actor(act)].outbox) :
                    /\ peer[Actor(act)].outbox[i].kind = act.kind
                    /\ peer[Actor(act)].outbox[i].item = act.item
               \/ act.item \in expired \cup cut
    <3>1. Backed(act)
      BY DEF IInv, AllBacked
    <3>2. QED
      BY <3>1 DEF Backed, Carried, Entries
  <2>3. QED
    BY <2>1, <2>2 DEF PromisesAreBacked
<1>2. QED
  BY <1>1, AlwaysIInv, PTL

\* The stores, passes and packets keep their types; among other things no outbox grows
\* beyond its cap (enqueueOutbox).
THEOREM TypesHold == Spec => []TypeOK
<1>1. IInv => TypeOK
  <2> SUFFICES ASSUME IInv PROVE TypeOK
    OBVIOUS
  <2>1. ASSUME NEW p \in Peers
        PROVE  /\ peer[p].rows \cup peer[p].friends \cup peer[p].tomb \subseteq Ids
               /\ peer[p].status \in [Items -> Statuses]
               /\ Len(peer[p].outbox) <= OutboxCap
               /\ \A i \in 1..Len(peer[p].outbox) : peer[p].outbox[i] \in Entry
               /\ \A c \in calls[p] : c.kind \in Lifecycle \cup {"request"} /\ c.item \in Ids
               /\ drain[p].cur \in Entry \cup {Nothing}
               /\ owed[p] \subseteq 1..MaxUid
    <3>1. GoodAt(p, peer[p], drain[p], calls[p], owed[p], from, acted)
      BY PeerIsGood DEF PeerFacts
    <3>2. GoodPass(drain[p]) /\ GoodStore(p, peer[p], Held(drain[p]), from)
      BY <3>1 DEF GoodAt
    <3>3. StoreFields(peer[p]) /\ drain[p].cur \in Entry \cup {Nothing}
      BY <3>2, GoodFields, PassFields
    <3>4. \A c \in calls[p] : c.kind \in Lifecycle \cup {"request"} /\ c.item \in Ids
      BY <3>1 DEF GoodAt, Deliveries
    <3>5. QED
      BY <3>1, <3>2, <3>3, <3>4 DEF GoodAt, GoodStore, StoreFields
  <2>2. \A act \in acted : act.kind \in Lifecycle /\ act.item \in Ids
    BY DEF IInv, Shapes, Actions
  <2>3. QED
    BY <2>1, <2>2 DEF TypeOK, IInv, Shapes
<1>2. QED
  BY <1>1, AlwaysIInv, PTL
=============================================================================
