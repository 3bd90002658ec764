----------------------------- MODULE BlobStore -----------------------------
(***************************************************************************)
(* The local store of encrypted attachment fragments (native/blobs/swarm.ts*)
(* 144-642): an IndexedDB database of fragments, manifests and one usage   *)
(* record, written through one promise chain, persistentWriteQueue.  An    *)
(* operation of the queue is several transactions with awaits in between.  *)
(*                                                                         *)
(* Every fragment counts as one byte.  Which fragments are the oldest is   *)
(* left open: stored_at is the wall clock, the same for a whole batch.     *)
(* The fallback to memory when there is no IndexedDB is not modelled.      *)
(***************************************************************************)
EXTENDS Integers, Sequences, SequencesExt, FiniteSets

CONSTANTS
    Blobs, Indices,     \* attachments, and the indices of their fragments
    Peers,              \* the others of the scope
    Self,               \* stands for the absent sponsor of a fragment of one's own
    Room,               \* MAX_LOCAL_CACHE_BYTES
    SponsorRoom,        \* MAX_REMOTE_SPONSOR_BYTES
    MaxSponsors         \* MAX_SPONSOR_ACCOUNTS

ASSUME SelfIsNoPeer == Self \notin Peers
ASSUME RoomsAreNat == Room \in Nat /\ SponsorRoom \in Nat /\ MaxSponsors \in Nat

VARIABLES
    cache,      \* the fragments, each with the peer that had it stored here
    manifests,  \* blobs that have a manifest
    usage,      \* the usage record: bytes in all, and for each sponsor
    queue,      \* persistentWriteQueue, oldest first, with the registers of each operation
    aborted     \* uploads whose signal has fired

storeVars == <<cache, manifests, usage, queue, aborted>>

Fragments == [blob : Blobs, index : Indices, sponsor : Peers \cup {Self}]
ASSUME FragmentsAreFinite == IsFiniteSet(Fragments)
Usages == [total : Int, by : [Peers -> Int]]
Nothing == [total |-> 0, by |-> [s \in Peers |-> 0]]

Has(c, b, i) == \E f \in c : f.blob = b /\ f.index = i
Complete(c, b) == \A i \in Indices : Has(c, b, i)
OfSponsor(c, s) == {f \in c : f.sponsor = s}
OfBlob(c, b) == {f \in c : f.blob = b}

\* An upload commits its fragments, a fetch files what it gathered, a peer has fragments
\* stored here, and a failed upload discards its own.
Kinds == {"commit", "file", "store", "discard"}
Steps == {"queued", "evict", "write", "dead"}
Operations ==
    [kind : Kinds, blob : Blobs, need : SUBSET Indices, sponsor : Peers \cup {Self},
     step : Steps, known : SUBSET Indices, seen : Usages]

Queued(kind, b, I, s) ==
    [kind |-> kind, blob |-> b, need |-> I, sponsor |-> s, step |-> "queued", known |-> {}, seen |-> Nothing]

StoreInit ==
    /\ cache = {} /\ manifests = {} /\ usage = Nothing
    /\ queue = <<>> /\ aborted = {}

----------------------------------------------------------------------------
(* The usage record. *)

Floor(n) == IF n < 0 THEN 0 ELSE n
Plus(u, F) ==
    [total |-> u.total + Cardinality(F),
     by |-> [s \in Peers |-> u.by[s] + Cardinality(OfSponsor(F, s))]]
Minus(u, F) ==
    [total |-> Floor(u.total - Cardinality(F)),
     by |-> [s \in Peers |-> Floor(u.by[s] - Cardinality(OfSponsor(F, s)))]]

Added(op) ==
    {[blob |-> op.blob, index |-> i, sponsor |-> op.sponsor] : i \in op.need \ op.known}

\* What a peer may still have stored here.
Affords(op, u) ==
    op.sponsor \in Peers =>
        /\ u.by[op.sponsor] + Cardinality(Added(op)) <= SponsorRoom
        /\ (Added(op) # {} /\ u.by[op.sponsor] = 0)
              => Cardinality({s \in Peers : u.by[s] # 0}) < MaxSponsors
Fits(op, u) == u.total + Cardinality(Added(op)) <= Room

\* What eviction removes: enough, or everything that is not of the batch being written.
Evictable(op) == {f \in cache : ~(f.blob = op.blob /\ f.index \in op.need)}
Victims(op) ==
    LET over == op.seen.total + Cardinality(Added(op)) - Room IN
    {V \in SUBSET Evictable(op) :
        Cardinality(V) = over \/ (V = Evictable(op) /\ Cardinality(V) < over)}

----------------------------------------------------------------------------
(* The write queue. *)

\* persistentWriteQueue.then(run): an operation starts when the ones before it have ended.
MayRunAtOnce(k) == TRUE
MayRun(k) == k = 1

\* run.then(() => undefined, () => undefined): a failure does not stop the queue.
AfterJammed(q, k, ok) == IF ok THEN RemoveAt(q, k) ELSE [q EXCEPT ![k].step = "dead"]
After(q, k, ok) == RemoveAt(q, k)

Enqueue(op) ==
    /\ queue' = Append(queue, op)
    /\ UNCHANGED <<cache, manifests, usage, aborted>>

Guarded(op) == op.kind = "commit" /\ op.blob \in aborted
AtStep(k, step) == k \in DOMAIN queue /\ MayRun(k) /\ queue[k].step = step

\* The guard is checked before each part, and aborts a transaction under way.
Cancelled(k) ==
    /\ k \in DOMAIN queue /\ MayRun(k) /\ queue[k].step # "dead" /\ Guarded(queue[k])
    /\ queue' = After(queue, k, FALSE)
    /\ UNCHANGED <<cache, manifests, usage, aborted>>

\* putLocalChunksUnlocked: what is already there, the usage, and the quotas.
Look(op) ==
    [op EXCEPT !.known = {i \in op.need : Has(cache, op.blob, i)}, !.seen = usage]
Begin(k) ==
    LET op == Look(queue[k]) IN
    /\ AtStep(k, "queued") /\ queue[k].kind # "discard" /\ ~Guarded(queue[k])
    /\ Affords(op, usage)
    /\ op.kind = "store" => Fits(op, usage)
    /\ queue' = [queue EXCEPT ![k] = [op EXCEPT !.step = IF Fits(op, usage) THEN "write" ELSE "evict"]]
    /\ UNCHANGED <<cache, manifests, usage, aborted>>
Refused(k) ==
    LET op == Look(queue[k]) IN
    /\ AtStep(k, "queued") /\ queue[k].kind # "discard" /\ ~Guarded(queue[k])
    /\ ~Affords(op, usage) \/ (op.kind = "store" /\ ~Fits(op, usage))
    /\ queue' = After(queue, k, FALSE)
    /\ UNCHANGED <<cache, manifests, usage, aborted>>

\* evictPersistentBytes: one transaction, which stays even when it did not free enough.
Evict(k) ==
    LET op == queue[k] IN
    /\ AtStep(k, "evict") /\ ~Guarded(op)
    /\ \E V \in Victims(op) :
         LET left == Minus(op.seen, V) IN
         /\ cache' = cache \ V
         /\ usage' = left
         /\ queue' = IF Fits(op, left) THEN [queue EXCEPT ![k].step = "write", ![k].seen = left]
                     ELSE After(queue, k, FALSE)
    /\ UNCHANGED <<manifests, aborted>>

\* Fragments, manifest and usage in one transaction.
Write(k) ==
    LET op == queue[k] IN
    /\ AtStep(k, "write") /\ ~Guarded(op)
    /\ cache' = {f \in cache : ~(f.blob = op.blob /\ f.index \in op.need \ op.known)} \cup Added(op)
    /\ manifests' = manifests \cup {op.blob}
    /\ usage' = IF Added(op) = {} THEN usage ELSE Plus(op.seen, Added(op))
    /\ queue' = After(queue, k, TRUE)
    /\ UNCHANGED aborted

\* discardLocalBlobUpload: one transaction that reads what it changes.
Discard(k) ==
    LET gone == IF queue[k].blob \in manifests THEN OfBlob(cache, queue[k].blob) ELSE {} IN
    /\ AtStep(k, "queued") /\ queue[k].kind = "discard"
    /\ cache' = cache \ gone
    /\ manifests' = manifests \ {queue[k].blob}
    /\ usage' = Minus(usage, gone)
    /\ queue' = After(queue, k, TRUE)
    /\ UNCHANGED aborted

\* Navigation, another identity, pagehide, or the caller's own signal.
Fire(b) ==
    /\ aborted' = aborted \cup {b}
    /\ UNCHANGED <<cache, manifests, usage, queue>>

\* The page is closed or crashes: the database stays, between two transactions.
Restarted ==
    /\ queue' = <<>> /\ aborted' = {}
    /\ UNCHANGED <<cache, manifests, usage>>

StoreStep(k) == Cancelled(k) \/ Begin(k) \/ Refused(k) \/ Evict(k) \/ Write(k) \/ Discard(k)
StoreNext ==
    \/ \E kind \in Kinds, b \in Blobs, I \in SUBSET Indices, s \in Peers \cup {Self} :
         Enqueue(Queued(kind, b, I, s))
    \/ \E k \in DOMAIN queue : StoreStep(k)
    \/ \E b \in Blobs : Fire(b)
    \/ Restarted

\* The store under every use of it.
StoreSpec == StoreInit /\ [][StoreNext]_storeVars

----------------------------------------------------------------------------
(* Safety. *)

\* The usage record says what the database holds, in all and for each peer, whatever runs,
\* is cancelled, fails or is cut short in between; and neither quota is exceeded.  The
\* record is a copy carried from one transaction to the next across awaits.
StoreIsAccounted ==
    /\ usage.total = Cardinality(cache) /\ usage.total <= Room
    /\ \A s \in Peers :
         usage.by[s] = Cardinality(OfSponsor(cache, s)) /\ usage.by[s] <= SponsorRoom
=============================================================================
