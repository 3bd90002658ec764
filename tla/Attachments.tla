---------------------------- MODULE Attachments ----------------------------
(***************************************************************************)
(* Attachments of one client (native/blobs/): uploading its own (uploadBlob*)
(* of blobs.ts), opening those of others (fetchBlobFromSwarm), repairing   *)
(* the copies of either (repairBlobReplicas of engine.ts, seedBlobSwarm),  *)
(* with the fragments kept here in BlobStore and at peers that may be      *)
(* silent, full, forgetful, or liars.                                      *)
(*                                                                         *)
(* Fragments are content-addressed: a wrong one is always recognised.  The *)
(* peers are members of the scope; as providers some may lie, but what they*)
(* ask to have stored here is what this code, running there, would ask.    *)
(* Support nodes are peers whose inventory every seeding asks for first; in*)
(* which order peers are then asked is left open.  A round stays below     *)
(* MAX_PARALLEL_REQUESTS and a peer's share of it below the batch limits,  *)
(* so that all its requests leave at once.                                 *)
(***************************************************************************)
EXTENDS BlobStore

CONSTANTS
    Mine, Theirs,   \* blobs this client uploads, and those it may open
    Target,         \* TARGET_REMOTE_COPIES
    MaxFailures,    \* MAX_PROVIDER_FAILURES
    Worlds          \* what a behaviour may be given: what peers hold at first, the liars,
                    \* the support nodes, and bounds on uploads, openings, faults,
                    \* stores by peers, repairs, audits and crashes

ASSUME TargetIsNat == Target \in Nat
ASSUME BlobsHaveOneSource == Blobs = Mine \cup Theirs /\ Mine \cap Theirs = {}
ASSUME WorldsAreSound ==
    \A w \in Worlds :
        /\ w.held \in [Peers -> SUBSET (Theirs \X Indices)]
        /\ w.liars \in SUBSET Peers /\ w.support \in SUBSET Peers
        /\ {w.uploads, w.opens, w.faults, w.stores, w.repairs, w.audits, w.crashes} \subseteq Nat

VARIABLES
    task,       \* what is being done with each blob
    health,     \* providerHealth
    held,       \* the fragments each peer holds
    liars,      \* peers that may serve wrong bytes and claim what they do not hold
    left        \* the world, with the bounds that are left

vars == <<storeVars, task, health, held, liars, left>>

Requests == [peer : Peers, want : {"ask", "store", "fetch", "audit"}, parts : SUBSET Indices]
UploadPhases == {"seeding", "committing", "committed", "failed", "undoing"}
FetchPhases == {"asking", "gathering", "filing", "filed"}
Busy == UploadPhases \cup FetchPhases \cup {"repairing"}
Resting == {"idle", "published", "gone", "lost", "opened", "unavailable", "unreadable", "seeded"}

\* done: the peers known to hold each fragment (acknowledgements, or holders); tried: the
\* peers it was assigned to (attempted); wave: the requests being awaited (parallelMap);
\* got: the fragments gathered, with where from; list: provider_peer_ids of the descriptor;
\* steady: the honest peers that could serve all along.
Tasks ==
    [phase : Busy \cup Resting, done : [Indices -> SUBSET Peers], tried : [Indices -> SUBSET Peers],
     wave : SUBSET Requests, got : SUBSET (Indices \X (Peers \cup {Self})),
     list : SUBSET Peers, steady : SUBSET Peers]

Nowhere == [i \in Indices |-> {}]
Fresh(phase, list, steady) ==
    [phase |-> phase, done |-> Nowhere, tried |-> Nowhere, wave |-> {}, got |-> {},
     list |-> list, steady |-> steady]

Init ==
    /\ StoreInit
    /\ left \in Worlds
    /\ held = left.held
    /\ liars = left.liars
    /\ task = [b \in Blobs |-> Fresh("idle", IF b \in Theirs THEN Peers ELSE {}, {})]
    /\ health = [p \in Peers |-> [failures |-> 0, paused |-> FALSE, distrusted |-> FALSE]]

Spend(what) == left[what] > 0 /\ left' = [left EXCEPT ![what] = @ - 1]

----------------------------------------------------------------------------
(* Provider health: recordProviderSuccess, recordProviderFailure, usableProvider. *)

Usable(p) == ~health[p].distrusted /\ ~health[p].paused
Praised(p) ==
    [health EXCEPT ![p] =
        [failures |-> Floor(@.failures - 1), paused |-> FALSE, distrusted |-> @.distrusted]]
Blamed(p) ==
    [health EXCEPT ![p] =
        [failures |-> @.failures + 1, paused |-> @.paused \/ @.failures + 1 >= MaxFailures,
         distrusted |-> @.distrusted]]

\* A fetch or an audit that brings no copy: not reachable is not corrupt.
NoCopyDistrusts(p, want) ==
    IF want = "audit" THEN [health EXCEPT ![p].distrusted = TRUE] ELSE Blamed(p)
NoCopy(p, want) == Blamed(p)

\* The pause is over: the next usableProvider clears it.
Recover(p) ==
    /\ health[p].paused
    /\ health' = [health EXCEPT ![p].failures = 0, ![p].paused = FALSE]
    /\ UNCHANGED <<storeVars, task, held, liars, left>>

----------------------------------------------------------------------------
(* Rounds of requests. *)

Dependable == {p \in Peers \ liars : Usable(p)}

\* The peers a fragment may be assigned to next.
UntriedFirst(t, i, pool) == IF t.tried[i] = {} THEN {p \in pool : Usable(p)} ELSE {}
Untried(t, i, pool) == {p \in pool \ t.tried[i] : Usable(p)}

Missing(t) == {i \in Indices : \A p \in Peers \cup {Self} : <<i, p>> \notin t.got}
Wants(t) ==
    IF t.phase = "gathering" THEN {i \in Missing(t) : Untried(t, i, t.done[i]) # {}}
    ELSE {i \in Indices : Cardinality(t.done[i]) < Target /\ Untried(t, i, Peers) # {}}

Asks(S) == {[peer |-> p, want |-> "ask", parts |-> {}] : p \in S}

\* One pass of the while loop: every fragment in want is assigned to one more peer.
Round(b) ==
    LET t == task[b] IN
    /\ t.phase \in {"seeding", "repairing", "gathering"} /\ t.wave = {} /\ b \notin aborted
    /\ Wants(t) # {}
    /\ \E pick \in [Wants(t) -> Peers] :
         /\ \A i \in Wants(t) : pick[i] \in Untried(t, i, IF t.phase = "gathering" THEN t.done[i] ELSE Peers)
         /\ task' = [task EXCEPT
               ![b].tried = [i \in Indices |-> IF i \in Wants(t) THEN @[i] \cup {pick[i]} ELSE @[i]],
               ![b].wave = {[peer |-> pick[i],
                             want |-> IF t.phase = "gathering" THEN "fetch" ELSE "store",
                             parts |-> {j \in Wants(t) : pick[j] = pick[i]}] : i \in Wants(t)}]
    /\ UNCHANGED <<storeVars, health, held, liars, left>>

\* The answer to a request of a wave ends it; a peer that is blamed is no longer steady,
\* for any blob: its health is one for all of them.
Heard(b, r, t) == task' = [task EXCEPT ![b] = [t EXCEPT !.wave = @ \ {r}]]
HeardNothing(b, r) ==
    task' = [c \in Blobs |->
        [task[c] EXCEPT !.steady = @ \ {r.peer}, !.wave = IF c = b THEN @ \ {r} ELSE @]]

At(p, b) == {i \in Indices : <<b, i>> \in held[p]}
Holding(t, I, p) == [i \in Indices |-> IF i \in I THEN t.done[i] \cup {p} ELSE t.done[i]]

\* sync.blob.inventory.
Listed(b, r) ==
    /\ r.want = "ask"
    /\ \E I \in IF r.peer \in liars THEN SUBSET Indices ELSE {At(r.peer, b)} :
         Heard(b, r, [task[b] EXCEPT !.done = Holding(task[b], I, r.peer)])
    /\ health' = Praised(r.peer)
    /\ UNCHANGED <<storeVars, held, liars, left>>

\* sync.blob.store: putLocalChunks takes the whole batch; a liar acknowledges any part of
\* it, whether or not it keeps it, and an empty part is neither a success nor a failure.
Stored(b, r) ==
    /\ r.want = "store"
    /\ \E J \in IF r.peer \in liars THEN SUBSET r.parts ELSE {r.parts} :
         /\ Heard(b, r, [task[b] EXCEPT !.done = Holding(task[b], J, r.peer)])
         /\ health' = IF J = {} THEN health ELSE Praised(r.peer)
    /\ \E I \in IF r.peer \in liars THEN {{}, r.parts} ELSE {r.parts} :
         held' = [held EXCEPT ![r.peer] = @ \cup ({b} \X I)]
    /\ UNCHANGED <<storeVars, liars, left>>

\* Copies that match the manifest are gathered; an audit only compares them.
Gathering(t, r, copies) ==
    [t EXCEPT !.got = @ \cup (IF r.want = "fetch" THEN (copies \cap Missing(t)) \X {r.peer} ELSE {})]

\* sync.blob.fetch: the copies the peer has.
Served(b, r) ==
    LET copies == r.parts \cap At(r.peer, b) IN
    /\ r.want \in {"fetch", "audit"}
    /\ IF copies = {} THEN HeardNothing(b, r) ELSE Heard(b, r, Gathering(task[b], r, copies))
    /\ health' = IF copies = {} THEN NoCopy(r.peer, r.want) ELSE Praised(r.peer)
    /\ UNCHANGED <<storeVars, held, liars, left>>

\* recordProviderInvalid: bytes that do not match the manifest, alone or among copies that do.
Corrupt(b, r) ==
    /\ r.want \in {"fetch", "audit"} /\ r.peer \in liars
    /\ \E copies \in SUBSET (r.parts \cap At(r.peer, b)) :
         LET judged == IF copies = {} THEN Blamed(r.peer) ELSE Praised(r.peer) IN
         /\ Heard(b, r, Gathering(task[b], r, copies))
         /\ health' = [judged EXCEPT ![r.peer].distrusted = TRUE]
    /\ UNCHANGED <<storeVars, held, liars, left>>

\* A refusal, a timeout, or a lost reply to a request that was carried out.
Silent(b, r) ==
    /\ Spend("faults")
    /\ HeardNothing(b, r)
    /\ \E I \in IF r.want = "store" THEN {{}, r.parts} ELSE {{}} :
         held' = [held EXCEPT ![r.peer] = @ \cup ({b} \X I)]
    /\ health' = Blamed(r.peer)
    /\ UNCHANGED <<storeVars, liars>>

Answer(b) ==
    \E r \in task[b].wave :
        /\ b \notin aborted
        /\ Listed(b, r) \/ Stored(b, r) \/ Served(b, r) \/ Corrupt(b, r) \/ Silent(b, r)

----------------------------------------------------------------------------
(* Uploading: RAM only until every round has ended, then committed, then published. *)

Move(b, phase) == task' = [task EXCEPT ![b].phase = phase]
Rest(b, phase, steady) == task' = [task EXCEPT ![b] = Fresh(phase, @.list, steady)]

\* seedBlobSwarm begins: the support nodes and the providers on the list are asked what they
\* hold already.
Seeding(b, phase, list) ==
    task' = [task EXCEPT ![b] =
        [Fresh(phase, list, Dependable) EXCEPT !.wave = Asks({p \in Peers : p \in left.support \cup list /\ Usable(p)})]]

\* uploadBlob; a fresh blob is on no list yet.
Attach(b) ==
    /\ b \in Mine /\ task[b].phase = "idle"
    /\ Spend("uploads")
    /\ Seeding(b, "seeding", {})
    /\ UNCHANGED <<storeVars, health, held, liars>>

\* The rounds are over: an upload is committed with the providers found, a repair is done.
Seeded(b) ==
    LET t == task[b] IN
    /\ t.phase \in {"seeding", "repairing"} /\ t.wave = {} /\ Wants(t) = {} /\ b \notin aborted
    /\ IF t.phase = "seeding"
       THEN /\ Enqueue(Queued("commit", b, Indices, Self))
            /\ task' = [task EXCEPT ![b].phase = "committing", ![b].tried = Nowhere,
                                    ![b].list = UNION {t.done[i] : i \in Indices}]
       ELSE UNCHANGED storeVars /\ task' = [task EXCEPT ![b].phase = "seeded", ![b].tried = Nowhere]
    /\ UNCHANGED <<health, held, liars, left>>

Publish(b) ==
    /\ task[b].phase = "committed" /\ b \notin aborted
    /\ Rest(b, "published", {})
    /\ UNCHANGED <<storeVars, health, held, liars, left>>

\* The user leaves the conversation, the identity changes, or the page is hidden.
Abort(b) ==
    /\ task[b].phase \in UploadPhases \ {"failed", "undoing"}
    /\ Fire(b)
    /\ UNCHANGED <<task, health, held, liars, left>>

\* What uploadBlob does with an error: roll back, whatever had been reached.
MustDiscardUnlessCommitted(t) == t.phase # "committed"
MustDiscard(t) == TRUE

\* Requests already handed over may still be carried out; nobody waits for them.
Unwind(b) ==
    LET t == task[b] IN
    /\ \/ t.phase = "failed"
       \/ t.phase \in {"seeding", "committed"} /\ b \in aborted
    /\ \E W \in SUBSET t.wave :
         held' = [p \in Peers |-> held[p] \cup UNION {{b} \X r.parts : r \in {x \in W : x.peer = p}}]
    /\ IF MustDiscard(t) THEN Enqueue(Queued("discard", b, {}, Self)) ELSE UNCHANGED storeVars
    /\ Rest(b, IF MustDiscard(t) THEN "undoing" ELSE "gone", {})
    /\ UNCHANGED <<health, liars, left>>

\* seedBlobSwarm without a guard, from a complete local copy: from the inventories on as for
\* an upload, with the providers of the descriptor.
Repair(b) ==
    /\ task[b].phase \in {"published", "opened"} /\ Complete(cache, b)
    /\ Spend("repairs")
    /\ Seeding(b, "repairing", task[b].list)
    /\ UNCHANGED <<storeVars, health, held, liars>>

----------------------------------------------------------------------------
(* Opening: the local copy, or every fragment from some holder, filed and read back. *)

Open(b) ==
    LET usable == {p \in Peers : Usable(p)} IN
    /\ b \in Theirs /\ task[b].phase \in {"idle", "unavailable", "unreadable", "opened"}
    /\ Spend("opens")
    /\ IF Complete(cache, b) THEN Rest(b, "opened", {})
       ELSE IF usable = {} THEN Rest(b, "unavailable", {})
       ELSE task' = [task EXCEPT ![b] =
              [Fresh("asking", @.list, {p \in Dependable : At(p, b) = Indices}) EXCEPT !.wave = Asks(usable)]]
    /\ UNCHANGED <<storeVars, health, held, liars>>

\* The inventories are in: what is here already counts as gathered.
Asked(b) ==
    /\ task[b].phase = "asking" /\ task[b].wave = {}
    /\ task' = [task EXCEPT ![b].phase = "gathering",
                            ![b].got = {i \in Indices : Has(cache, b, i)} \X {Self}]
    /\ UNCHANGED <<storeVars, health, held, liars, left>>

\* auditChunk: now and then a fragment just accepted is fetched from others as well.
Audit(b) ==
    LET t == task[b] IN
    /\ t.phase = "gathering" /\ t.wave = {}
    /\ Spend("audits")
    /\ \E g \in t.got :
         LET others == {p \in t.done[g[1]] \ {g[2]} : Usable(p)} IN
         /\ g[2] # Self /\ others # {}
         /\ \E A \in SUBSET others :
              /\ A = others \/ Cardinality(A) = 2
              /\ Cardinality(A) <= 2
              /\ task' = [task EXCEPT ![b].wave = {[peer |-> p, want |-> "audit", parts |-> {g[1]}] : p \in A}]
    /\ UNCHANGED <<storeVars, health, held, liars>>

Gathered(b) ==
    LET t == task[b] IN
    /\ t.phase = "gathering" /\ t.wave = {} /\ Wants(t) = {}
    /\ IF Missing(t) = {} THEN Enqueue(Queued("file", b, Indices, Self)) /\ Rest(b, "filing", {})
       ELSE UNCHANGED storeVars /\ Rest(b, "unavailable", t.steady)
    /\ UNCHANGED <<health, held, liars, left>>

ReadBack(b) ==
    /\ task[b].phase = "filed"
    /\ Move(b, IF Complete(cache, b) THEN "opened" ELSE "unreadable")
    /\ UNCHANGED <<storeVars, health, held, liars, left>>

----------------------------------------------------------------------------
(* The write queue, and whom its operations are for. *)

Told(op, ok) ==
    task' = [task EXCEPT ![op.blob].phase =
        CASE op.kind = "commit" -> IF ok THEN "committed" ELSE "failed"
          [] op.kind = "file" -> IF ok THEN "filed" ELSE "unreadable"
          [] op.kind = "discard" -> "gone"
          [] op.kind = "store" -> @]

StoreWorks(k) ==
    /\ \/ Begin(k) /\ UNCHANGED task
       \/ (Write(k) \/ Discard(k)) /\ Told(queue[k], TRUE)
       \/ (Cancelled(k) \/ Refused(k)) /\ Told(queue[k], FALSE)
       \/ Evict(k) /\ IF Fits(queue[k], usage') THEN UNCHANGED task ELSE Told(queue[k], FALSE)
    /\ UNCHANGED <<health, held, liars, left>>

----------------------------------------------------------------------------
(* The surroundings. *)

\* handleBlobSyncRequest: a peer has fragments of a blob stored here.  The handler takes those
\* of any manifest of the scope; that a blob is the peers' own, or published to them, before
\* they ask is an assumption about the code they run.
Asks4Room(p, b, I) ==
    /\ b \in Theirs \/ task[b].phase \in {"published", "repairing", "seeded"}
    /\ I # {} /\ Spend("stores")
    /\ Enqueue(Queued("store", b, I, p))
    /\ UNCHANGED <<task, health, held, liars>>

\* A peer evicts a fragment.
Forget(p, b, i) ==
    /\ <<b, i>> \in held[p] /\ Spend("faults")
    /\ held' = [held EXCEPT ![p] = @ \ {<<b, i>>}]
    /\ task' = [task EXCEPT ![b].steady = @ \ {p}]
    /\ UNCHANGED <<storeVars, health, liars>>

\* The page goes: of the tasks only a published descriptor survives, in its message.
Crash ==
    /\ Spend("crashes") /\ Restarted
    /\ task' = [b \in Blobs |->
          Fresh(IF task[b].phase \in {"published", "repairing", "seeded"} /\ b \in Mine THEN "published"
                ELSE IF task[b].phase \in UploadPhases THEN "lost"
                ELSE IF b \in Theirs THEN "idle" ELSE task[b].phase,
                task[b].list, {})]
    /\ health' = [p \in Peers |-> [failures |-> 0, paused |-> FALSE, distrusted |-> FALSE]]
    /\ UNCHANGED <<held, liars>>

\* What goes on by itself once a blob is being uploaded, repaired or opened.
Works(b) ==
    \/ Round(b) \/ Answer(b) \/ Seeded(b) \/ Publish(b) \/ Unwind(b)
    \/ Asked(b) \/ Gathered(b) \/ ReadBack(b)
QueueWorks == \E k \in DOMAIN queue : StoreWorks(k)

Next ==
    \/ \E b \in Blobs : Works(b) \/ Attach(b) \/ Abort(b) \/ Repair(b) \/ Open(b) \/ Audit(b)
    \/ QueueWorks
    \/ \E p \in Peers : Recover(p)
    \/ \E p \in Peers, b \in Blobs, I \in SUBSET Indices : Asks4Room(p, b, I)
    \/ \E p \in Peers, b \in Blobs, i \in Indices : Forget(p, b, i)
    \/ Crash

Spec == Init /\ [][Next]_vars

\* The promise chain runs on, and every request ends in an answer or a timeout.
FairSpec == Spec /\ WF_vars(QueueWorks) /\ \A b \in Blobs : WF_vars(Works(b))

----------------------------------------------------------------------------
(* Types and safety. *)

TypeOK ==
    /\ task \in [Blobs -> Tasks]
    /\ health \in [Peers -> [failures : Nat, paused : BOOLEAN, distrusted : BOOLEAN]]
    /\ held \in [Peers -> SUBSET (Blobs \X Indices)]
    /\ liars \in SUBSET Peers
    /\ cache \in SUBSET Fragments /\ manifests \in SUBSET Blobs /\ usage \in Usages
    /\ queue \in Seq(Operations) /\ aborted \in SUBSET Blobs

\* An upload that was cancelled or failed leaves nothing of itself here, at whatever moment
\* the signal fired: neither fragments, nor a manifest, nor an operation still to come.
CancelledLeavesNothing ==
    \A b \in Mine : task[b].phase = "gone" =>
        /\ OfBlob(cache, b) = {} /\ b \notin manifests
        /\ \A k \in DOMAIN queue : queue[k].blob # b

\* Only a peer that served wrong bytes is distrusted for good: silence, refusals and
\* fragments evicted between an inventory and an audit do not add up to it.
HonestKeepTrust == \A p \in Peers : health[p].distrusted => p \in liars

\* A peer that could serve all along was used: opening does not give up while one holds the
\* whole blob, and seeding stops short of Target copies only when all such peers have one.
SteadyPeersAreUsed ==
    \A b \in Blobs :
        /\ task[b].phase = "unavailable" => task[b].steady = {}
        /\ task[b].phase \in {"committing", "committed", "seeded"} =>
             \A i \in Indices :
                 Cardinality(task[b].done[i]) >= Target \/ task[b].steady \subseteq task[b].done[i]

(* Liveness. *)

\* Whatever peers do, and whatever fails in the store, everything begun comes to an end.
EveryTaskEnds == \A b \in Blobs : task[b].phase \in Busy ~> task[b].phase \in Resting
=============================================================================
