--------------------------- MODULE RoutedRequest ---------------------------
(***************************************************************************)
(* One routed request (native/sync/routedRequest.ts): the origin asks the  *)
(* target through ordinary peers (routeRequest and forwardRoutedRequest of *)
(* peersync.ts, the peer.route handler of inbound.ts).  Every peer forwards*)
(* an id once, to a few neighbours at a time, and answers with the first   *)
(* usable answer.  A hop is a callFamily: one attempt on the pooled stream,*)
(* and, when that times out or dies, the same bytes once more.             *)
(*                                                                         *)
(* Sealing and signatures are taken as sound: a copy differs from another  *)
(* only in its path.  Clocks differ between peers, and only whether the    *)
(* request has expired by a peer's own clock matters.                      *)
(***************************************************************************)
EXTENDS Naturals, Sequences, SequencesExt, FiniteSets

CONSTANTS
    Peers, Origin, Target,
    Worlds           \* what a behaviour may be given: the connections, as a set of pairs of
                     \* peers, max_hops (6), the fan-out (4), and a bound on the faults:
                     \* second attempts, full caches and restarts, together

ASSUME EndsDiffer == Origin \in Peers /\ Target \in Peers /\ Origin # Target
ASSUME WorldsAreSound == \A w \in Worlds : w.hops \in Nat /\ w.fanout \in Nat /\ w.faults \in Nat

VARIABLES
    world,      \* the one of Worlds that is the case
    result,     \* of routeRequest at the origin
    calls,      \* hops being awaited: [from, to, try]
    copies,     \* copies on their way, each named by its trail
    forwards,   \* copies being forwarded
    handled,    \* copies whose operation the target is performing
    replies,    \* answers on their way to a hop that awaits them
    seen,       \* seenRoutes: who has claimed the id
    expired,    \* by each peer's clock, as far as it has looked
    ran,        \* how often the target performed the operation in its present life
    faults,
    disturbed,  \* something happened that may keep an existing route from being found
    spoilt      \* the target was reached, and its answer is none the origin can use

net == <<calls, copies, forwards, handled, replies>>
vars == <<world, result, net, seen, expired, ran, faults, disturbed, spoilt>>

\* A trail: the peers a copy was sent to after the origin, each with the attempt.
Attempts == 1..2
Trails == UNION {[1..k -> Peers \X Attempts] : k \in 0..world.hops}
At(t) == IF t = <<>> THEN Origin ELSE Last(t)[1]
OnPath(t) == {Origin} \cup {t[i][1] : i \in DOMAIN t}
Neighbours(p) == {q \in Peers : {p, q} \in world.links}

Init ==
    /\ world \in Worlds
    /\ result = "none"
    /\ calls = {} /\ copies = {} /\ forwards = {} /\ handled = {} /\ replies = {}
    /\ seen = [p \in Peers |-> FALSE]
    /\ expired = [p \in Peers |-> FALSE]
    /\ ran = 0 /\ faults = 0 /\ disturbed = FALSE /\ spoilt = FALSE

Fault == faults < world.faults /\ faults' = faults + 1

----------------------------------------------------------------------------
(* Asking neighbours, and collecting their answers. *)

Candidates(t) == Neighbours(At(t)) \ OnPath(t)
\* A live connection to the target comes first, then others up to the fan-out.
Asked(t) ==
    {S \in SUBSET Candidates(t) :
        /\ Target \in Candidates(t) => Target \in S
        /\ \/ S = Candidates(t) /\ Cardinality(S) <= world.fanout
           \/ S # Candidates(t) /\ Cardinality(S) = world.fanout}

Sent(t, S) == {Append(t, <<q, 1>>) : q \in S}
Awaited(t, S) == {[from |-> t, to |-> q, try |-> 1] : q \in S}

\* firstNonNull: the first usable answer is the answer; without one, there is none when
\* every attempt has ended.
EndsNullAtFirst(rest, ok) == ~ok
EndsNullNever(rest, ok) == FALSE
EndsNull(rest, ok) == ~ok /\ rest = {}

\* The awaiting code at t goes on with one of its hops ended, and what t was forwarding is
\* answered in turn.  The other hops are not cancelled: they end later, and are ignored.
Hop(t) == [from |-> Front(t), to |-> Last(t)[1], try |-> Last(t)[2]]
Awaiting(rs, cs) == {r \in rs : Hop(r.trail) \in cs}
Collect(t, c, ok) ==
    LET rest == {d \in calls \ {c} : d.from = t}
        awaits == IF t = <<>> THEN result = "asked" ELSE t \in forwards
        over == awaits /\ (ok \/ EndsNull(rest, ok)) IN
    /\ calls' = calls \ {c}
    /\ forwards' = IF over THEN forwards \ {t} ELSE forwards
    /\ result' = IF over /\ t = <<>> THEN (IF ok THEN "ok" ELSE "null") ELSE result
    /\ replies' = Awaiting(replies \cup (IF over /\ t # <<>> THEN {[trail |-> t, ok |-> ok]} ELSE {}), calls \ {c})

\* routeRequest.
Route ==
    /\ result = "none"
    /\ \E S \in Asked(<<>>) :
         /\ calls' = Awaited(<<>>, S)
         /\ copies' = Sent(<<>>, S)
         /\ result' = IF S = {} THEN "null" ELSE "asked"
         /\ disturbed' = (S # Candidates(<<>>))
    /\ UNCHANGED <<world, forwards, handled, replies, seen, expired, ran, faults, spoilt>>

\* The response of a hop.  Routers pass a sealed answer on; the origin opens it, and cannot
\* when its identity has been reset, or when what the target sealed is no value.
Answered(r) ==
    /\ \E ok \in BOOLEAN :
         /\ ok # r.ok => r.ok /\ Front(r.trail) = <<>>
         /\ Collect(Front(r.trail), Hop(r.trail), ok)
         /\ spoilt' = (spoilt \/ ok # r.ok)
    /\ UNCHANGED <<world, copies, handled, seen, expired, ran, faults, disturbed>>

\* A silent or broken stream: the same bytes once more, then the hop has failed.
Again(c) ==
    /\ c.try = 1 /\ Fault
    /\ calls' = (calls \ {c}) \cup {[c EXCEPT !.try = 2]}
    /\ copies' = copies \cup {Append(c.from, <<c.to, 2>>)}
    /\ replies' = Awaiting(replies, calls')
    /\ UNCHANGED <<forwards, result>>
Fails(c) ==
    /\ Collect(c.from, c, FALSE)
    /\ UNCHANGED <<copies, faults>>
Timeout(c) ==
    /\ Again(c) \/ Fails(c)
    /\ disturbed' = TRUE
    /\ UNCHANGED <<world, handled, seen, expired, ran, spoilt>>

----------------------------------------------------------------------------
(* The handler of peer.route at the peer a copy was sent to.  The clock is read by *)
(* verifyRoutedRequest, by claimRoutedRequest, which first forgets what has        *)
(* expired, and once more by openRoutedRequest at the target.                      *)

Claimable(n, late) == ~seen[n] \/ late
OpensLate(late) == TRUE
Opens(late) == ~late
AtLimit(t) == Len(t) >= world.hops

Reply(t, ok) == replies' = Awaiting(replies \cup {[trail |-> t, ok |-> ok]}, calls)
Refuse(t) == Reply(t, FALSE) /\ UNCHANGED <<calls, forwards, handled, ran>> /\ copies' = copies \ {t}

\* invalid_route: expired, or the id is claimed, or MAX_SEEN_ROUTES others are.
Invalid(t, n, checked, claiming) ==
    /\ \/ checked /\ disturbed' = TRUE /\ UNCHANGED <<seen, faults>>
       \/ ~checked /\ ~Claimable(n, claiming) /\ UNCHANGED <<seen, disturbed, faults>>
       \/ ~checked /\ seen' = [seen EXCEPT ![n] = @ /\ ~claiming] /\ disturbed' = TRUE /\ Fault
    /\ Refuse(t) /\ UNCHANGED spoilt

\* At the target: route_decrypt_failed, because the request has expired by now or for any
\* other reason, or the operation is dispatched.
Perform(t, n, opening) ==
    /\ n = Target
    /\ \/ /\ Opens(opening)
          /\ ran' = ran + 1
          /\ handled' = handled \cup {t}
          /\ copies' = copies \ {t}
          /\ UNCHANGED <<calls, forwards, replies, spoilt>>
       \/ /\ Refuse(t)
          /\ spoilt' = TRUE
    /\ UNCHANGED disturbed

\* forwardRoutedRequest: hop_limit, no_route, or a copy to each neighbour asked.
Forward(t, n) ==
    /\ n # Target
    /\ \/ /\ AtLimit(t)
          /\ Refuse(t)
          /\ disturbed' = TRUE
       \/ /\ ~AtLimit(t)
          /\ \E S \in Asked(t) :
               /\ calls' = calls \cup Awaited(t, S)
               /\ copies' = (copies \ {t}) \cup Sent(t, S)
               /\ forwards' = IF S = {} THEN forwards ELSE forwards \cup {t}
               /\ IF S = {} THEN Reply(t, FALSE) ELSE UNCHANGED replies
               /\ disturbed' = (disturbed \/ S # Candidates(t))
          /\ UNCHANGED <<handled, ran>>
    /\ UNCHANGED spoilt

Receive(t) ==
    LET n == At(t) IN
    \E checked, claiming, opening \in BOOLEAN :
       /\ expired[n] => checked
       /\ checked => claiming
       /\ claiming => opening
       /\ expired' = [expired EXCEPT ![n] = opening]
       /\ \/ Invalid(t, n, checked, claiming)
          \/ /\ ~checked /\ Claimable(n, claiming)
             /\ seen' = [seen EXCEPT ![n] = TRUE]
             /\ Perform(t, n, opening) \/ Forward(t, n)
             /\ UNCHANGED faults
       /\ UNCHANGED <<world, result>>

\* The operation has run and its result is sealed for the origin; or it threw
\* (handler_error), or its result cannot be sealed: it is too large, it is no JSON, or the
\* identity is gone (route_response_failed).
Performed(t) ==
    /\ handled' = handled \ {t}
    /\ \E ok \in BOOLEAN : Reply(t, ok) /\ spoilt' = (spoilt \/ ~ok)
    /\ UNCHANGED <<world, result, calls, copies, forwards, seen, expired, ran, faults, disturbed>>

\* A peer's tab is reloaded (resetRouteIdentity): its cache, its streams and what it was
\* doing are gone.
Restart(n) ==
    /\ n # Origin /\ Fault
    /\ seen' = [seen EXCEPT ![n] = FALSE]
    /\ calls' = {c \in calls : At(c.from) # n}
    /\ replies' = Awaiting(replies, calls')
    /\ copies' = {t \in copies : At(t) # n}
    /\ forwards' = {t \in forwards : At(t) # n}
    /\ handled' = IF n = Target THEN {} ELSE handled
    /\ ran' = IF n = Target THEN 0 ELSE ran
    /\ disturbed' = TRUE
    /\ UNCHANGED <<world, result, expired, spoilt>>

----------------------------------------------------------------------------

Next ==
    \/ Route
    \/ \E r \in replies : Answered(r)
    \/ \E c \in calls : Timeout(c)
    \/ \E t \in copies : Receive(t)
    \/ \E t \in handled : Performed(t)
    \/ \E n \in Peers : Restart(n)

Spec == Init /\ [][Next]_vars

\* Every attempt of a call has a timer (REQUEST_TIMEOUT_MS); nobody owes an answer.
FairSpec == Spec /\ WF_vars(\E c \in calls : Timeout(c))

----------------------------------------------------------------------------
(* Properties. *)

AwaitedHops == [from : Trails, to : Peers, try : Attempts]
\* Types; no copy travels further than the hop limit.
TypeOK ==
    /\ world \in Worlds
    /\ result \in {"none", "asked", "ok", "null"}
    /\ calls \subseteq AwaitedHops
    /\ copies \subseteq Trails \ {<<>>}
    /\ forwards \subseteq Trails \ {<<>>} /\ handled \subseteq Trails \ {<<>>}
    /\ replies \subseteq [trail : Trails \ {<<>>}, ok : BOOLEAN]
    /\ seen \in [Peers -> BOOLEAN] /\ expired \in [Peers -> BOOLEAN]
    /\ ran \in Nat /\ faults \in 0..world.faults
    /\ disturbed \in BOOLEAN /\ spoilt \in BOOLEAN

\* "Claim one routed id at this hop to stop loops and fan-out replays": however many copies
\* reach the target, over whatever paths and attempts, and though the cache forgets
\* expired ids and the clock moves while a copy is examined, one life of the target
\* performs the operation once.
HandledOnce == ran <= 1

\* When no timer fired, nothing expired on the way and no limit cut the search, "no route"
\* means that no chain of connections leads to the target, although every peer asks only
\* once and refuses whoever asks it next; or else that the target itself was reached and
\* had no answer the origin can use, which the code reports by the same null.
Separated ==
    \E S \in SUBSET Peers :
        /\ Origin \in S /\ Target \notin S
        /\ \A p \in S : Neighbours(p) \subseteq S
NullMeansNoRoute == (result = "null" /\ ~disturbed) => Separated \/ spoilt

\* "Resolve as soon as one bounded route branch produces a usable answer": and otherwise
\* still, although the branches wait for each other and any of them may be silent.
EveryRouteEnds == result = "asked" ~> result \in {"ok", "null"}
=============================================================================
