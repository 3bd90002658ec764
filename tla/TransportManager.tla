-------------------------- MODULE TransportManager --------------------------
(***************************************************************************)
(* The relay connection of one client: XoreinTransportManager of           *)
(* native/transport/manager.ts with the relay list of relays.ts.  One      *)
(* libp2p node is kept; attempts to reserve a circuit on a relay are made  *)
(* at the start, by timers after a loss, when a relay is discovered and    *)
(* when the user selects another node, and all of them await.  The relays, *)
(* the local support node and the library's events are the environment.    *)
(***************************************************************************)
EXTENDS Naturals, Sequences, SequencesExt, FiniteSets

CONSTANTS
    Relays,         \* relays, each with the address that names its peer
    None,           \* no relay
    Configured,     \* resolveRelayList: the configured relays, in order
    MaxDiscovered,  \* MAX_DISCOVERED_RELAYS
    MaxTimers,      \* bound: reconnect timers
    Scenarios       \* what may happen: see Scenario

\* Whether the engine stops the manager, and bounds: selections of another node by the
\* user, changes of the relays (or failures to create the node), discoveries.
Scenario == [stops : BOOLEAN, selections : Nat, changes : Nat, discoveries : Nat]

ASSUME NoneIsNoRelay == None \notin Relays
ASSUME BuiltIn == Configured \in Seq(Relays) /\ Configured # <<>>
ASSUME Bounds == MaxDiscovered \in Nat \ {0} /\ MaxTimers \in Nat
ASSUME ScenariosOK == Scenarios \subseteq Scenario

VARIABLES
    scenario,     \* the scenario of this behaviour; only its counters go down
    running, state,
    node,      \* this.node: none, live, or being stopped
    att,       \* the connectOnce at work (connecting), and who awaits it
    queued,    \* reconnectRequested, replaceRelayOnNextAttempt
    active, last,     \* activeRelay, lastRelayPeerId
    discovered,       \* discoveredRelays, oldest first
    timers,           \* reconnect timers set
    selected,  \* the relay of the support node the user has selected, if it is local
    status,    \* status[r]: grants reservations, answers dials only, or is down
    conns,     \* relays the node has a connection to
    events,    \* connection:close and peer:disconnect, not delivered yet
    \* history:
    good,      \* the selected relay is up and its node has answered since it was selected
    working    \* the relay that was held when the attempt began and has been up since

manager == <<running, state, node, att, queued, active, last, discovered, timers>>
env == <<selected, status, conns, events>>
managerVars == <<scenario, manager, env, good, working>>

Maybe == Relays \cup {None}
Attempt == [stage : {"idle", "resolving", "creating", "dialing", "hanging", "reserving"},
            list : Seq(Relays), replace : BOOLEAN, awaited : {"none", "start", "timer"},
            asks : Maybe, previous : Maybe]
NoAttempt == [stage |-> "idle", list |-> <<>>, replace |-> FALSE, awaited |-> "none", asks |-> None,
         previous |-> None]

ManagerTypeOK ==
    /\ scenario \in Scenario
    /\ running \in BOOLEAN /\ queued \in BOOLEAN
    /\ state \in {"disconnected", "connecting", "connected"}
    /\ node \in {"none", "live", "stopping"}
    /\ att \in Attempt
    /\ active \in Maybe /\ last \in Maybe /\ selected \in Maybe /\ working \in Maybe
    /\ discovered \in Seq(Relays) /\ IsInjective(discovered) /\ Len(discovered) <= MaxDiscovered
    /\ timers \in 0..MaxTimers
    /\ status \in [Relays -> {"up", "full", "down"}]
    /\ conns \subseteq Relays /\ events \subseteq Relays \X {"close", "gone"}
    /\ good \in BOOLEAN

\* connectOnce to its first await, resolveRelayListAsync, which asks the support node
\* selected at that moment.
Began(replace, by, sel) ==
    [NoAttempt EXCEPT !.stage = "resolving", !.replace = replace, !.awaited = by, !.asks = sel]

\* Just after start(), which the engine calls once.
ManagerInit ==
    /\ scenario \in Scenarios
    /\ selected \in Maybe /\ status = [r \in Relays |-> "up"] /\ conns = {} /\ events = {}
    /\ running = TRUE /\ state = "connecting" /\ node = "none" /\ att = Began(FALSE, "start", selected)
    /\ queued = FALSE /\ active = None /\ last = None /\ discovered = <<>> /\ timers = 0
    /\ good = (selected # None) /\ working = None

Busy == att.stage # "idle"

----------------------------------------------------------------------------
(* connectOnce *)

Holds(r) == r \in conns /\ status[r] = "up" /\ events \cap ({r} \X {"close", "gone"}) = {}
Begin(replace, by, sel) ==
    /\ att' = Began(replace, by, sel) /\ state' = "connecting"
    /\ working' = IF Holds(active) THEN active ELSE None

\* The end of an attempt that leaves the manager in state s with the reservation r: a
\* queued attempt starts in `finally`, and only then goes on who awaited this one.
Queued == queued /\ running
\* start() sets a timer in any case, a timer's callback when it is not connected now.
ReschedulesOnce(sees) == att.awaited = "start"
Reschedules(sees) == att.awaited = "start" \/ (att.awaited = "timer" /\ sees # "connected")
Finish(s, r) ==
    LET more == Queued
        sees == IF more THEN "connecting" ELSE s
        sets == running /\ Reschedules(sees)
    IN  /\ active' = r /\ state' = sees
        /\ queued' = (queued /\ ~more)
        /\ att' = IF more THEN Began(TRUE, "none", selected) ELSE NoAttempt
        /\ working' = IF more /\ Holds(r) THEN r ELSE None
        /\ timers' = timers + (IF sets THEN 1 ELSE 0)
        /\ timers' <= MaxTimers

\* The first occurrences in s, in their order.
FirstPlaces(s) == {i \in DOMAIN s : \A j \in 1..i-1 : s[j] # s[i]}
Distinct(s) ==
    [k \in 1..Cardinality(FirstPlaces(s)) |->
        s[CHOOSE i \in FirstPlaces(s) : Cardinality({j \in FirstPlaces(s) : j <= i}) = k]]
\* The relay of the local support node first, then the configured ones, then discoveries.
RelayList(local) == Distinct(local \o Configured \o discovered)

\* After the awaits up to here, with the node there: hold on to the reservation until the
\* next relay has answered a dial, or go through the list at once.
Proceed(list) ==
    LET switch == att.replace /\ active # None /\ Head(list) # active
    IN  att' = [att EXCEPT !.stage = IF switch THEN "dialing" ELSE "reserving", !.list = list,
                           !.previous = active]

Resolved ==
    /\ att.stage = "resolving"
    /\ \E local \in {<<>>} \cup {<<r>> : r \in {att.asks} \ {None}} :
          /\ good' = (good /\ (att.asks = selected => local # <<>>))
          /\ IF node = "none"
             THEN att' = [att EXCEPT !.stage = "creating", !.list = RelayList(local)]
             ELSE Proceed(RelayList(local))
    /\ UNCHANGED <<scenario, running, state, node, queued, active, last, discovered, timers, env, working>>

\* createXoreinNode; whoever stopped the manager in the meantime found no node.
Created ==
    /\ att.stage = "creating"
    /\ node' = "live" /\ Proceed(att.list)
    /\ UNCHANGED <<scenario, running, state, queued, active, last, discovered, timers, env, good, working>>
CreateFails ==
    /\ att.stage = "creating"
    /\ scenario.changes > 0 /\ scenario' = [scenario EXCEPT !.changes = @ - 1]
    /\ Finish("disconnected", active)
    /\ UNCHANGED <<running, node, last, discovered, env, good>>

\* The library tells of each relay whose connection closes in two events.
ClosedEvents(rs) == (rs \cap conns) \X {"close", "gone"}
Answers(r) == node = "live" /\ status[r] # "down"

HangsUp(r, next) ==
    /\ conns' = (conns \cup {next}) \ {r}
    /\ events' = events \cup ClosedEvents({r})
\* With the next relay dialled, the old one goes to the end of the list and is hung up.
WithoutFallback(list, r) == list
WithFallback(list, r) == Distinct(Append(list, r))
Dialled ==
    /\ att.stage = "dialing"
    /\ LET next == Head(att.list)
       IN  IF Answers(next)
           THEN /\ att' = [att EXCEPT !.stage = "hanging", !.list = WithFallback(@, att.previous)]
                /\ HangsUp(att.previous, next)
                /\ UNCHANGED <<state, active, queued, timers, working>>
           ELSE /\ Finish("connected", active)
                /\ UNCHANGED <<conns, events>>
    /\ UNCHANGED <<scenario, running, node, last, discovered, selected, status, good>>
HungUp ==
    /\ att.stage = "hanging"
    /\ active' = None /\ att' = [att EXCEPT !.stage = "reserving"]
    /\ UNCHANGED <<scenario, running, state, node, queued, last, discovered, timers, env, good, working>>

\* reserveAnyRelay: one relay of the list after the other.
Reserves(r) == node = "live" /\ status[r] = "up"
Reserved ==
    /\ att.stage = "reserving" /\ att.list # <<>>
    /\ LET r == Head(att.list)
       IN  IF Reserves(r)
           THEN /\ Finish("connected", r) /\ last' = r
                /\ conns' = conns \cup {r}
           ELSE /\ att' = [att EXCEPT !.list = Tail(@)]
                /\ conns' = IF Answers(r) THEN conns \cup {r} ELSE conns
                /\ UNCHANGED <<state, queued, active, last, timers, working>>
    /\ UNCHANGED <<scenario, running, node, discovered, selected, status, events, good>>
NoneReserved ==
    /\ att.stage = "reserving" /\ att.list = <<>>
    /\ Finish("disconnected", None)
    /\ UNCHANGED <<scenario, running, node, last, discovered, env, good>>

----------------------------------------------------------------------------
(* Who starts attempts. *)

\* scheduleReconnect's timer.  While an attempt is at work connectOnce returns at once and
\* the timer is set anew, which changes nothing here.
TimerFires ==
    /\ timers > 0 /\ timers' = timers - 1
    /\ IF running /\ state # "connected"
       THEN ~Busy /\ Begin(FALSE, "timer", selected)
       ELSE UNCHANGED <<att, state, working>>
    /\ UNCHANGED <<scenario, running, node, queued, active, last, discovered, env, good>>

\* refreshSelectedNode, called by the event of the user's selection: a selection is not
\* dropped because an attempt is at work.
RefreshUnlessBusy(sel) ==
    IF running /\ ~Busy THEN Begin(TRUE, "none", sel) /\ UNCHANGED queued
    ELSE UNCHANGED <<att, state, working, queued>>
Refresh(sel) ==
    IF running /\ ~Busy THEN Begin(TRUE, "none", sel) /\ UNCHANGED queued
    ELSE queued' = (queued \/ running) /\ UNCHANGED <<att, state, working>>
Select(r) ==
    /\ scenario.selections > 0 /\ scenario' = [scenario EXCEPT !.selections = @ - 1]
    /\ selected' = r /\ good' = (r # None /\ status[r] = "up")
    /\ Refresh(r)
    /\ UNCHANGED <<running, node, active, last, discovered, timers, status, conns, events>>

\* addDiscoveredRelay: the oldest goes when there are too many.
Remember(r) == IF Len(discovered) < MaxDiscovered THEN Append(discovered, r) ELSE Append(Tail(discovered), r)
Discover(r) ==
    /\ scenario.discoveries > 0 /\ scenario' = [scenario EXCEPT !.discoveries = @ - 1]
    /\ ~Contains(discovered, r) /\ discovered' = Remember(r)
    /\ IF running /\ state # "connected" /\ ~Busy
       THEN Begin(FALSE, "none", selected)
       ELSE UNCHANGED <<att, state, working>>
    /\ UNCHANGED <<running, node, queued, active, last, timers, env, good>>

\* onPeerPathChange, for either event.
Lost(r) == r = IF active # None THEN active ELSE last
PathChange(e) ==
    /\ e \in events /\ events' = events \ {e}
    /\ IF Lost(e[1])
       THEN /\ active' = None /\ state' = "disconnected"
            /\ timers' = timers + (IF running THEN 1 ELSE 0) /\ timers' <= MaxTimers
       ELSE UNCHANGED <<active, state, timers>>
    /\ UNCHANGED <<scenario, running, node, att, queued, last, discovered, selected, status, conns, good, working>>

\* stop, to its await and after it; without a node there is nothing to await.
Stop ==
    /\ scenario.stops /\ running /\ running' = FALSE
    /\ IF node = "none"
       THEN /\ active' = None /\ last' = None /\ state' = "disconnected"
            /\ UNCHANGED <<node, conns, events>>
       ELSE /\ node' = "stopping" /\ conns' = {} /\ events' = events \cup ClosedEvents(Relays)
            /\ UNCHANGED <<active, last, state>>
    /\ UNCHANGED <<scenario, att, queued, discovered, timers, selected, status, good, working>>
Stopped ==
    /\ node = "stopping" /\ events = {}
    /\ node' = "none" /\ active' = None /\ last' = None /\ state' = "disconnected"
    /\ UNCHANGED <<scenario, running, att, queued, discovered, timers, env, good, working>>

\* A relay starts or stops answering or granting reservations.
Change(r) ==
    /\ scenario.changes > 0 /\ scenario' = [scenario EXCEPT !.changes = @ - 1]
    /\ \E s \in {"up", "full", "down"} \ {status[r]} :
          /\ status' = [status EXCEPT ![r] = s]
          /\ IF s = "down" THEN conns' = conns \ {r} /\ events' = events \cup ClosedEvents({r})
                          ELSE UNCHANGED <<conns, events>>
          /\ good' = (good /\ (r = selected => s = "up"))
          /\ working' = IF r = working /\ s # "up" THEN None ELSE working
    /\ UNCHANGED <<manager, selected>>

AttemptSteps == Resolved \/ Created \/ CreateFails \/ Dialled \/ HungUp \/ Reserved \/ NoneReserved
ManagerNext ==
    \/ AttemptSteps \/ TimerFires
    \/ \E r \in Maybe : Select(r)
    \/ \E r \in Relays : Discover(r) \/ Change(r)
    \/ \E e \in Relays \X {"close", "gone"} : PathChange(e)
    \/ Stop \/ Stopped

\* Every await ends (all have timeouts), timers fire and the library delivers its events.
ManagerFairness ==
    /\ WF_managerVars(Resolved) /\ WF_managerVars(Created) /\ WF_managerVars(Dialled)
    /\ WF_managerVars(HungUp) /\ WF_managerVars(Reserved) /\ WF_managerVars(NoneReserved)
    /\ WF_managerVars(TimerFires) /\ WF_managerVars(Stopped)
    /\ WF_managerVars(\E e \in Relays \X {"close", "gone"} : PathChange(e))
ManagerSpec == ManagerInit /\ [][ManagerNext]_managerVars /\ ManagerFairness

----------------------------------------------------------------------------
(* Properties. *)

\* A user's choice wins: when nothing is at work and the client is connected, it is on the
\* relay the user selected last, if that relay and its support node have been in order since
\* (the comments on reconnectRequested and on the order of the list).
SelectedIsUsed == running /\ ~Busy /\ state = "connected" /\ good => active = selected

\* Trying another relay costs nothing: an attempt that began with a working reservation
\* never ends without one (the fallback to the previous relay).
WorkingReservationSurvives ==
    [][att.stage # "idle" /\ att' # att /\ ~Busy' /\ working # None /\ running => state' = "connected"]_managerVars

\* A lost relay is always retried: for a user who selects nothing and an engine that goes
\* on, once some configured relay stays in order the client ends up connected for good.
Reconnects ==
    scenario.selections = 0 /\ ~scenario.stops =>
        (<>[](\E r \in ToSet(Configured) : status[r] = "up") => <>[](state = "connected" /\ active # None))

\* Refuted: "Preserve the working reservation and report the real state" (manager.ts, when
\* the dial of the next relay fails): the old relay may have dropped meanwhile.
ConnectedIsReal == state = "connected" => active # None
\* Refuted: "Stop the manager and disconnect": a node created across the stop stays.
StoppedStaysDown == ~running /\ ~Busy => node # "live" /\ state # "connected"
=============================================================================
