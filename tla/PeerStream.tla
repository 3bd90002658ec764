----------------------------- MODULE PeerStream -----------------------------
(***************************************************************************)
(* The calls of one client to one peer on one protocol: callFamily of      *)
(* native/families/peerstream.ts, the pooled MuxChannel of streammux.ts    *)
(* under it, and serveFamilyStream of frames.ts at the peer.  Many calls   *)
(* share one stream; when it dies, each makes one attempt on a stream of   *)
(* its own.  An action is the code between two awaits.  The streams, their *)
(* write buffers and their ends are the environment.                       *)
(***************************************************************************)
EXTENDS Naturals, FiniteSets

CONSTANTS
    Calls,         \* requests, each with its request id
    NoCall,        \* no call
    MaxStreams     \* bound: pooled streams opened

ASSUME NoCallIsNotACall == NoCall \notin Calls
ASSUME StreamsAreBounded == MaxStreams \in Nat

Streams == 1..MaxStreams
Own == 0    \* the single-shot stream a call opens for itself

VARIABLES
    pool,      \* the stream of the pool's entry, or 0
    chan,      \* the entries ever made: their MuxChannel and its drain gate
    call,      \* where each call is, and on which stream
    answer,    \* the call whose response each call was given
    \* the peer and the wire:
    wire,      \* requests written and not read by the peer
    responses, \* responses on their way, on streams the caller still reads
    served     \* how often a handler ran for each call

client == <<pool, chan, call, answer>>
peer == <<wire, responses, served>>
streamVars == <<client, peer>>

Channel == [state : {"unused", "opening", "open", "dead", "failed"}, gate : BOOLEAN, retired : BOOLEAN]
Phases == {"idle", "opening", "parked", "woken", "pending", "fallback", "single", "answered", "failed"}
Unused == [state |-> "unused", gate |-> FALSE, retired |-> FALSE]

Request == [via : Streams \cup {Own}, of : Calls]
Response == [via : Streams \cup {Own}, of : Calls, id : Calls \cup {NoCall}]

StreamsInit ==
    /\ pool = 0
    /\ chan = [n \in Streams |-> Unused]
    /\ call = [c \in Calls |-> [phase |-> "idle", on |-> 0]]
    /\ answer = [c \in Calls |-> NoCall]
    /\ wire = {} /\ responses = {}
    /\ served = [c \in Calls |-> 0]

InPhase(c, phase) == call[c].phase = phase
Pending(n) == {c \in Calls : InPhase(c, "pending") /\ call[c].on = n}
Moved(cl, c, phase) == [cl EXCEPT ![c].phase = phase]
\* The call is done with its pooled stream.
Left(cl, c, phase) == [cl EXCEPT ![c] = [phase |-> phase, on |-> 0]]

----------------------------------------------------------------------------
(* The channel. *)

\* destroy: the pool forgets the entry, what is pending is rejected and makes its
\* single-shot attempt, and whoever waits at the drain gate is released.
Died(n) == [chan EXCEPT ![n] = [Unused EXCEPT !.state = "dead"]]
ForgottenNever(n) == pool
Forgotten(n) == IF pool = n THEN 0 ELSE pool
ReleasedNone(cl, n) == cl
Released(cl, n) ==
    [c \in Calls |-> IF cl[c].on = n /\ cl[c].phase = "parked"
                     THEN [cl[c] EXCEPT !.phase = "woken"] ELSE cl[c]]
Rejected(cl, n) ==
    [c \in Calls |-> IF cl[c].on = n /\ cl[c].phase = "pending"
                     THEN [phase |-> "fallback", on |-> 0] ELSE cl[c]]
Destroy(n, cl) ==
    /\ chan' = Died(n)
    /\ pool' = Forgotten(n)
    /\ call' = Released(Rejected(cl, n), n)
    /\ responses' = {r \in responses : r.via # n}

\* request, past the gate: the frame is written, and a full buffer closes the gate; or
\* the write throws, which destroys the channel.
Write(c, n) ==
    \/ \E room \in BOOLEAN :
         /\ call' = Moved(call, c, "pending")
         /\ chan' = [chan EXCEPT ![n].gate = @ \/ ~room]
         /\ wire' = wire \cup {[via |-> n, of |-> c]}
         /\ UNCHANGED <<pool, responses>>
    \/ /\ Destroy(n, Left(call, c, "fallback"))
       /\ UNCHANGED wire

----------------------------------------------------------------------------
(* The caller. *)

Fresh(n) == chan[n].state = "unused" /\ \A k \in Streams : k < n => chan[k].state # "unused"

\* muxRequest: the first call opens the stream, concurrent ones share it.
Ask(c) ==
    /\ InPhase(c, "idle")
    /\ \/ /\ pool # 0
          /\ call' = [call EXCEPT ![c] = [phase |-> "opening", on |-> pool]]
          /\ UNCHANGED <<pool, chan>>
       \/ /\ pool = 0
          /\ \E n \in Streams :
               /\ Fresh(n)
               /\ chan' = [chan EXCEPT ![n].state = "opening"]
               /\ pool' = n
               /\ call' = [call EXCEPT ![c] = [phase |-> "opening", on |-> n]]
    /\ UNCHANGED <<answer, peer>>

OpenSucceeds(n) ==
    /\ chan[n].state = "opening"
    /\ chan' = [chan EXCEPT ![n].state = "open"]
    /\ UNCHANGED <<pool, call, answer, peer>>

OpenFails(n) ==
    /\ chan[n].state = "opening"
    /\ chan' = [chan EXCEPT ![n].state = "failed"]
    /\ pool' = Forgotten(n)
    /\ UNCHANGED <<call, answer, peer>>

\* The entry's promise has settled: a failed dial is the caller's failure, a channel that
\* has died since is a MuxStreamError, a closed gate is waited for.
Resume(c) ==
    LET n == call[c].on IN
    /\ InPhase(c, "opening")
    /\ \/ /\ chan[n].state = "failed"
          /\ call' = Left(call, c, "failed")
          /\ UNCHANGED <<pool, chan, wire, responses>>
       \/ /\ chan[n].state = "dead"
          /\ call' = Left(call, c, "fallback")
          /\ UNCHANGED <<pool, chan, wire, responses>>
       \/ /\ chan[n].state = "open" /\ chan[n].gate
          /\ call' = Moved(call, c, "parked")
          /\ UNCHANGED <<pool, chan, wire, responses>>
       \/ /\ chan[n].state = "open" /\ ~chan[n].gate
          /\ Write(c, n)
    /\ UNCHANGED <<answer, served>>

\* Past the gate only dead is looked at again, not the gate.
Wake(c) ==
    LET n == call[c].on IN
    /\ InPhase(c, "woken")
    /\ \/ /\ chan[n].state = "dead"
          /\ call' = Left(call, c, "fallback")
          /\ UNCHANGED <<pool, chan, wire, responses>>
       \/ /\ chan[n].state = "open"
          /\ Write(c, n)
    /\ UNCHANGED <<answer, served>>

\* REQUEST_TIMEOUT_MS: one silent request condemns the stream.
RequestTimesOut(c) ==
    /\ InPhase(c, "pending")
    /\ Destroy(call[c].on, call)
    /\ UNCHANGED <<answer, wire, served>>

\* settle: by request id, or, for a response without one, to the only pending request.
AddresseeOldest(r) ==
    {c \in Pending(r.via) : r.id = c \/ (r.id = NoCall /\ c = CHOOSE p \in Pending(r.via) : TRUE)}
Addressee(r) ==
    {c \in Pending(r.via) : r.id = c \/ (r.id = NoCall /\ Pending(r.via) = {c})}
Settle(r) ==
    /\ r.via # Own /\ chan[r.via].state = "open"
    /\ call' = [c \in Calls |-> IF c \in Addressee(r) THEN [phase |-> "answered", on |-> 0] ELSE call[c]]
    /\ answer' = [c \in Calls |-> IF c \in Addressee(r) THEN r.of ELSE answer[c]]
    /\ responses' = responses \ {r}
    /\ UNCHANGED <<pool, chan, wire, served>>

\* The legacy attempt: a stream of its own, the same bytes, the first response on it.
SingleShot(c) ==
    /\ InPhase(c, "fallback")
    /\ \/ /\ call' = Moved(call, c, "single")
          /\ wire' = wire \cup {[via |-> Own, of |-> c]}
       \/ /\ call' = Moved(call, c, "failed")
          /\ UNCHANGED wire
    /\ UNCHANGED <<pool, chan, answer, responses, served>>
SingleShotAnswered(r) ==
    /\ r.via = Own /\ InPhase(r.of, "single")
    /\ call' = Moved(call, r.of, "answered")
    /\ answer' = [answer EXCEPT ![r.of] = r.of]
    /\ responses' = responses \ {r}
    /\ UNCHANGED <<pool, chan, wire, served>>
SingleShotAgain(c) ==
    /\ InPhase(c, "single")
    /\ call' = Moved(call, c, "fallback")
    /\ UNCHANGED <<pool, chan, answer, peer>>
SingleShotFails(c) ==
    /\ InPhase(c, "single")
    /\ call' = Moved(call, c, "failed")
    /\ responses' = {r \in responses : r.via # Own \/ r.of # c}
    /\ UNCHANGED <<pool, chan, answer, wire, served>>

----------------------------------------------------------------------------
(* The streams. *)

\* EOF, reset, a poisoned frame or the inactivity abort: the pump ends.
StreamEnds(n) ==
    /\ chan[n].state = "open"
    /\ Destroy(n, call)
    /\ UNCHANGED <<answer, wire, served>>

Drain(n) ==
    /\ chan[n].gate
    /\ chan' = [chan EXCEPT ![n].gate = FALSE]
    /\ call' = Released(call, n)
    /\ UNCHANGED <<pool, answer, peer>>

\* connection:open of a direct address (watchDirectUpgrades): what is pooled goes, when
\* its promise settles.
DirectOpens ==
    /\ pool # 0 /\ ~chan[pool].retired
    /\ chan' = [chan EXCEPT ![pool].retired = TRUE]
    /\ UNCHANGED <<pool, call, answer, peer>>
Retire(n) ==
    /\ chan[n].retired /\ chan[n].state = "open"
    /\ Destroy(n, call)
    /\ UNCHANGED <<answer, wire, served>>

----------------------------------------------------------------------------
(* The peer: serveFamilyStream. *)

\* A request that was written is read and handled, also after its stream has died at the
\* caller; the handler responds, with the request's id or (the Go error path) without
\* one, or fails and does not.
Reads(via, c) == IF via = Own THEN InPhase(c, "single") ELSE chan[via].state = "open"
Unread(w) == wire \ {w}
Serve(w) ==
    /\ wire' = Unread(w)
    /\ served' = [served EXCEPT ![w.of] = @ + 1]
    /\ \/ /\ Reads(w.via, w.of)
          /\ \E id \in {w.of, NoCall} : responses' = responses \cup {[via |-> w.via, of |-> w.of, id |-> id]}
       \/ UNCHANGED responses
    /\ UNCHANGED client

----------------------------------------------------------------------------

CallerStep ==
    \E c \in Calls : Ask(c) \/ Resume(c) \/ Wake(c) \/ RequestTimesOut(c) \/ SingleShot(c) \/ SingleShotFails(c)
ReplyStep == \E r \in responses : Settle(r) \/ SingleShotAnswered(r)
StreamStep ==
    \/ DirectOpens
    \/ \E n \in Streams :
          OpenSucceeds(n) \/ OpenFails(n) \/ StreamEnds(n) \/ Drain(n) \/ Retire(n)
PeerStep == \E w \in wire : Serve(w)
StreamsNext == CallerStep \/ ReplyStep \/ StreamStep \/ PeerStep

StreamsSpec == StreamsInit /\ [][StreamsNext]_streamVars

\* Awaits that have settled are resumed, timers fire, a dial ends by its signal, and a
\* stream whose buffer is full drains or ends (at the latest by the inactivity abort).
\* The peer owes nothing.
CallGoesOn(c) == Resume(c) \/ Wake(c) \/ RequestTimesOut(c) \/ SingleShot(c) \/ SingleShotFails(c)
StreamGoesOn(n) ==
    \/ OpenSucceeds(n) \/ OpenFails(n) \/ Retire(n)
    \/ chan[n].gate /\ (Drain(n) \/ StreamEnds(n))
FairStreamsSpec ==
    /\ StreamsSpec
    /\ \A c \in Calls : WF_streamVars(CallGoesOn(c))
    /\ \A n \in Streams : WF_streamVars(StreamGoesOn(n))

----------------------------------------------------------------------------
(* Properties. *)

\* Types; and "ONE legacy single-shot attempt is made" (callFamily): a handler runs at most
\* twice for a call, whatever died when.
StreamsTypeOK ==
    /\ pool \in 0..MaxStreams
    /\ chan \in [Streams -> Channel]
    /\ call \in [Calls -> [phase : Phases, on : 0..MaxStreams]]
    /\ answer \in [Calls -> Calls \cup {NoCall}]
    /\ wire \subseteq Request /\ responses \subseteq Response
    /\ served \in [Calls -> 0..2]

\* The pool holds the one channel that opens or is open, and nothing else: a dead channel
\* left in it would fail every later call, a live one left out of it would leak.
PoolIsSound == \A n \in Streams : chan[n].state \in {"opening", "open"} <=> pool = n

\* "DEADLOCK GUARD" (armDrainGate): whoever waits at the drain gate waits at a closed gate of a
\* live channel, and what is pending is pending on a live channel; so some event is left
\* that wakes it.
NobodySleepsThrough ==
    \A c \in Calls :
        /\ InPhase(c, "parked") => chan[call[c].on].state = "open" /\ chan[call[c].on].gate
        /\ InPhase(c, "pending") => chan[call[c].on].state = "open"

\* "Only safe when unambiguous" (settle): a call is only ever given the response the peer
\* made for it, on whichever stream, although some responses carry no request id.
AnswersAreOwn == \A c \in Calls : InPhase(c, "answered") => answer[c] = c /\ served[c] > 0

\* Every call is answered or fails, though the peer may stay silent and the stream may
\* never drain ("which previously wedged the whole outbox drain chain").
EveryCallSettles ==
    \A c \in Calls : InPhase(c, "opening") ~> (InPhase(c, "answered") \/ InPhase(c, "failed"))
=============================================================================
