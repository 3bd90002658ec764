--------------------------- MODULE NetworkProofs ---------------------------
(***************************************************************************)
(* Theorems about the network layer: the calls of one client on the pooled *)
(* streams to a peer (PeerStream), the requests peers pass on for one      *)
(* another (RoutedRequest), and its connection to a relay                  *)
(* (TransportManager).                                                     *)
(***************************************************************************)
EXTENDS PeerStream, RoutedRequest, TransportManager, FiniteSetTheorems, FunctionTheorems,
        SequenceTheorems, WellFoundedInduction, TLAPS

----------------------------------------------------------------------------
(* PeerStream, for any set of calls and any number of streams.             *)
(*                                                                         *)
(* A stream that is open owes exactly what is pending on it: the requests  *)
(* the peer has not read and the responses under way belong, one each, to  *)
(* calls that are pending there.  So a response without an id that finds   *)
(* one call pending was made for that call.                                *)

\* A call is on a stream exactly while it has business there.
OnStream == {"opening", "parked", "woken", "pending"}
CallRecord == [phase : OnStream, on : Streams] \cup [phase : Phases \ OnStream, on : {0}]
StreamTypes ==
    /\ pool \in Streams \cup {0}
    /\ chan \in [Streams -> Channel]
    /\ call \in [Calls -> CallRecord]
    /\ answer \in [Calls -> Calls \cup {NoCall}]
    /\ wire \subseteq Request /\ responses \subseteq Response
    /\ served \in [Calls -> Nat]

Awaits(c, n) == call[c].phase = "pending" /\ call[c].on = n
IsLive(n) == chan[n].state = "open"
IsDead(n) == chan[n].state = "dead"
Owed == \A w \in wire : w.via \in Streams => IsDead(w.via) \/ (IsLive(w.via) /\ Awaits(w.of, w.via))
Due ==
    \A r \in responses :
        /\ served[r.of] > 0
        /\ r.id \in {r.of, NoCall}
        /\ r.via \in Streams => IsLive(r.via) /\ Awaits(r.of, r.via)
OneEach ==
    /\ \A r, s \in responses : (r.via \in Streams /\ r.via = s.via /\ r.of = s.of) => r = s
    /\ \A r \in responses, w \in wire : ~(r.via \in Streams /\ r.via = w.via /\ r.of = w.of)
Wired == Owed /\ Due /\ OneEach /\ AnswersAreOwn

StreamsInv == StreamTypes /\ PoolIsSound /\ NobodySleepsThrough /\ Wired

LEMMA StreamsArePositive == 0 \notin Streams /\ Own \notin Streams
  BY StreamsAreBounded DEF Streams, Own

\* What a step that writes and answers nothing must leave alone: dead streams stay dead, who
\* awaits something on a live stream goes on doing so or the stream dies, and its responses
\* with it.
Undisturbed ==
    /\ wire' = wire /\ served' = served /\ answer' = answer
    /\ \A n \in Streams : IsDead(n) => IsDead(n)'
    /\ \A n \in Streams, c \in Calls :
          (IsLive(n) /\ Awaits(c, n)) => IsDead(n)' \/ (IsLive(n)' /\ Awaits(c, n)')
    /\ \A r \in responses' : r \in responses /\ (r.via \in Streams => ~IsDead(r.via)')
    /\ \A c \in Calls : InPhase(c, "answered")' => InPhase(c, "answered")

LEMMA UndisturbedKeepsWired == ASSUME StreamTypes, Wired, Undisturbed PROVE Wired'
  <1>1. Owed'
    BY DEF StreamTypes, Wired, Owed, Undisturbed, Request
  <1>2. Due'
    BY DEF StreamTypes, Wired, Due, Undisturbed, Response
  <1>3. OneEach'
    BY DEF Wired, OneEach, Undisturbed
  <1>4. AnswersAreOwn'
    BY DEF Wired, AnswersAreOwn, Undisturbed
  <1> QED  BY <1>1, <1>2, <1>3, <1>4 DEF Wired

----------------------------------------------------------------------------
(* Steps that write and answer nothing. *)

LEMMA OpenSucceedsKeeps == ASSUME StreamsInv, NEW n \in Streams, OpenSucceeds(n) PROVE StreamsInv'
  <1>1. StreamTypes'
    BY DEF StreamsInv, StreamTypes, OpenSucceeds, Channel, peer
  <1>2. Undisturbed
    BY DEF StreamsInv, StreamTypes, OpenSucceeds, Channel, peer, Undisturbed, IsDead, IsLive, Awaits, InPhase, Wired, Due
  <1>3. PoolIsSound' /\ NobodySleepsThrough'
    BY DEF StreamsInv, StreamTypes, OpenSucceeds, Channel, peer, PoolIsSound, NobodySleepsThrough, InPhase
  <1> QED  BY <1>1, <1>2, <1>3, UndisturbedKeepsWired DEF StreamsInv

LEMMA OpenFailsKeeps == ASSUME StreamsInv, NEW n \in Streams, OpenFails(n) PROVE StreamsInv'
  <1>1. StreamTypes'
    BY DEF StreamsInv, StreamTypes, OpenFails, Forgotten, Channel, peer
  <1>2. Undisturbed
    BY DEF StreamsInv, StreamTypes, OpenFails, Channel, peer, Undisturbed, IsDead, IsLive, Awaits, InPhase, Wired, Due
  <1>3. PoolIsSound'
    BY StreamsArePositive DEF StreamsInv, StreamTypes, OpenFails, Forgotten, Channel, PoolIsSound
  <1>4. NobodySleepsThrough'
    BY DEF StreamsInv, StreamTypes, OpenFails, Channel, peer, NobodySleepsThrough, InPhase, CallRecord
  <1> QED  BY <1>1, <1>2, <1>3, <1>4, UndisturbedKeepsWired DEF StreamsInv

LEMMA DirectKeeps == ASSUME StreamsInv, DirectOpens PROVE StreamsInv'
  <1>1. StreamTypes' /\ PoolIsSound'
    BY DEF StreamsInv, StreamTypes, DirectOpens, Channel, peer, PoolIsSound
  <1>2. Undisturbed
    BY DEF StreamsInv, StreamTypes, DirectOpens, Channel, peer, Undisturbed, IsDead, IsLive, Awaits, InPhase, Wired, Due
  <1>3. NobodySleepsThrough'
    BY DEF StreamsInv, StreamTypes, DirectOpens, Channel, peer, NobodySleepsThrough, InPhase, CallRecord
  <1> QED  BY <1>1, <1>2, <1>3, UndisturbedKeepsWired DEF StreamsInv

LEMMA ReleasedTyped ==
    ASSUME NEW cl \in [Calls -> CallRecord], NEW n \in Streams
    PROVE  Released(cl, n) \in [Calls -> CallRecord]
  <1>1. ASSUME NEW c \in Calls, cl[c].phase = "parked"
        PROVE  [cl[c] EXCEPT !.phase = "woken"] \in CallRecord
    BY <1>1 DEF CallRecord, Phases, OnStream
  <1> QED  BY <1>1 DEF Released
LEMMA RejectedTyped ==
    ASSUME NEW cl \in [Calls -> CallRecord], NEW n \in Streams
    PROVE  Rejected(cl, n) \in [Calls -> CallRecord]
  <1>1. [phase |-> "fallback", on |-> 0] \in CallRecord
    BY DEF CallRecord, Phases, OnStream
  <1> QED  BY <1>1 DEF Rejected
LEMMA LeftTyped ==
    ASSUME NEW cl \in [Calls -> CallRecord], NEW c \in Calls, NEW phase \in Phases \ OnStream
    PROVE  Left(cl, c, phase) \in [Calls -> CallRecord]
  BY DEF CallRecord, Left
LEMMA MovedTyped ==
    ASSUME NEW cl \in [Calls -> CallRecord], NEW c \in Calls, NEW phase \in Phases,
           cl[c].phase \in OnStream <=> phase \in OnStream
    PROVE  Moved(cl, c, phase) \in [Calls -> CallRecord]
  <1>1. [cl[c] EXCEPT !.phase = phase] \in CallRecord
    BY DEF CallRecord
  <1> QED  BY <1>1 DEF Moved

LEMMA DrainKeeps == ASSUME StreamsInv, NEW n \in Streams, Drain(n) PROVE StreamsInv'
  <1>1. StreamTypes'
    <2>1. call' \in [Calls -> CallRecord]
      BY ReleasedTyped DEF StreamsInv, StreamTypes, Drain
    <2>2. chan' \in [Streams -> Channel]
      BY DEF StreamsInv, StreamTypes, Drain, Channel
    <2> QED  BY <2>1, <2>2 DEF StreamsInv, StreamTypes, Drain, peer
  <1>2. Undisturbed
    BY DEF StreamsInv, StreamTypes, Drain, Released, Channel, peer, Undisturbed, IsDead, IsLive, Awaits, InPhase, Wired, Due
  <1>3. PoolIsSound'
    BY DEF StreamsInv, StreamTypes, Drain, Channel, PoolIsSound
  <1>4. NobodySleepsThrough'
    BY DEF StreamsInv, StreamTypes, Drain, Released, Channel, NobodySleepsThrough, InPhase, CallRecord
  <1> QED  BY <1>1, <1>2, <1>3, <1>4, UndisturbedKeepsWired DEF StreamsInv

LEMMA AskKeeps == ASSUME StreamsInv, NEW c \in Calls, Ask(c) PROVE StreamsInv'
  <1>1. PICK n \in Streams :
           /\ call' = [call EXCEPT ![c] = [phase |-> "opening", on |-> n]]
           /\ \/ UNCHANGED <<pool, chan>>
              \/ /\ pool = 0 /\ pool' = n
                 /\ n \in Streams /\ chan[n].state = "unused"
                 /\ chan' = [chan EXCEPT ![n].state = "opening"]
    BY DEF StreamsInv, StreamTypes, Ask, Fresh
  <1>2. StreamTypes'
    <2>1. [phase |-> "opening", on |-> n] \in CallRecord
      BY <1>1 DEF CallRecord, Phases, OnStream
    <2>2. call' \in [Calls -> CallRecord]
      BY <1>1, <2>1 DEF StreamsInv, StreamTypes
    <2>3. chan' \in [Streams -> Channel] /\ pool' \in Streams \cup {0}
      BY <1>1 DEF StreamsInv, StreamTypes, Channel
    <2> QED  BY <2>2, <2>3 DEF StreamsInv, StreamTypes, Ask, peer
  <1>3. Undisturbed
    BY DEF StreamsInv, StreamTypes, Ask, Fresh, Channel, peer, Undisturbed, IsDead, IsLive, Awaits, InPhase, Wired, Due
  <1>4. PoolIsSound'
    <2>1. CASE UNCHANGED <<pool, chan>>
      BY <2>1 DEF StreamsInv, PoolIsSound
    <2>2. CASE /\ pool = 0 /\ pool' = n /\ n \in Streams
               /\ chan' = [chan EXCEPT ![n].state = "opening"]
      BY <2>2, StreamsArePositive DEF StreamsInv, StreamTypes, Channel, PoolIsSound
    <2> QED  BY <1>1, <2>1, <2>2
  <1>5. NobodySleepsThrough'
    <2> SUFFICES ASSUME NEW d \in Calls, call'[d].phase \in {"parked", "pending"}
                 PROVE  /\ call'[d].phase = "parked" => chan'[call'[d].on].state = "open" /\ chan'[call'[d].on].gate
                        /\ call'[d].phase = "pending" => chan'[call'[d].on].state = "open"
      BY DEF NobodySleepsThrough, InPhase
    <2>1. d # c /\ call'[d] = call[d]
      BY <1>1 DEF StreamsInv, StreamTypes
    <2>2. /\ call[d].phase = "parked" => chan[call[d].on].state = "open" /\ chan[call[d].on].gate
          /\ call[d].phase = "pending" => chan[call[d].on].state = "open"
      BY DEF StreamsInv, NobodySleepsThrough, InPhase
    <2>3. call[d].on \in Streams
      BY <2>1 DEF StreamsInv, StreamTypes, CallRecord, OnStream
    <2>4. chan'[call[d].on] = chan[call[d].on]
      BY <1>1, <2>1, <2>2, <2>3 DEF StreamsInv, StreamTypes
    <2> QED  BY <2>1, <2>2, <2>4
  <1> QED  BY <1>2, <1>3, <1>4, <1>5, UndisturbedKeepsWired DEF StreamsInv

\* The single-shot attempt has a stream of its own.
LEMMA SingleShotKeeps == ASSUME StreamsInv, NEW c \in Calls, SingleShot(c) PROVE StreamsInv'
  <1>1. StreamTypes'
    <2>1. call' \in [Calls -> CallRecord]
      <3>1. /\ call \in [Calls -> CallRecord] /\ call[c].phase = "fallback"
            /\ call' = Moved(call, c, "single") \/ call' = Moved(call, c, "failed")
        BY DEF StreamsInv, StreamTypes, SingleShot, InPhase
      <3>2. /\ "fallback" \notin OnStream /\ "single" \notin OnStream /\ "failed" \notin OnStream
            /\ "single" \in Phases /\ "failed" \in Phases
        BY DEF OnStream, Phases
      <3>3. /\ Moved(call, c, "single") \in [Calls -> CallRecord]
            /\ Moved(call, c, "failed") \in [Calls -> CallRecord]
        BY <3>1, <3>2, MovedTyped
      <3> QED  BY <3>1, <3>3
    <2>2. wire' \subseteq Request
      BY DEF StreamsInv, StreamTypes, SingleShot, Request
    <2> QED  BY <2>1, <2>2 DEF StreamsInv, StreamTypes, SingleShot
  <1>2. \A d \in Calls, n \in Streams : Awaits(d, n) => Awaits(d, n)'
    BY DEF StreamsInv, StreamTypes, SingleShot, Moved, InPhase, Awaits, CallRecord
  <1>3. \A w \in wire' : w \in wire \/ w.via = Own
    BY DEF SingleShot
  <1>4. Wired'
    <2>1. Owed'
      <3> SUFFICES ASSUME NEW w \in wire', w.via \in Streams
                   PROVE  IsDead(w.via)' \/ (IsLive(w.via)' /\ Awaits(w.of, w.via)')
        BY DEF Owed
      <3>1. w \in wire /\ w \in Request
        BY <1>3, StreamsArePositive DEF StreamsInv, StreamTypes
      <3> QED  BY <1>2, <3>1 DEF StreamsInv, SingleShot, Wired, Owed, IsLive, IsDead, Request
    <2>2. Due'
      BY <1>2 DEF StreamsInv, StreamTypes, SingleShot, Wired, Due, IsLive, Response
    <2>3. OneEach'
      BY <1>3, StreamsArePositive DEF StreamsInv, SingleShot, Wired, OneEach
    <2>4. AnswersAreOwn'
      <3>1. call' = Moved(call, c, "single") \/ call' = Moved(call, c, "failed")
        BY DEF SingleShot
      <3>2. ASSUME NEW d \in Calls, call'[d].phase = "answered"  PROVE call[d].phase = "answered"
        BY <3>1, <3>2 DEF StreamsInv, StreamTypes, Moved, CallRecord
      <3> QED  BY <3>2 DEF StreamsInv, SingleShot, Wired, AnswersAreOwn, InPhase
    <2> QED  BY <2>1, <2>2, <2>3, <2>4 DEF Wired
  <1>5. PoolIsSound' /\ NobodySleepsThrough'
    BY DEF StreamsInv, StreamTypes, SingleShot, Moved, InPhase, CallRecord, PoolIsSound, NobodySleepsThrough
  <1> QED  BY <1>1, <1>4, <1>5 DEF StreamsInv

LEMMA SingleShotFailsKeeps == ASSUME StreamsInv, NEW c \in Calls, SingleShotFails(c) PROVE StreamsInv'
  <1>1. StreamTypes'
    <2>1. call' \in [Calls -> CallRecord]
      BY MovedTyped DEF StreamsInv, StreamTypes, SingleShotFails, InPhase, Phases, OnStream
    <2> QED  BY <2>1 DEF StreamsInv, StreamTypes, SingleShotFails
  <1>2. Undisturbed
    BY DEF StreamsInv, StreamTypes, SingleShotFails, Moved, Undisturbed, IsDead, IsLive, Awaits, InPhase, Wired, Due
  <1>3. PoolIsSound' /\ NobodySleepsThrough'
    BY DEF StreamsInv, StreamTypes, SingleShotFails, Moved, InPhase, CallRecord, PoolIsSound, NobodySleepsThrough
  <1> QED  BY <1>1, <1>2, <1>3, UndisturbedKeepsWired DEF StreamsInv

LEMMA SingleShotAnsweredKeeps == ASSUME StreamsInv, NEW r \in responses, SingleShotAnswered(r) PROVE StreamsInv'
  <1>1. r \in Response /\ r.of \in Calls /\ served[r.of] > 0 /\ call[r.of].phase = "single"
    BY DEF StreamsInv, StreamTypes, Response, Wired, Due, SingleShotAnswered, InPhase
  <1>2. StreamTypes'
    <2>1. call' \in [Calls -> CallRecord]
      BY <1>1, MovedTyped DEF StreamsInv, StreamTypes, SingleShotAnswered, Phases, OnStream
    <2> QED  BY <1>1, <2>1 DEF StreamsInv, StreamTypes, SingleShotAnswered
  <1>3. \A d \in Calls, n \in Streams : Awaits(d, n) => Awaits(d, n)'
    BY <1>1 DEF StreamsInv, StreamTypes, SingleShotAnswered, Moved, Awaits, CallRecord
  <1>4. Wired'
    <2>1. Owed'
      BY <1>3 DEF StreamsInv, StreamTypes, SingleShotAnswered, Wired, Owed, IsLive, IsDead, Request
    <2>2. Due'
      BY <1>3 DEF StreamsInv, StreamTypes, SingleShotAnswered, Wired, Due, IsLive, Response
    <2>3. OneEach'
      BY DEF StreamsInv, SingleShotAnswered, Wired, OneEach
    <2>4. AnswersAreOwn'
      BY <1>1 DEF StreamsInv, StreamTypes, SingleShotAnswered, Moved, Wired, AnswersAreOwn, InPhase
    <2> QED  BY <2>1, <2>2, <2>3, <2>4 DEF Wired
  <1>5. PoolIsSound' /\ NobodySleepsThrough'
    BY <1>1 DEF StreamsInv, StreamTypes, SingleShotAnswered, Moved, InPhase, CallRecord, PoolIsSound, NobodySleepsThrough
  <1> QED  BY <1>2, <1>4, <1>5 DEF StreamsInv
----------------------------------------------------------------------------
(* Steps that end a stream. *)

\* destroy, after a call that awaited nothing may have left for its single-shot attempt.
LEMMA DestroyKeeps ==
    ASSUME StreamsInv, NEW n \in Streams, NEW cl, Destroy(n, cl),
           cl = call \/ \E c \in Calls : ~InPhase(c, "pending") /\ cl = Left(call, c, "fallback"),
           wire' = wire, served' = served, answer' = answer
    PROVE  StreamsInv'
  <1>1. cl \in [Calls -> CallRecord]
    BY LeftTyped DEF StreamsInv, StreamTypes, Phases, OnStream
  <1>2. \A d \in Calls : cl[d] = call[d] \/ (call[d].phase # "pending" /\ cl[d] = [phase |-> "fallback", on |-> 0])
    BY DEF StreamsInv, StreamTypes, InPhase, Left
  <1>3. /\ call' \in [Calls -> CallRecord]
        /\ \A d \in Calls : call'[d].phase \in {"parked", "pending", "answered"} => call'[d] = call[d]
        /\ \A d \in Calls : call'[d].phase \in {"parked", "pending"} => call'[d].on # n
        /\ \A d \in Calls : (call[d].phase = "pending" /\ call[d].on # n) => call'[d] = call[d]
    <2>1. call' = Released(Rejected(cl, n), n)
      BY DEF Destroy
    <2>2. call' \in [Calls -> CallRecord]
      BY <1>1, <2>1, ReleasedTyped, RejectedTyped
    <2>3. ASSUME NEW d \in Calls
          PROVE  \/ cl[d].on = n /\ cl[d].phase = "pending" /\ call'[d] = [phase |-> "fallback", on |-> 0]
                 \/ cl[d].on = n /\ cl[d].phase = "parked" /\ call'[d] = [cl[d] EXCEPT !.phase = "woken"]
                 \/ (cl[d].on # n \/ cl[d].phase \notin {"pending", "parked"}) /\ call'[d] = cl[d]
      BY <1>1, <2>1, StreamsArePositive DEF Released, Rejected
    <2>4. ASSUME NEW d \in Calls, call'[d].phase \in {"parked", "pending", "answered"}
          PROVE  call'[d] = call[d] /\ (call'[d].phase \in {"parked", "pending"} => call'[d].on # n)
      <3>1. CASE call'[d] = [phase |-> "fallback", on |-> 0]
        BY <2>4, <3>1
      <3>2. CASE call'[d] = [cl[d] EXCEPT !.phase = "woken"]
        <4>1. call'[d].phase = "woken"
          BY <1>1, <3>2 DEF CallRecord
        <4> QED  BY <2>4, <4>1
      <3>3. CASE (cl[d].on # n \/ cl[d].phase \notin {"pending", "parked"}) /\ call'[d] = cl[d]
        <4>1. cl[d].phase # "fallback"
          BY <2>4, <3>3
        <4>2. cl[d] = call[d]
          BY <1>2, <4>1
        <4> QED  BY <3>3, <4>2
      <3> QED  BY <2>3, <3>1, <3>2, <3>3
    <2>5. ASSUME NEW d \in Calls, call[d].phase = "pending", call[d].on # n
          PROVE  call'[d] = call[d]
      BY <1>2, <2>3, <2>5
    <2> QED  BY <2>2, <2>4, <2>5
  <1> DEFINE gone == [Unused EXCEPT !.state = "dead"]
  <1>0. gone \in Channel /\ gone.state = "dead"
    <2>1. Unused \in Channel
      BY DEF Unused, Channel
    <2> QED  BY <2>1 DEF Channel
  <1>4. chan' = [chan EXCEPT ![n] = gone] /\ chan' \in [Streams -> Channel]
    BY <1>0 DEF StreamsInv, StreamTypes, Destroy, Died
  <1> HIDE DEF gone
  <1>5. StreamTypes'
    BY <1>3, <1>4 DEF StreamsInv, StreamTypes, Destroy, Forgotten
  <1>6. Undisturbed
    BY <1>0, <1>3, <1>4 DEF StreamsInv, StreamTypes, Destroy, Undisturbed, IsDead, IsLive, Awaits, InPhase, Wired, Due
  <1>7. PoolIsSound'
    BY <1>0, <1>4, StreamsArePositive DEF StreamsInv, StreamTypes, Destroy, Forgotten, PoolIsSound
  <1>8. NobodySleepsThrough'
    <2> SUFFICES ASSUME NEW d \in Calls, call'[d].phase \in {"parked", "pending"}
                 PROVE  /\ call'[d].phase = "parked" => chan'[call'[d].on].state = "open" /\ chan'[call'[d].on].gate
                        /\ call'[d].phase = "pending" => chan'[call'[d].on].state = "open"
      BY DEF NobodySleepsThrough, InPhase
    <2>1. call'[d] = call[d] /\ call[d].on # n /\ call[d].on \in Streams
      BY <1>3 DEF StreamsInv, StreamTypes, CallRecord, OnStream
    <2>2. chan'[call[d].on] = chan[call[d].on]
      BY <1>4, <2>1 DEF StreamsInv, StreamTypes
    <2> QED  BY <2>1, <2>2 DEF StreamsInv, NobodySleepsThrough, InPhase
  <1> QED  BY <1>5, <1>6, <1>7, <1>8, UndisturbedKeepsWired DEF StreamsInv

LEMMA EndsKeep ==
    ASSUME StreamsInv, NEW n \in Streams, StreamEnds(n) \/ Retire(n) PROVE StreamsInv'
  <1>1. Destroy(n, call) /\ wire' = wire /\ served' = served /\ answer' = answer
    BY DEF StreamEnds, Retire
  <1> QED  BY <1>1, DestroyKeeps

LEMMA TimeoutKeeps == ASSUME StreamsInv, NEW c \in Calls, RequestTimesOut(c) PROVE StreamsInv'
  <1>1. call[c].on \in Streams
    BY DEF StreamsInv, StreamTypes, RequestTimesOut, InPhase, CallRecord, OnStream
  <1>2. Destroy(call[c].on, call) /\ wire' = wire /\ served' = served /\ answer' = answer
    BY DEF RequestTimesOut
  <1> QED  BY <1>1, <1>2, DestroyKeeps

----------------------------------------------------------------------------
(* Resuming on a stream. *)

\* A call that awaits nothing gives the stream up, or goes to wait at a closed gate.
LEMMA StepAsideKeeps ==
    ASSUME StreamsInv, NEW c \in Calls, call[c].phase \in {"opening", "woken"},
           \/ call' = Left(call, c, "failed") \/ call' = Left(call, c, "fallback")
           \/ call' = Moved(call, c, "parked") /\ IsLive(call[c].on) /\ chan[call[c].on].gate,
           UNCHANGED <<pool, chan, wire, responses, answer, served>>
    PROVE  StreamsInv'
  <1>1. call' \in [Calls -> CallRecord]
    <2>1. /\ {"failed", "fallback"} \subseteq Phases \ OnStream
          /\ {"opening", "woken", "parked"} \subseteq OnStream /\ "parked" \in Phases
      BY DEF Phases, OnStream
    <2>2. call \in [Calls -> CallRecord]
      BY DEF StreamsInv, StreamTypes
    <2>3. Left(call, c, "failed") \in [Calls -> CallRecord] /\ Left(call, c, "fallback") \in [Calls -> CallRecord]
      BY <2>1, <2>2, LeftTyped
    <2>4. Moved(call, c, "parked") \in [Calls -> CallRecord]
      BY <2>1, <2>2, MovedTyped
    <2> QED  BY <2>3, <2>4
  <1>2. StreamTypes'
    BY <1>1 DEF StreamsInv, StreamTypes
  <1>3. \A d \in Calls : d # c => call'[d] = call[d]
    BY DEF StreamsInv, StreamTypes, Moved, Left
  <1>4. call'[c].phase \in {"failed", "fallback"} \/ (call'[c].phase = "parked" /\ call'[c].on = call[c].on
                                                     /\ IsLive(call[c].on) /\ chan[call[c].on].gate)
    BY DEF StreamsInv, StreamTypes, Moved, Left, CallRecord
  <1>5. Undisturbed
    BY <1>3, <1>4 DEF StreamsInv, Undisturbed, IsDead, IsLive, Awaits, InPhase, Wired, Due
  <1>6. PoolIsSound'
    BY DEF StreamsInv, PoolIsSound
  <1>7. NobodySleepsThrough'
    BY <1>3, <1>4 DEF StreamsInv, NobodySleepsThrough, InPhase, IsLive
  <1> QED  BY <1>2, <1>5, <1>6, <1>7, UndisturbedKeepsWired DEF StreamsInv

LEMMA WriteKeeps ==
    ASSUME StreamsInv, NEW c \in Calls, NEW n \in Streams, IsLive(n),
           call[c].phase \in {"opening", "woken"}, call[c].on = n,
           Write(c, n), answer' = answer, served' = served
    PROVE  StreamsInv'
  <1>1. CASE Destroy(n, Left(call, c, "fallback")) /\ UNCHANGED wire
    BY <1>1, DestroyKeeps DEF InPhase
  <1>2. CASE \E room \in BOOLEAN :
               /\ call' = Moved(call, c, "pending")
               /\ chan' = [chan EXCEPT ![n].gate = @ \/ ~room]
               /\ wire' = wire \cup {[via |-> n, of |-> c]}
               /\ UNCHANGED <<pool, responses>>
    <2>1. PICK shut \in BOOLEAN :
             /\ call' = Moved(call, c, "pending")
             /\ chan' = [chan EXCEPT ![n].gate = @ \/ shut]
             /\ wire' = wire \cup {[via |-> n, of |-> c]}
             /\ UNCHANGED <<pool, responses>>
      BY <1>2
    <2>2. call' \in [Calls -> CallRecord]
      <3>1. "opening" \in OnStream /\ "woken" \in OnStream /\ "pending" \in OnStream /\ "pending" \in Phases
        BY DEF OnStream, Phases
      <3> QED  BY <2>1, <3>1, MovedTyped DEF StreamsInv, StreamTypes
    <2>3. /\ chan' \in [Streams -> Channel]
          /\ \A k \in Streams : chan'[k].state = chan[k].state /\ (chan[k].gate => chan'[k].gate)
      BY <2>1 DEF StreamsInv, StreamTypes, Channel
    <2>4. [via |-> n, of |-> c] \in Request
      BY DEF Request
    <2>5. StreamTypes'
      BY <2>1, <2>2, <2>3, <2>4 DEF StreamsInv, StreamTypes
    <2>6. /\ \A d \in Calls : d # c => call'[d] = call[d]
          /\ call'[c].phase = "pending" /\ call'[c].on = n
      BY <2>1 DEF StreamsInv, StreamTypes, Moved, CallRecord
    <2>7. \A d \in Calls, k \in Streams : Awaits(d, k) => Awaits(d, k)'
      BY <2>6 DEF Awaits
    <2>8. Owed'
      <3> SUFFICES ASSUME NEW w \in wire', w.via \in Streams
                   PROVE  IsDead(w.via)' \/ (IsLive(w.via)' /\ Awaits(w.of, w.via)')
        BY DEF Owed
      <3>1. CASE w \in wire
        BY <2>3, <2>7, <3>1 DEF StreamsInv, StreamTypes, Request, Wired, Owed, IsLive, IsDead
      <3>2. CASE w = [via |-> n, of |-> c]
        BY <2>3, <2>6, <3>2 DEF IsLive, Awaits
      <3> QED  BY <2>1, <3>1, <3>2
    <2>9. Due'
      BY <2>1, <2>3, <2>7 DEF StreamsInv, StreamTypes, Response, Wired, Due, IsLive
    <2>10. OneEach'
      <3>1. \A r \in responses : ~(r.via = n /\ r.of = c)
        BY DEF StreamsInv, Wired, Due, Awaits
      <3> QED  BY <2>1, <3>1 DEF StreamsInv, Wired, OneEach
    <2>11. AnswersAreOwn'
      BY <2>6 DEF StreamsInv, Wired, AnswersAreOwn, InPhase
    <2>12. PoolIsSound'
      BY <2>1, <2>3 DEF StreamsInv, PoolIsSound
    <2>13. NobodySleepsThrough'
      <3> SUFFICES ASSUME NEW d \in Calls, call'[d].phase \in {"parked", "pending"}
                   PROVE  /\ call'[d].phase = "parked" => chan'[call'[d].on].state = "open" /\ chan'[call'[d].on].gate
                          /\ call'[d].phase = "pending" => chan'[call'[d].on].state = "open"
        BY DEF NobodySleepsThrough, InPhase
      <3>1. CASE d = c
        BY <2>3, <2>6, <3>1 DEF IsLive
      <3>2. CASE d # c
        <4>1. call'[d] = call[d] /\ call[d].on \in Streams
          BY <2>6, <3>2 DEF StreamsInv, StreamTypes, CallRecord, OnStream
        <4> QED  BY <2>3, <4>1 DEF StreamsInv, NobodySleepsThrough, InPhase
      <3> QED  BY <3>1, <3>2
    <2> QED  BY <2>5, <2>8, <2>9, <2>10, <2>11, <2>12, <2>13 DEF StreamsInv, Wired
  <1> QED  BY <1>1, <1>2 DEF Write

LEMMA ResumeKeeps == ASSUME StreamsInv, NEW c \in Calls, Resume(c) \/ Wake(c) PROVE StreamsInv'
  <1>1. /\ call[c].phase \in {"opening", "woken"} /\ call[c].on \in Streams
        /\ answer' = answer /\ served' = served
    BY DEF StreamsInv, StreamTypes, CallRecord, OnStream, Resume, Wake, InPhase
  <1>2. CASE IsLive(call[c].on) /\ Write(c, call[c].on)
    BY <1>1, <1>2, WriteKeeps
  <1>3. CASE ~(IsLive(call[c].on) /\ Write(c, call[c].on))
    <2>1. /\ UNCHANGED <<pool, chan, wire, responses>>
          /\ \/ call' = Left(call, c, "failed") \/ call' = Left(call, c, "fallback")
             \/ call' = Moved(call, c, "parked") /\ IsLive(call[c].on) /\ chan[call[c].on].gate
      BY <1>3 DEF Resume, Wake, IsLive
    <2> QED  BY <1>1, <2>1, StepAsideKeeps
  <1> QED  BY <1>2, <1>3

----------------------------------------------------------------------------
(* Responses. *)

\* A response without an id goes to the only call pending on its stream, and the call it was
\* made for is pending there: they are the same.
LEMMA AddresseeIsOwn ==
    ASSUME StreamsInv, NEW r \in responses, r.via \in Streams
    PROVE  Addressee(r) \subseteq {r.of}
  <1>1. r.of \in Calls /\ r.of \in Pending(r.via) /\ r.id \in {r.of, NoCall}
    BY DEF StreamsInv, StreamTypes, Response, Wired, Due, Awaits, Pending, InPhase
  <1>2. ASSUME NEW c \in Addressee(r)  PROVE c = r.of
    <2>1. c \in Calls /\ (r.id = c \/ (r.id = NoCall /\ Pending(r.via) = {c}))
      BY DEF Addressee, Pending
    <2> QED  BY <1>1, <2>1, NoCallIsNotACall
  <1> QED  BY <1>2

LEMMA SettleKeeps == ASSUME StreamsInv, NEW r \in responses, Settle(r) PROVE StreamsInv'
  <1> DEFINE n == r.via
             D == Addressee(r)
  <1>1. r \in Response /\ n \in Streams /\ r.of \in Calls /\ served[r.of] > 0 /\ Awaits(r.of, n)
    BY DEF StreamsInv, StreamTypes, Response, Settle, Wired, Due, Own
  <1>2. D \subseteq {r.of}
    BY <1>1, AddresseeIsOwn
  <1> HIDE DEF D
  <1>3. [phase |-> "answered", on |-> 0] \in CallRecord
    BY DEF CallRecord, Phases, OnStream
  <1>4. /\ call' = [c \in Calls |-> IF c \in D THEN [phase |-> "answered", on |-> 0] ELSE call[c]]
        /\ answer' = [c \in Calls |-> IF c \in D THEN r.of ELSE answer[c]]
        /\ responses' = responses \ {r} /\ wire' = wire /\ served' = served /\ UNCHANGED <<pool, chan>>
    BY DEF Settle, D
  <1>5. StreamTypes'
    BY <1>1, <1>3, <1>4 DEF StreamsInv, StreamTypes
  <1>6. \A c \in Calls, k \in Streams : (Awaits(c, k) /\ ~(c = r.of /\ k = n)) => Awaits(c, k)'
    BY <1>1, <1>2, <1>4 DEF Awaits
  <1>7. Owed'
    <2> SUFFICES ASSUME NEW w \in wire', w.via \in Streams
                 PROVE  IsDead(w.via)' \/ (IsLive(w.via)' /\ Awaits(w.of, w.via)')
      BY DEF Owed
    <2>1. w \in wire /\ w.of \in Calls /\ ~(w.of = r.of /\ w.via = n)
      BY <1>1, <1>4 DEF StreamsInv, StreamTypes, Request, Wired, OneEach
    <2> QED  BY <1>4, <1>6, <2>1 DEF StreamsInv, Wired, Owed, IsLive, IsDead
  <1>8. Due'
    <2> SUFFICES ASSUME NEW s \in responses'
                 PROVE  /\ served'[s.of] > 0
                        /\ s.id \in {s.of, NoCall}
                        /\ s.via \in Streams => IsLive(s.via)' /\ Awaits(s.of, s.via)'
      BY DEF Due
    <2>1. s \in responses /\ s # r /\ s.of \in Calls /\ (s.via \in Streams => ~(s.of = r.of /\ s.via = n))
      BY <1>1, <1>4 DEF StreamsInv, StreamTypes, Response, Wired, OneEach
    <2> QED  BY <1>4, <1>6, <2>1 DEF StreamsInv, Wired, Due, IsLive
  <1>9. OneEach'
    BY <1>4 DEF StreamsInv, Wired, OneEach
  <1>10. AnswersAreOwn'
    <2> SUFFICES ASSUME NEW c \in Calls, call'[c].phase = "answered"
                 PROVE  answer'[c] = c /\ served'[c] > 0
      BY DEF AnswersAreOwn, InPhase
    <2>1. CASE c \in D
      BY <1>1, <1>2, <1>4, <2>1
    <2>2. CASE c \notin D
      BY <1>4, <2>2 DEF StreamsInv, Wired, AnswersAreOwn, InPhase
    <2> QED  BY <2>1, <2>2
  <1>11. PoolIsSound'
    BY <1>4 DEF StreamsInv, PoolIsSound
  <1>12. NobodySleepsThrough'
    BY <1>4 DEF StreamsInv, NobodySleepsThrough, InPhase
  <1> QED  BY <1>5, <1>7, <1>8, <1>9, <1>10, <1>11, <1>12 DEF StreamsInv, Wired

LEMMA ServeKeeps == ASSUME StreamsInv, NEW w \in wire, Serve(w) PROVE StreamsInv'
  <1>1. w \in Request /\ w.of \in Calls
    BY DEF StreamsInv, StreamTypes, Request
  <1>2. /\ wire' = wire \ {w} /\ UNCHANGED <<pool, chan, call, answer>>
        /\ served' = [served EXCEPT ![w.of] = @ + 1]
    BY DEF Serve, Unread, client
  <1>3. PICK id \in {w.of, NoCall} :
           responses' = responses \/ (Reads(w.via, w.of) /\
              responses' = responses \cup {[via |-> w.via, of |-> w.of, id |-> id]})
    BY DEF Serve
  <1>4. StreamTypes'
    <2>1. [via |-> w.via, of |-> w.of, id |-> id] \in Response
      BY <1>1 DEF Request, Response
    <2>2. served' \in [Calls -> Nat]
      BY <1>1, <1>2 DEF StreamsInv, StreamTypes
    <2> QED  BY <1>2, <1>3, <2>1, <2>2 DEF StreamsInv, StreamTypes
  <1>5. \A c \in Calls : served[c] > 0 => served'[c] > 0
    BY <1>1, <1>2 DEF StreamsInv, StreamTypes
  <1>6. served'[w.of] > 0
    BY <1>1, <1>2 DEF StreamsInv, StreamTypes
  <1>7. Owed'
    BY <1>2 DEF StreamsInv, Wired, Owed, IsLive, IsDead, Awaits
  <1>8. Due'
    <2> SUFFICES ASSUME NEW s \in responses'
                 PROVE  /\ served'[s.of] > 0
                        /\ s.id \in {s.of, NoCall}
                        /\ s.via \in Streams => IsLive(s.via)' /\ Awaits(s.of, s.via)'
      BY DEF Due
    <2>1. CASE s \in responses
      <3>1. s.of \in Calls
        BY <2>1 DEF StreamsInv, StreamTypes, Response
      <3> QED  BY <1>2, <1>5, <2>1, <3>1 DEF StreamsInv, Wired, Due, IsLive, Awaits
    <2>2. CASE s \notin responses
      <3>1. s = [via |-> w.via, of |-> w.of, id |-> id] /\ Reads(w.via, w.of)
        BY <1>3, <2>2
      <3>2. w.via \in Streams => IsLive(w.via) /\ Awaits(w.of, w.via)
        BY <3>1, StreamsArePositive DEF Reads, StreamsInv, Wired, Owed, IsLive, IsDead
      <3> QED  BY <1>2, <1>6, <3>1, <3>2 DEF IsLive, Awaits
    <2> QED  BY <2>1, <2>2
  <1>9. OneEach'
    <2>1. \A r \in responses : ~(r.via \in Streams /\ r.via = w.via /\ r.of = w.of)
      BY DEF StreamsInv, Wired, OneEach
    <2>2. \A v \in wire' : v \in Request /\ v \in wire /\ v # w
      BY <1>2 DEF StreamsInv, StreamTypes
    <2>3. \A v \in wire' : ~(v.via = w.via /\ v.of = w.of)
      BY <1>1, <2>2 DEF Request
    <2> QED  BY <1>3, <2>1, <2>2, <2>3 DEF StreamsInv, Wired, OneEach
  <1>10. AnswersAreOwn'
    BY <1>2, <1>5 DEF StreamsInv, Wired, AnswersAreOwn, InPhase
  <1>11. PoolIsSound' /\ NobodySleepsThrough'
    BY <1>2 DEF StreamsInv, PoolIsSound, NobodySleepsThrough, InPhase
  <1> QED  BY <1>4, <1>7, <1>8, <1>9, <1>10, <1>11 DEF StreamsInv, Wired

----------------------------------------------------------------------------
(* The specification. *)

LEMMA StreamsInitIsInv == StreamsInit => StreamsInv
  <1> SUFFICES ASSUME StreamsInit PROVE StreamsInv
    OBVIOUS
  <1>1. StreamTypes
    BY DEF StreamsInit, StreamTypes, Unused, Channel, CallRecord, Phases, OnStream
  <1>2. PoolIsSound
    BY StreamsArePositive DEF StreamsInit, PoolIsSound, Unused
  <1>3. NobodySleepsThrough
    BY DEF StreamsInit, NobodySleepsThrough, InPhase
  <1>4. Wired
    BY DEF StreamsInit, Wired, Owed, Due, OneEach, AnswersAreOwn, InPhase
  <1> QED  BY <1>1, <1>2, <1>3, <1>4 DEF StreamsInv

LEMMA StreamsStepKeepsInv == ASSUME StreamsInv, [StreamsNext]_streamVars PROVE StreamsInv'
  <1>1. CASE CallerStep
    BY <1>1, AskKeeps, ResumeKeeps, TimeoutKeeps, SingleShotKeeps, SingleShotFailsKeeps DEF CallerStep
  <1>2. CASE ReplyStep
    BY <1>2, SettleKeeps, SingleShotAnsweredKeeps DEF ReplyStep
  <1>3. CASE StreamStep
    BY <1>3, DirectKeeps, OpenSucceedsKeeps, OpenFailsKeeps, EndsKeep, DrainKeeps DEF StreamStep
  <1>4. CASE PeerStep
    BY <1>4, ServeKeeps DEF PeerStep
  <1>5. CASE UNCHANGED streamVars
    <2>1. Undisturbed /\ StreamTypes' /\ PoolIsSound' /\ NobodySleepsThrough'
      BY <1>5 DEF streamVars, client, peer, StreamsInv, StreamTypes, PoolIsSound, NobodySleepsThrough, InPhase, Undisturbed,
                  IsDead, IsLive, Awaits, Wired, Due
    <2> QED  BY <2>1, UndisturbedKeepsWired DEF StreamsInv
  <1> QED  BY <1>1, <1>2, <1>3, <1>4, <1>5 DEF StreamsNext

LEMMA StreamsInvHolds == StreamsSpec => []StreamsInv
  BY StreamsInitIsInv, StreamsStepKeepsInv, PTL DEF StreamsSpec

\* Whatever dies when, the pool holds the channel that opens or is open and no other
\* (muxRequest and watchDirectUpgrades of streammux.ts).
THEOREM PoolStaysSound == StreamsSpec => []PoolIsSound
  BY StreamsInvHolds, PTL DEF StreamsInv

\* Nobody waits at the drain gate of a dead channel or at an open gate, nor for a response
\* on a dead channel (armDrainGate and destroy of streammux.ts).
THEOREM NobodyIsLeftAsleep == StreamsSpec => []NobodySleepsThrough
  BY StreamsInvHolds, PTL DEF StreamsInv

\* A call is only given its own response, also when responses carry no request id (settle
\* of streammux.ts).
THEOREM AnswersBelong == StreamsSpec => []AnswersAreOwn
  BY StreamsInvHolds, PTL DEF StreamsInv, Wired

----------------------------------------------------------------------------
(* RoutedRequest, for any network, hop limit, fan-out and faults.          *)
(*                                                                         *)
(* The target performs it at most once in one life.  Claiming the id is not*)
(* enough for this: the cache forgets ids that have expired.  What carries *)
(* the proof is that an id that was performed is claimed or has expired,   *)
(* and that openRoutedRequest looks at the clock once more after the claim.*)
(*                                                                         *)
(* "No route" is not said wrongly.  While nothing disturbs the search, the *)
(* neighbours of every peer reached are reached or have a copy on its way, *)
(* and the target's answer, from the moment a copy reaches it, is awaited  *)
(* hop by hop down to the origin.                                          *)

Guarded ==
    /\ seen \in [Peers -> BOOLEAN] /\ expired \in [Peers -> BOOLEAN]
    /\ ran \in {0, 1}
    /\ ran = 1 => seen[Target] \/ expired[Target]

\* A step that neither performs the operation nor forgets a claim keeps it.
LEMMA KeptGuarded ==
    ASSUME Guarded, UNCHANGED <<seen, expired, ran>>
    PROVE  Guarded'
  BY DEF Guarded

\* The handler of peer.route: refusing, performing or forwarding.
LEMMA ReceiveKeepsGuarded ==
    ASSUME Guarded, NEW t \in copies, Receive(t)
    PROVE  Guarded'
  <1> DEFINE n == At(t)
  <1>1. PICK checked \in BOOLEAN, claiming \in BOOLEAN, opening \in BOOLEAN :
           /\ expired[n] => checked
           /\ checked => claiming
           /\ claiming => opening
           /\ expired' = [expired EXCEPT ![n] = opening]
           /\ \/ Invalid(t, n, checked, claiming)
              \/ /\ ~checked /\ Claimable(n, claiming)
                 /\ seen' = [seen EXCEPT ![n] = TRUE]
                 /\ Perform(t, n, opening) \/ Forward(t, n)
    BY DEF Receive
  <1> HIDE DEF n
  <1>2. expired' \in [Peers -> BOOLEAN] /\ (expired[Target] => expired'[Target])
    <2>1. expired' \in [Peers -> BOOLEAN]
      BY <1>1 DEF Guarded
    <2>2. CASE n = Target
      BY <1>1, <2>2, EndsDiffer DEF Guarded
    <2>3. CASE n # Target
      BY <1>1, <2>3, EndsDiffer DEF Guarded
    <2> QED  BY <2>1, <2>2, <2>3
  <1>3. CASE Invalid(t, n, checked, claiming)
    <2>1. ran' = ran
      BY <1>3 DEF Invalid, Refuse
    <2>2. seen' \in [Peers -> BOOLEAN]
      BY <1>3 DEF Invalid, Guarded
    <2>3. seen[Target] => seen'[Target] \/ expired'[Target]
      BY <1>1, <1>3, EndsDiffer DEF Invalid, Guarded
    <2> QED  BY <1>2, <2>1, <2>2, <2>3 DEF Guarded
  <1>4. CASE /\ ~checked /\ Claimable(n, claiming)
             /\ seen' = [seen EXCEPT ![n] = TRUE]
             /\ Perform(t, n, opening) \/ Forward(t, n)
    <2>1. seen' \in [Peers -> BOOLEAN] /\ (seen[Target] => seen'[Target])
      <3>1. seen' = [seen EXCEPT ![n] = TRUE] /\ seen \in [Peers -> BOOLEAN]
        BY <1>4 DEF Guarded
      <3> QED  BY <3>1, EndsDiffer
    <2>2. CASE ran' = ran
      BY <1>2, <2>1, <2>2 DEF Guarded
    <2>3. CASE ran' # ran
      <3>1. n = Target /\ ~opening /\ ran' = ran + 1
        BY <1>4, <2>3 DEF Perform, Forward, Refuse, Opens
      <3>2. ~seen[Target] /\ ~expired[Target]
        BY <1>1, <1>4, <3>1 DEF Claimable
      <3>3. ran = 0
        BY <3>2 DEF Guarded
      <3>4. seen'[Target]
        BY <1>4, <3>1, EndsDiffer DEF Guarded
      <3> QED  BY <1>2, <2>1, <3>1, <3>3, <3>4 DEF Guarded
    <2> QED  BY <2>2, <2>3
  <1> QED  BY <1>1, <1>3, <1>4

\* A restart forgets the claim together with the life it belongs to.
LEMMA RestartKeepsGuarded ==
    ASSUME Guarded, NEW n \in Peers, Restart(n)
    PROVE  Guarded'
  BY EndsDiffer DEF Restart, Guarded

LEMMA StepKeepsGuarded ==
    ASSUME Guarded, [Next]_vars
    PROVE  Guarded'
  <1>1. CASE Route
    BY <1>1, KeptGuarded DEF Route
  <1>2. ASSUME NEW r \in replies, Answered(r)  PROVE Guarded'
    BY <1>2, KeptGuarded DEF Answered
  <1>3. ASSUME NEW c \in calls, Timeout(c)  PROVE Guarded'
    BY <1>3, KeptGuarded DEF Timeout
  <1>4. ASSUME NEW t \in copies, Receive(t)  PROVE Guarded'
    BY <1>4, ReceiveKeepsGuarded
  <1>5. ASSUME NEW t \in handled, Performed(t)  PROVE Guarded'
    BY <1>5, KeptGuarded DEF Performed
  <1>6. ASSUME NEW n \in Peers, Restart(n)  PROVE Guarded'
    BY <1>6, RestartKeepsGuarded
  <1>7. CASE UNCHANGED vars
    BY <1>7, KeptGuarded DEF vars
  <1> QED  BY <1>1, <1>2, <1>3, <1>4, <1>5, <1>6, <1>7 DEF Next

\* However many copies of a request reach the target, over whatever paths, attempts and
\* moments of its clock, one life of the target performs it once (peer.route of
\* inbound.ts, claimRoutedRequest and openRoutedRequest of routedRequest.ts).
THEOREM PerformedOnce == Spec => []HandledOnce
  <1>1. Init => Guarded
    BY DEF Init, Guarded
  <1>2. Guarded /\ [Next]_vars => Guarded'
    BY StepKeepsGuarded
  <1>3. Guarded => HandledOnce
    BY DEF Guarded, HandledOnce
  <1> QED  BY <1>1, <1>2, <1>3, PTL DEF Spec
----------------------------------------------------------------------------
(* No route: what an undisturbed search keeps until it ends.               *)

Paths == Seq(Peers \X Attempts)
Prefix(t, k) == SubSeq(t, 1, k)
StrictlyExtends(u, t) == Len(t) < Len(u) /\ Prefix(u, Len(t)) = t

\* The trails something is still done with, and those that carry the target's answer.
Live == copies \cup handled \cup forwards \cup {r.trail : r \in replies}
Tokens == handled \cup {r.trail : r \in {s \in replies : s.ok}}

\* Every peer before the last of t waits for the next one.
Chain(t) ==
    /\ result = "asked"
    /\ \A k \in 1..Len(t) : Hop(Prefix(t, k)) \in calls
    /\ \A k \in 1..Len(t) - 1 : Prefix(t, k) \in forwards

Reached(p) == (p = Origin /\ result # "none") \/ (seen[p] /\ p # Target)

Types ==
    /\ calls \subseteq [from : Paths, to : Peers, try : Attempts]
    /\ Live \subseteq Paths \ {<<>>}
    /\ \A r \in replies : r = [trail |-> r.trail, ok |-> r.ok] /\ r.ok \in BOOLEAN
    /\ seen \in [Peers -> BOOLEAN]
Idle == result = "none" => calls = {} /\ Live = {} /\ \A p \in Peers : ~seen[p]
\* A trail is at one place, has one answer, and is not extended before it is received.
Apart ==
    /\ copies \cap handled = {} /\ copies \cap forwards = {} /\ handled \cap forwards = {}
    /\ \A r \in replies : r.trail \notin copies \cup handled \cup forwards
    /\ \A r, s \in replies : r.trail = s.trail => r = s
    /\ \A t \in copies, u \in Live : ~StrictlyExtends(u, t)
\* Answers are to hops awaited.
AskedFor == \A r \in replies : Hop(r.trail) \in calls
SeenOnPath == \A t \in copies : \A k \in 1..Len(t) - 1 : seen[t[k][1]]
\* Before the target is reached everything is awaited; its answer is awaited until it is
\* the origin's.
Unfound == ~seen[Target] => Tokens = {} /\ \A t \in Live : Chain(t)
Found == seen[Target] => \/ result = "ok" /\ Tokens = {}
                         \/ \E t \in Tokens : Tokens = {t} /\ Chain(t)
\* The neighbours of who was reached are reached, or a copy is on its way to them.
Closed ==
    \A p \in Peers : Reached(p) =>
        \A q \in Neighbours(p) : q = Origin \/ seen[q] \/ \E t \in copies : At(t) = q

Search == Apart /\ AskedFor /\ SeenOnPath /\ Unfound /\ Found /\ Closed
Calm == ~disturbed /\ ~spoilt
Searched == Types /\ Idle /\ (Calm => Search)

(* Trails. *)

LEMMA PrefixIs ==
    ASSUME NEW t \in Paths, NEW k \in 0..Len(t)
    PROVE  /\ Prefix(t, k) \in Paths /\ Len(Prefix(t, k)) = k
           /\ \A i \in 1..k : Prefix(t, k)[i] = t[i]
  BY DEF Prefix, Paths

LEMMA SamePath ==
    ASSUME NEW t \in Paths, NEW u \in Paths, Len(t) = Len(u), \A i \in 1..Len(t) : t[i] = u[i]
    PROVE  t = u
  BY SeqEqual DEF Paths

LEMMA PrefixAll == ASSUME NEW t \in Paths PROVE Prefix(t, Len(t)) = t
  <1>1. Len(t) \in 0..Len(t)
    BY DEF Paths
  <1> QED  BY <1>1, PrefixIs, SamePath

LEMMA PrefixOfPrefix ==
    ASSUME NEW t \in Paths, NEW k \in 0..Len(t), NEW j \in 0..k
    PROVE  Prefix(Prefix(t, k), j) = Prefix(t, j)
  <1> DEFINE u == Prefix(t, k)
  <1>1. u \in Paths /\ Len(u) = k /\ \A i \in 1..k : u[i] = t[i]
    BY PrefixIs
  <1>2. j \in 0..Len(t) /\ j \in 0..Len(u) /\ Len(t) \in Nat
    BY <1>1 DEF Paths
  <1> HIDE DEF u
  <1>3. Prefix(u, j) \in Paths /\ Len(Prefix(u, j)) = j /\ \A i \in 1..j : Prefix(u, j)[i] = u[i]
    BY <1>1, <1>2, PrefixIs
  <1>4. Prefix(t, j) \in Paths /\ Len(Prefix(t, j)) = j /\ \A i \in 1..j : Prefix(t, j)[i] = t[i]
    BY <1>2, PrefixIs
  <1>5. Prefix(u, j) = Prefix(t, j)
    BY <1>1, <1>3, <1>4, SamePath
  <1> QED  BY <1>5 DEF u

LEMMA Appended ==
    ASSUME NEW t \in Paths, NEW e \in Peers \X Attempts
    PROVE  /\ Append(t, e) \in Paths \ {<<>>} /\ Len(Append(t, e)) = Len(t) + 1
           /\ Append(t, e)[Len(t) + 1] = e
           /\ \A i \in 1..Len(t) : Append(t, e)[i] = t[i]
           /\ Len(t) \in Nat
  BY DEF Paths

LEMMA FirstHop ==
    ASSUME NEW e \in Peers \X Attempts
    PROVE  Append(<<>>, e) \in Paths \ {<<>>} /\ Len(Append(<<>>, e)) = 1 /\ Append(<<>>, e)[1] = e
  BY DEF Paths

LEMMA PrefixOfAppended ==
    ASSUME NEW t \in Paths, NEW e \in Peers \X Attempts, NEW k \in 0..Len(t)
    PROVE  Prefix(Append(t, e), k) = Prefix(t, k)
  <1> DEFINE u == Append(t, e)
  <1>1. u \in Paths /\ Len(u) = Len(t) + 1 /\ Len(t) \in Nat /\ \A i \in 1..Len(t) : u[i] = t[i]
    BY Appended
  <1> HIDE DEF u
  <1>2. Prefix(u, k) \in Paths /\ Len(Prefix(u, k)) = k /\ \A i \in 1..k : Prefix(u, k)[i] = u[i]
    BY <1>1, PrefixIs
  <1>3. Prefix(t, k) \in Paths /\ Len(Prefix(t, k)) = k /\ \A i \in 1..k : Prefix(t, k)[i] = t[i]
    BY PrefixIs
  <1>4. Prefix(u, k) = Prefix(t, k)
    BY <1>1, <1>2, <1>3, SamePath
  <1> QED  BY <1>4 DEF u

\* A nonempty trail, its hop, and that the hop tells the trail.
LEMMA HopIs ==
    ASSUME NEW t \in Paths, t # <<>>
    PROVE  /\ Len(t) \in Nat /\ Len(t) >= 1 /\ t[Len(t)] \in Peers \X Attempts
           /\ Front(t) = Prefix(t, Len(t) - 1) /\ Front(t) \in Paths /\ Len(Front(t)) = Len(t) - 1
           /\ Hop(t).from = Front(t)
           /\ Hop(t) = [from |-> Front(t), to |-> t[Len(t)][1], try |-> t[Len(t)][2]]
           /\ At(t) = t[Len(t)][1] /\ At(t) \in Peers
  <1>1. Len(t) \in Nat /\ Len(t) >= 1 /\ t[Len(t)] \in Peers \X Attempts
    BY EmptySeq DEF Paths
  <1>2. Front(t) = Prefix(t, Len(t) - 1)
    BY DEF Front, Prefix
  <1>3. Front(t) \in Paths /\ Len(Front(t)) = Len(t) - 1
    BY <1>1, <1>2, PrefixIs
  <1>4. Hop(t) = [from |-> Front(t), to |-> t[Len(t)][1], try |-> t[Len(t)][2]]
    BY DEF Hop, Last
  <1>5. At(t) = t[Len(t)][1]
    BY DEF At, Last
  <1> QED  BY <1>1, <1>2, <1>3, <1>4, <1>5

LEMMA HopTells ==
    ASSUME NEW t \in Paths, t # <<>>, NEW u \in Paths, u # <<>>, Hop(t) = Hop(u)
    PROVE  t = u
  <1>1. Front(t) = Front(u) /\ t[Len(t)][1] = u[Len(u)][1] /\ t[Len(t)][2] = u[Len(u)][2]
    BY HopIs
  <1>2. Len(t) = Len(u) /\ Len(t) \in Nat
    BY <1>1, HopIs
  <1>3. t[Len(t)] = u[Len(u)]
    BY <1>1, HopIs
  <1>4. ASSUME NEW i \in 1..Len(t) - 1  PROVE t[i] = u[i]
    <2>1. Len(t) - 1 \in 0..Len(t) /\ Len(u) - 1 \in 0..Len(u)
      BY HopIs
    <2>2. Prefix(t, Len(t) - 1)[i] = t[i] /\ Prefix(u, Len(u) - 1)[i] = u[i]
      BY <1>2, <2>1, PrefixIs
    <2>3. Prefix(t, Len(t) - 1) = Prefix(u, Len(u) - 1)
      BY <1>1, HopIs
    <2> QED  BY <2>2, <2>3
  <1> QED  BY <1>2, <1>3, <1>4, SamePath

\* A hop of a chain is of a trail; the one above it awaits it.
LEMMA PrefixHop ==
    ASSUME NEW t \in Paths, NEW k \in 1..Len(t)
    PROVE  /\ Prefix(t, k) \in Paths \ {<<>>} /\ Len(Prefix(t, k)) = k
           /\ Hop(Prefix(t, k)).from = Prefix(t, k - 1) /\ Front(Prefix(t, k)) = Prefix(t, k - 1)
  <1>1. k \in 0..Len(t) /\ k - 1 \in 0..k
    BY DEF Paths
  <1>2. Prefix(t, k) \in Paths /\ Len(Prefix(t, k)) = k
    BY <1>1, PrefixIs
  <1>3. Prefix(t, k) # <<>>
    BY <1>2, EmptySeq
  <1> QED  BY <1>1, <1>2, <1>3, HopIs, PrefixOfPrefix

(* An answer is collected. *)

\* The end of the hop of u, that t does not await, leaves the chain of t alone; so does the
\* end of what was forwarding u, when nothing else was awaited there.
LEMMA ChainStays ==
    ASSUME NEW t \in Paths \ {<<>>}, Chain(t), NEW u \in Paths \ {<<>>}, u # t, u \notin forwards,
           calls' = calls \ {Hop(u)},
           \/ forwards' = forwards /\ result' = result
           \/ /\ forwards' = forwards \ {Front(u)} /\ (Front(u) # <<>> => result' = result)
              /\ \A d \in calls : d.from = Front(u) => d = Hop(u)
    PROVE  Chain(t)'
  <1>1. ASSUME NEW k \in 1..Len(t)  PROVE Hop(Prefix(t, k)) \in calls /\ Hop(Prefix(t, k)) # Hop(u)
    <2>1. Hop(Prefix(t, k)) \in calls
      BY DEF Chain
    <2>2. Prefix(t, k) \in Paths \ {<<>>}
      BY PrefixHop
    <2>3. SUFFICES ASSUME Prefix(t, k) = u  PROVE FALSE
      BY <2>1, <2>2, HopTells
    <2>4. k \in 1..Len(t) - 1 \/ k = Len(t)
      BY DEF Paths
    <2>5. CASE k = Len(t)
      BY <2>3, <2>5, PrefixAll
    <2>6. CASE k \in 1..Len(t) - 1
      BY <2>3, <2>6 DEF Chain
    <2> QED  BY <2>4, <2>5, <2>6
  <1>2. ASSUME NEW k \in 1..Len(t) - 1  PROVE Prefix(t, k) \in forwards'
    <2>1. Prefix(t, k) \in forwards
      BY DEF Chain
    <2>2. CASE forwards' = forwards
      BY <2>1, <2>2
    <2>3. CASE /\ forwards' = forwards \ {Front(u)}
               /\ \A d \in calls : d.from = Front(u) => d = Hop(u)
      <3>1. k + 1 \in 1..Len(t) /\ (k + 1) - 1 = k
        BY DEF Paths
      <3>2. Hop(Prefix(t, k + 1)).from = Prefix(t, k)
        BY <3>1, PrefixHop
      <3>3. Prefix(t, k) # Front(u)
        BY <1>1, <2>3, <3>1, <3>2
      <3> QED  BY <2>1, <2>3, <3>3
    <2> QED  BY <2>2, <2>3
  <1>3. result' = "asked"
    <2>1. result = "asked"
      BY DEF Chain
    <2>2. CASE Front(u) = <<>> /\ \A d \in calls : d.from = Front(u) => d = Hop(u)
      <3>1. 1 \in 1..Len(t)
        BY HopIs
      <3>2. Hop(Prefix(t, 1)).from = Prefix(t, 0)
        BY <3>1, PrefixHop
      <3>3. Prefix(t, 0) = <<>>
        BY <3>1, PrefixIs, EmptySeq DEF Paths
      <3> QED  BY <1>1, <2>2, <3>1, <3>2, <3>3
    <2> QED  BY <2>1, <2>2
  <1> QED  BY <1>1, <1>2, <1>3 DEF Chain

\* When a usable answer arrives the chain is one shorter.
LEMMA ChainShrinks ==
    ASSUME NEW u \in Paths \ {<<>>}, Chain(u), Front(u) # <<>>,
           calls' = calls \ {Hop(u)}, forwards' = forwards \ {Front(u)}, result' = result
    PROVE  Chain(Front(u))' /\ Hop(Front(u)) \in calls'
  <1> DEFINE s == Front(u)
  <1>1. s \in Paths /\ Len(u) \in Nat /\ Len(s) = Len(u) - 1 /\ s = Prefix(u, Len(u) - 1)
    BY HopIs
  <1>2. Len(s) \in Nat /\ Len(s) >= 1
    BY <1>1, HopIs
  <1>3. ASSUME NEW k \in 1..Len(s)
        PROVE  Prefix(s, k) = Prefix(u, k) /\ Hop(Prefix(s, k)) \in calls'
    <2>1. k \in 1..Len(u) /\ Len(u) - 1 \in 0..Len(u) /\ k \in 0..(Len(u) - 1) /\ k - 1 \in 0..Len(u)
      BY <1>1
    <2>2. Prefix(s, k) = Prefix(u, k)
      BY <1>1, <2>1, PrefixOfPrefix
    <2>3. Hop(Prefix(u, k)) \in calls /\ Hop(Prefix(u, k)).from = Prefix(u, k - 1)
      BY <2>1, PrefixHop DEF Chain
    <2>4. Len(Prefix(u, k - 1)) = k - 1
      BY <2>1, PrefixIs
    <2>5. Hop(Prefix(u, k)).from # s /\ Hop(u).from = s
      BY <1>1, <2>3, <2>4, HopIs
    <2> QED  BY <2>2, <2>3, <2>5
  <1>4. ASSUME NEW k \in 1..Len(s) - 1  PROVE Prefix(s, k) \in forwards'
    <2>1. k \in 1..Len(u) - 1 /\ k \in 1..Len(s) /\ k \in 0..Len(s) /\ k # Len(s)
      BY <1>1
    <2>2. Prefix(u, k) \in forwards /\ Prefix(s, k) = Prefix(u, k)
      BY <1>3, <2>1 DEF Chain
    <2>3. Len(Prefix(s, k)) = k
      BY <1>1, <2>1, PrefixIs
    <2> QED  BY <2>1, <2>2, <2>3
  <1>5. Hop(s) \in calls'
    BY <1>1, <1>2, <1>3, PrefixAll
  <1>6. result' = "asked"
    BY DEF Chain
  <1> QED  BY <1>3, <1>4, <1>5, <1>6 DEF Chain

\* Nothing is over: other hops of the same forwarding are still awaited, or it is over already.
LEMMA AnsweredKeepsWaiting ==
    ASSUME Types, Search, NEW r \in replies, ~r.ok,
           calls' = calls \ {Hop(r.trail)}, replies' = Awaiting(replies, calls'),
           UNCHANGED <<world, result, copies, forwards, handled, seen>>
    PROVE  Search'
  <1> DEFINE u == r.trail
  <1>1. u \in Paths \ {<<>>} /\ u \in Live /\ Hop(u) \in calls /\ u \notin copies \cup handled \cup forwards
    BY DEF Types, Search, AskedFor, Apart, Live
  <1>2. replies' \subseteq replies /\ Live' \subseteq Live /\ Tokens' \subseteq Tokens
    BY DEF Awaiting, Live, Tokens
  <1>3. \A x \in replies' : Hop(x.trail) \in calls' /\ x.trail # u
    BY DEF Awaiting
  <1>4. u \notin Live'
    BY <1>1, <1>3 DEF Live
  <1>5. ASSUME NEW t \in Paths \ {<<>>}, Chain(t), t # u  PROVE Chain(t)'
    BY <1>1, <1>5, ChainStays
  <1>6. Apart'
    BY <1>2 DEF Search, Apart
  <1>7. AskedFor'
    BY <1>3 DEF Search, AskedFor
  <1>8. SeenOnPath'
    BY DEF Search, SeenOnPath
  <1>9. Unfound'
    BY <1>2, <1>4, <1>5 DEF Search, Unfound, Types
  <1>10. Found'
    <2>1. SUFFICES ASSUME seen[Target], NEW t \in Tokens, Tokens = {t}, Chain(t)
                   PROVE  Tokens' = {t} /\ Chain(t)'
      BY <1>2 DEF Search, Found
    <2>2. t # u
      BY <1>1, <2>1 DEF Tokens, Search, Apart
    <2>3. t \in Paths \ {<<>>}
      BY DEF Tokens, Types, Live
    <2>4. Chain(t)'
      BY <1>5, <2>1, <2>2, <2>3
    <2>5. t \in Tokens'
      <3>1. Hop(t) \in calls'
        <4>1. Len(t) \in 1..Len(t)
          BY <2>3, HopIs
        <4> QED  BY <2>3, <2>4, <4>1, PrefixAll DEF Chain
      <3> QED  BY <2>1, <3>1 DEF Tokens, Awaiting
    <2> QED  BY <1>2, <2>1, <2>4, <2>5
  <1>11. Closed'
    BY DEF Search, Closed, Reached, Neighbours
  <1> QED  BY <1>6, <1>7, <1>8, <1>9, <1>10, <1>11 DEF Search

\* The forwarding of s is over, with the answer r or because nothing is left to await.
LEMMA AnsweredKeepsOver ==
    ASSUME Types, Search, NEW r \in replies, NEW s, s = Front(r.trail),
           IF s = <<>> THEN result = "asked" ELSE s \in forwards,
           ~r.ok => \A d \in calls : d.from = s => d = Hop(r.trail),
           calls' = calls \ {Hop(r.trail)}, forwards' = forwards \ {s},
           replies' = Awaiting(replies \cup (IF s # <<>> THEN {[trail |-> s, ok |-> r.ok]} ELSE {}), calls'),
           result' = IF s = <<>> THEN (IF r.ok THEN "ok" ELSE "null") ELSE result,
           UNCHANGED <<world, copies, handled, seen>>
    PROVE  Search'
  <1> DEFINE u == r.trail
             new == [trail |-> s, ok |-> r.ok]
  <1>1. u \in Paths \ {<<>>} /\ u \in Live /\ Hop(u) \in calls /\ u \notin copies \cup handled \cup forwards
    BY DEF Types, Search, AskedFor, Apart, Live
  <1>2. s \in Paths /\ s # u /\ Hop(u).from = s
    BY <1>1, HopIs
  <1>3. IF s = <<>> THEN result = "asked" ELSE s \in forwards
    OBVIOUS
  <1>n. new.trail = s /\ new.ok = r.ok
    OBVIOUS
  <1>4. \A x \in replies' : /\ Hop(x.trail) \in calls' /\ x.trail # u
                            /\ x \in replies \/ (s # <<>> /\ x = new)
    BY <1>2 DEF Awaiting
  <1> HIDE DEF new
  <1>5. Live' \subseteq Live /\ u \notin Live'
    <2>1. \A x \in replies' : x.trail \in Live /\ x.trail # u
      BY <1>3, <1>4, <1>n DEF Live
    <2>2. copies' \cup handled' \cup forwards' \subseteq copies \cup handled \cup forwards
      OBVIOUS
    <2>3. \A t \in copies \cup handled \cup forwards : t \in Live /\ t # u
      BY <1>1 DEF Live
    <2>4. \A t \in Live' : t \in copies' \cup handled' \cup forwards' \/ \E x \in replies' : t = x.trail
      BY DEF Live
    <2> QED  BY <2>1, <2>2, <2>3, <2>4
  <1>6. calls' = calls \ {Hop(u)} /\ (s # <<>> => result' = result)
    OBVIOUS
  <1>7. ASSUME NEW t \in Paths \ {<<>>}, Chain(t), t # u, ~r.ok  PROVE Chain(t)'
    BY <1>1, <1>6, <1>7, ChainStays
  <1>8. Apart'
    <2>1. \A x \in replies' : x.trail \notin copies' \cup handled' \cup forwards'
      BY <1>3, <1>4, <1>n DEF Search, Apart
    <2>2. \A x, y \in replies' : x.trail = y.trail => x = y
      <3>1. \A x \in replies : s # <<>> => x.trail # s
        BY <1>3 DEF Search, Apart
      <3>2. \A x, y \in replies : x.trail = y.trail => x = y
        BY DEF Search, Apart
      <3>3. SUFFICES ASSUME NEW x \in replies', NEW y \in replies', x.trail = y.trail
                     PROVE  x = y
        OBVIOUS
      <3>4. x \in replies \/ (s # <<>> /\ x = new)
        BY <1>4
      <3>5. y \in replies \/ (s # <<>> /\ y = new)
        BY <1>4
      <3> QED  BY <1>n, <3>1, <3>2, <3>3, <3>4, <3>5
    <2> QED  BY <1>5, <2>1, <2>2 DEF Search, Apart
  <1>9. AskedFor'
    BY <1>3, <1>4 DEF Search, AskedFor
  <1>10. SeenOnPath'
    BY DEF Search, SeenOnPath
  <1>11. Unfound'
    <2>1. SUFFICES ASSUME ~seen[Target]  PROVE Tokens' = {} /\ \A t \in Live' : Chain(t)'
      BY DEF Unfound
    <2>2. Tokens = {} /\ \A t \in Live : Chain(t)
      BY <2>1 DEF Search, Unfound
    <2>3. ~r.ok
      BY <2>2 DEF Tokens
    <2>4. Tokens' = {}
      BY <1>4, <1>n, <2>2, <2>3 DEF Tokens
    <2> QED  BY <1>5, <1>7, <2>2, <2>3, <2>4 DEF Types
  <1>12. Found'
    <2>1. SUFFICES ASSUME seen[Target]
                   PROVE  \/ result' = "ok" /\ Tokens' = {}
                          \/ \E t \in Tokens' : Tokens' = {t} /\ Chain(t)'
      BY DEF Found
    <2>2. CASE r.ok
      <3>1. Tokens = {u} /\ Chain(u)
        <4>1. u \in Tokens
          BY <2>2 DEF Tokens
        <4> QED  BY <2>1, <4>1 DEF Search, Found
      <3>2. handled' = {} /\ \A x \in replies' : x.ok => s # <<>> /\ x = new
        BY <1>1, <1>4, <3>1 DEF Tokens
      <3>3. CASE s = <<>>
        BY <2>2, <3>2, <3>3 DEF Tokens
      <3>4. CASE s # <<>>
        <4>1. Chain(s)' /\ Hop(s) \in calls'
          BY <1>1, <3>1, <3>4, ChainShrinks
        <4>2. new \in replies'
          BY <1>n, <3>4, <4>1 DEF Awaiting, new
        <4>3. Tokens' = {s}
          BY <1>n, <2>2, <3>2, <4>2 DEF Tokens
        <4> QED  BY <4>1, <4>3
      <3> QED  BY <3>3, <3>4
    <2>3. CASE ~r.ok
      <3>1. Tokens' \subseteq Tokens
        BY <1>4, <1>n, <2>3 DEF Tokens
      <3>2. CASE result = "ok" /\ Tokens = {}
        BY <1>3, <3>1, <3>2
      <3>3. ASSUME NEW t \in Tokens, Tokens = {t}, Chain(t)  PROVE Tokens' = {t} /\ Chain(t)'
        <4>1. t # u
          BY <1>1, <2>3, <3>3 DEF Tokens, Search, Apart
        <4>2. t \in Paths \ {<<>>}
          BY DEF Tokens, Types, Live
        <4>3. Chain(t)'
          BY <1>7, <2>3, <3>3, <4>1, <4>2
        <4>4. Hop(t) \in calls'
          <5>1. Len(t) \in 1..Len(t)
            BY <4>2, HopIs
          <5> QED  BY <4>2, <4>3, <5>1, PrefixAll DEF Chain
        <4>5. t \in Tokens'
          BY <3>3, <4>4 DEF Tokens, Awaiting
        <4> QED  BY <3>1, <3>3, <4>3, <4>5
      <3> QED  BY <2>1, <3>2, <3>3 DEF Search, Found
    <2> QED  BY <2>2, <2>3
  <1>13. Closed'
    BY <1>3 DEF Search, Closed, Reached, Neighbours
  <1> QED  BY <1>8, <1>9, <1>10, <1>11, <1>12, <1>13 DEF Search

LEMMA AnsweredKeepsSearch ==
    ASSUME Types, Search, NEW r \in replies, Answered(r), ~spoilt'
    PROVE  Search'
  <1> DEFINE u == r.trail
             s == Front(u)
             c == Hop(u)
             rest == {d \in calls \ {c} : d.from = s}
             awaits == IF s = <<>> THEN result = "asked" ELSE s \in forwards
             over == awaits /\ (r.ok \/ EndsNull(rest, r.ok))
  <1>1. u \in Paths \ {<<>>} /\ c.from = s /\ c \in calls
    BY HopIs DEF Types, Live, Search, AskedFor
  <1>2. Collect(s, c, r.ok)
    BY DEF Answered
  <1>3. /\ calls' = calls \ {c}
        /\ forwards' = IF over THEN forwards \ {s} ELSE forwards
        /\ result' = IF over /\ s = <<>> THEN (IF r.ok THEN "ok" ELSE "null") ELSE result
        /\ replies' = Awaiting(replies \cup (IF over /\ s # <<>> THEN {[trail |-> s, ok |-> r.ok]} ELSE {}),
                               calls \ {c})
    BY <1>2, Zenon DEF Collect
  <1>4. UNCHANGED <<world, copies, handled, seen>>
    BY DEF Answered
  <1>5. r.ok => over
    <2>1. SUFFICES ASSUME r.ok  PROVE awaits
      OBVIOUS
    <2>2. u \in Tokens
      BY <2>1 DEF Tokens
    <2>3. Chain(u)
      BY <2>2 DEF Search, Unfound, Found
    <2>4. result = "asked"
      BY <2>3 DEF Chain
    <2>5. CASE s # <<>>
      <3>1. Len(s) = Len(u) - 1 /\ s \in Paths /\ s = Prefix(u, Len(u) - 1) /\ Len(u) \in Nat
        BY <1>1, HopIs
      <3>2. Len(s) \in Nat /\ Len(s) >= 1
        BY <2>5, <3>1, HopIs
      <3>3. Len(u) - 1 \in 1..Len(u) - 1
        BY <3>1, <3>2
      <3> QED  BY <2>3, <2>5, <3>1, <3>3 DEF Chain
    <2> QED  BY <2>4, <2>5
  <1>6. CASE ~over
    <2>1. /\ calls' = calls \ {c} /\ forwards' = forwards /\ result' = result /\ ~r.ok
          /\ replies' = Awaiting(replies, calls')
      BY <1>3, <1>5, <1>6 DEF Awaiting
    <2> HIDE DEF u, s, c, rest, awaits, over
    <2> QED  BY <1>4, <2>1, AnsweredKeepsWaiting DEF u, c
  <1>7. CASE over
    <2>1. ~r.ok => \A d \in calls : d.from = s => d = c
      BY <1>7 DEF EndsNull
    <2>2. /\ calls' = calls \ {c} /\ forwards' = forwards \ {s}
          /\ replies' = Awaiting(replies \cup (IF s # <<>> THEN {[trail |-> s, ok |-> r.ok]} ELSE {}), calls')
          /\ result' = IF s = <<>> THEN (IF r.ok THEN "ok" ELSE "null") ELSE result
      BY <1>3, <1>7
    <2>3. IF s = <<>> THEN result = "asked" ELSE s \in forwards
      BY <1>7
    <2> HIDE DEF over, rest, awaits
    <2> QED  BY <1>4, <2>1, <2>2, <2>3, AnsweredKeepsOver
  <1> QED  BY <1>6, <1>7

(* A copy is received. *)

\* The peers on the path of a copy, its receiver counted, have claimed the id.
LEMMA OnPathIsSeen ==
    ASSUME Types, Search, NEW t \in copies, seen'[At(t)], \A p \in Peers : seen[p] => seen'[p],
           NEW q \in OnPath(t)
    PROVE  q = Origin \/ seen'[q]
  <1>1. t \in Paths \ {<<>>}
    BY DEF Types, Live
  <1>2. SUFFICES ASSUME NEW i \in 1..Len(t), q = t[i][1]  PROVE seen'[q]
    BY <1>1 DEF OnPath, Paths
  <1>3. CASE i = Len(t)
    BY <1>1, <1>2, <1>3, HopIs
  <1>4. CASE i \in 1..Len(t) - 1
    <2>1. seen[q]
      BY <1>2, <1>4 DEF Search, SeenOnPath
    <2>2. q \in Peers
      BY <1>1, <1>2 DEF Paths
    <2> QED  BY <2>1, <2>2
  <1>5. Len(t) \in Nat
    BY <1>1, HopIs
  <1> QED  BY <1>3, <1>4, <1>5

\* A copy is refused, because its peer has claimed the id, or has nobody to ask.
LEMMA RefusedKeeps ==
    ASSUME Types, Search, NEW t \in copies,
           copies' = copies \ {t}, replies' = Awaiting(replies \cup {[trail |-> t, ok |-> FALSE]}, calls),
           UNCHANGED <<world, result, calls, forwards, handled>>,
           \/ seen[At(t)] /\ seen' = seen
           \/ /\ At(t) # Target /\ seen' = [seen EXCEPT ![At(t)] = TRUE]
              /\ Candidates(t) = {}
    PROVE  Search'
  <1> DEFINE n == At(t)
             new == [trail |-> t, ok |-> FALSE]
  <1>1. t \in Paths \ {<<>>} /\ t \in Live /\ n \in Peers /\ t \notin handled \cup forwards
    BY HopIs DEF Types, Live, Search, Apart
  <1>2. /\ seen'[n] /\ seen'[Target] = seen[Target]
        /\ \A p \in Peers : (seen[p] => seen'[p]) /\ (seen'[p] => seen[p] \/ p = n)
    BY <1>1, EndsDiffer DEF Types
  <1>n. new.trail = t /\ new.ok = FALSE
    OBVIOUS
  <1>3. \A x \in replies' : Hop(x.trail) \in calls /\ (x \in replies \/ x = new)
    BY DEF Awaiting
  <1>4. \A x \in replies : x \in replies' \/ Hop(x.trail) \notin calls
    BY DEF Awaiting
  <1> HIDE DEF n, new
  <1>5. Live' \subseteq Live
    <2>1. \A x \in replies' : x.trail \in Live
      BY <1>1, <1>3, <1>n DEF Live
    <2>2. copies' \cup handled' \cup forwards' \subseteq Live
      BY DEF Live
    <2>3. \A v \in Live' : v \in copies' \cup handled' \cup forwards' \/ \E x \in replies' : v = x.trail
      BY DEF Live
    <2> QED  BY <2>1, <2>2, <2>3
  <1>6. Tokens' = Tokens
    <2>1. \A x \in replies : x.ok => x \in replies'
      BY <1>4 DEF Search, AskedFor
    <2>2. \A x \in replies' : x.ok => x \in replies
      BY <1>3, <1>n
    <2> QED  BY <2>1, <2>2 DEF Tokens
  <1>7. \A v : Chain(v) => Chain(v)'
    BY DEF Chain
  <1>8. Apart'
    <2>1. \A x \in replies' : x.trail \notin copies' \cup handled' \cup forwards'
      BY <1>1, <1>3, <1>n DEF Search, Apart
    <2>2. SUFFICES ASSUME NEW x \in replies', NEW y \in replies', x.trail = y.trail
                   PROVE  x = y
      BY <1>5, <2>1 DEF Search, Apart
    <2>3. (x \in replies \/ x = new) /\ (y \in replies \/ y = new)
      BY <1>3
    <2>4. \A z \in replies : z.trail # t
      BY DEF Search, Apart
    <2>5. x \in replies /\ y \in replies => x = y
      BY <2>2 DEF Search, Apart
    <2> QED  BY <1>n, <2>2, <2>3, <2>4, <2>5
  <1>9. AskedFor'
    BY <1>3 DEF Search, AskedFor
  <1>10. SeenOnPath'
    <2>1. SUFFICES ASSUME NEW v \in copies', NEW k \in 1..Len(v) - 1  PROVE seen'[v[k][1]]
      BY DEF SeenOnPath
    <2>2. seen[v[k][1]]
      BY DEF Search, SeenOnPath
    <2>3. v[k][1] \in Peers
      <3>1. v \in Paths
        BY DEF Types, Live
      <3> QED  BY <3>1 DEF Paths
    <2> QED  BY <1>2, <2>2, <2>3
  <1>11. Unfound' /\ Found'
    BY <1>2, <1>5, <1>6, <1>7 DEF Search, Unfound, Found
  <1>12. Closed'
    <2>1. SUFFICES ASSUME NEW p \in Peers, Reached(p)', NEW q \in Neighbours(p)
                   PROVE  q = Origin \/ seen'[q] \/ \E v \in copies' : At(v) = q
      BY DEF Closed, Neighbours
    <2>2. q \in Peers
      BY DEF Neighbours
    <2>3. CASE Reached(p)
      <3>1. q = Origin \/ seen[q] \/ \E v \in copies : At(v) = q
        BY <2>3 DEF Search, Closed
      <3> QED  BY <1>2, <2>2, <3>1 DEF n
    <2>4. CASE ~Reached(p)
      <3>1. p = n /\ Candidates(t) = {}
        BY <1>2, <2>1, <2>4 DEF Reached, n
      <3>2. q \in OnPath(t)
        BY <3>1 DEF Candidates, n
      <3> QED  BY <1>2, <3>2, OnPathIsSeen DEF n
    <2> QED  BY <2>3, <2>4
  <1> QED  BY <1>8, <1>9, <1>10, <1>11, <1>12 DEF Search

\* A first copy reaches the target.
LEMMA PerformedKeeps ==
    ASSUME Types, Search, NEW t \in copies, At(t) = Target, ~seen[Target],
           seen' = [seen EXCEPT ![Target] = TRUE],
           copies' = copies \ {t}, handled' = handled \cup {t},
           UNCHANGED <<world, result, calls, forwards, replies>>
    PROVE  Search'
  <1>1. t \in Paths \ {<<>>} /\ t \in Live
    BY DEF Types, Live
  <1>2. seen'[Target] /\ \A p \in Peers : (seen[p] => seen'[p]) /\ (seen'[p] => seen[p] \/ p = Target)
    BY EndsDiffer DEF Types
  <1>3. Live' = Live
    BY DEF Live
  <1>4. Chain(t)' /\ Tokens' = {t}
    <2>1. Chain(t) /\ Tokens = {}
      BY <1>1 DEF Search, Unfound
    <2> QED  BY <2>1 DEF Chain, Tokens
  <1>5. Apart' /\ AskedFor'
    BY <1>3 DEF Search, Apart, AskedFor
  <1>6. SeenOnPath'
    <2>1. SUFFICES ASSUME NEW v \in copies', NEW k \in 1..Len(v) - 1  PROVE seen'[v[k][1]]
      BY DEF SeenOnPath
    <2>2. seen[v[k][1]]
      BY DEF Search, SeenOnPath
    <2>3. v[k][1] \in Peers
      <3>1. v \in Paths
        BY DEF Types, Live
      <3> QED  BY <3>1 DEF Paths
    <2> QED  BY <1>2, <2>2, <2>3
  <1>7. Unfound' /\ Found'
    BY <1>2, <1>4 DEF Unfound, Found
  <1>8. Closed'
    <2>1. SUFFICES ASSUME NEW p \in Peers, Reached(p)', NEW q \in Neighbours(p)
                   PROVE  q = Origin \/ seen'[q] \/ \E v \in copies' : At(v) = q
      BY DEF Closed, Neighbours
    <2>2. q \in Peers /\ Reached(p)
      BY <1>2, <2>1 DEF Neighbours, Reached
    <2>3. q = Origin \/ seen[q] \/ \E v \in copies : At(v) = q
      BY <2>2 DEF Search, Closed
    <2> QED  BY <1>2, <2>2, <2>3
  <1> QED  BY <1>5, <1>6, <1>7, <1>8 DEF Search

\* A first copy is forwarded to every neighbour that is not on its path.
LEMMA ForwardedKeeps ==
    ASSUME Types, Search, NEW t \in copies, At(t) # Target,
           seen' = [seen EXCEPT ![At(t)] = TRUE],
           calls' = calls \cup Awaited(t, Candidates(t)),
           copies' = (copies \ {t}) \cup Sent(t, Candidates(t)),
           forwards' = forwards \cup {t},
           UNCHANGED <<world, result, handled, replies>>
    PROVE  Search'
  <1> DEFINE n == At(t)
             S == Candidates(t)
             new == Sent(t, S)
  <1>1. t \in Paths \ {<<>>} /\ t \in Live /\ n \in Peers /\ Len(t) \in Nat
    BY HopIs DEF Types, Live
  <1>2. /\ seen'[n] /\ seen'[Target] = seen[Target]
        /\ \A p \in Peers : (seen[p] => seen'[p]) /\ (seen'[p] => seen[p] \/ p = n)
    BY <1>1, EndsDiffer DEF Types
  <1>3. ASSUME NEW v \in new
        PROVE  /\ v \in Paths \ {<<>>} /\ Len(v) = Len(t) + 1 /\ Prefix(v, Len(t)) = t
               /\ \A k \in 0..Len(t) : Prefix(v, k) = Prefix(t, k)
               /\ \A i \in 1..Len(t) : v[i] = t[i]
               /\ Hop(v) \in calls' /\ v \notin Live /\ v # t
    <2>1. PICK q \in S : v = Append(t, <<q, 1>>)
      BY DEF Sent
    <2> DEFINE e == <<q, 1>>
    <2>2. q \in Peers /\ e \in Peers \X Attempts /\ v = Append(t, e) /\ e[1] = q /\ e[2] = 1
      BY <2>1 DEF Candidates, Neighbours, Attempts
    <2> HIDE DEF e
    <2>3. /\ v \in Paths \ {<<>>} /\ Len(v) = Len(t) + 1 /\ v[Len(t) + 1] = e
          /\ \A i \in 1..Len(t) : v[i] = t[i]
      BY <1>1, <2>2, Appended
    <2>4. \A k \in 0..Len(t) : Prefix(v, k) = Prefix(t, k)
      BY <1>1, <2>2, PrefixOfAppended
    <2>5. Prefix(v, Len(t)) = t
      BY <1>1, <2>4, PrefixAll
    <2>6. Hop(v) = [from |-> t, to |-> q, try |-> 1]
      <3>1. Len(v) - 1 = Len(t) /\ v[Len(v)] = e
        BY <1>1, <2>3
      <3>2. Hop(v) = [from |-> Front(v), to |-> v[Len(v)][1], try |-> v[Len(v)][2]]
        BY <2>3, HopIs
      <3>3. Front(v) = t
        BY <2>3, <2>5, <3>1, HopIs
      <3> QED  BY <2>2, <3>1, <3>2, <3>3
    <2>7. Hop(v) \in calls'
      BY <2>1, <2>6 DEF Awaited
    <2>8. v \notin Live
      BY <1>1, <2>3, <2>5 DEF Search, Apart, StrictlyExtends
    <2> QED  BY <1>1, <2>3, <2>4, <2>5, <2>7, <2>8
  <1>4. Live' = Live \cup new
    BY DEF Live
  <1> HIDE DEF n, S, new
  <1>5. Tokens' = Tokens /\ \A v : Chain(v) => Chain(v)'
    BY DEF Chain, Tokens
  <1>c. copies' = (copies \ {t}) \cup new
    BY DEF new, S
  <1>6. Apart'
    <2>1. /\ copies' \cap handled' = {} /\ copies' \cap forwards' = {} /\ handled' \cap forwards' = {}
          /\ \A r \in replies' : r.trail \notin copies' \cup handled' \cup forwards'
          /\ \A r, s \in replies' : r.trail = s.trail => r = s
      BY <1>3, <1>c DEF Search, Apart, Live
    <2>2. SUFFICES ASSUME NEW v \in copies', NEW w \in Live', StrictlyExtends(w, v)  PROVE FALSE
      BY <2>1 DEF Apart
    <2>3. v \in Paths /\ w \in Paths /\ Len(v) \in Nat /\ Len(w) \in Nat
      <3>1. v \in Paths
        BY <1>3, <1>c DEF Types, Live
      <3>2. w \in Paths
        BY <1>3, <1>4 DEF Types
      <3> QED  BY <3>1, <3>2 DEF Paths
    <2>4. CASE v \in copies
      <3>1. v # t
        BY <1>3, <1>c, <2>4
      <3>2. w \in new
        BY <1>4, <2>2, <2>4 DEF Search, Apart
      <3>3. Len(v) \in 0..Len(t) /\ Prefix(t, Len(v)) = v
        BY <1>1, <1>3, <2>2, <2>3, <3>2 DEF StrictlyExtends
      <3>4. Len(v) < Len(t)
        BY <1>1, <2>3, <3>1, <3>3, PrefixAll
      <3> QED  BY <1>1, <2>4, <3>3, <3>4 DEF Search, Apart, StrictlyExtends
    <2>5. CASE v \in new
      <3>1. Len(w) > Len(t) + 1 /\ Prefix(w, Len(t) + 1) = v
        BY <1>3, <2>2, <2>5 DEF StrictlyExtends
      <3>2. w \in Live
        BY <1>1, <1>3, <1>4, <3>1
      <3>3. Prefix(w, Len(t)) = Prefix(v, Len(t))
        <4>1. Len(t) + 1 \in 0..Len(w) /\ Len(t) \in 0..(Len(t) + 1)
          BY <1>1, <2>3, <3>1
        <4> QED  BY <2>3, <3>1, <4>1, PrefixOfPrefix
      <3>4. StrictlyExtends(w, t)
        BY <1>1, <1>3, <2>3, <2>5, <3>1, <3>3 DEF StrictlyExtends
      <3> QED  BY <3>2, <3>4 DEF Search, Apart
    <2> QED  BY <1>c, <2>4, <2>5
  <1>7. AskedFor'
    BY DEF Search, AskedFor
  <1>8. SeenOnPath'
    <2>1. SUFFICES ASSUME NEW v \in copies', NEW k \in 1..Len(v) - 1  PROVE seen'[v[k][1]]
      BY DEF SeenOnPath
    <2>2. v \in Paths
      BY <1>3, <1>c DEF Types, Live
    <2>3. v[k][1] \in Peers
      BY <2>2 DEF Paths
    <2>4. CASE v \in copies
      <3>1. seen[v[k][1]]
        BY <2>4 DEF Search, SeenOnPath
      <3> QED  BY <1>2, <2>3, <3>1
    <2>5. CASE v \in new
      <3>1. k \in 1..Len(t) /\ v[k] = t[k]
        BY <1>1, <1>3, <2>5
      <3>2. CASE k = Len(t)
        BY <1>1, <1>2, <3>1, <3>2, HopIs DEF n
      <3>3. CASE k \in 1..Len(t) - 1
        <4>1. seen[t[k][1]]
          BY <3>3 DEF Search, SeenOnPath
        <4> QED  BY <1>2, <2>3, <3>1, <4>1
      <3> QED  BY <1>1, <3>1, <3>2, <3>3
    <2> QED  BY <1>c, <2>4, <2>5
  <1>9. Unfound'
    <2>1. SUFFICES ASSUME ~seen[Target]  PROVE Tokens' = {} /\ \A v \in Live' : Chain(v)'
      BY <1>2 DEF Unfound
    <2>2. Tokens = {} /\ \A v \in Live : Chain(v)
      BY <2>1 DEF Search, Unfound
    <2>3. ASSUME NEW v \in new  PROVE Chain(v)'
      <3>1. Chain(t)
        BY <1>1, <2>2
      <3>2. Hop(Prefix(v, Len(v))) \in calls'
        BY <1>3, PrefixAll
      <3>3. \A k \in 1..Len(t) : Hop(Prefix(v, k)) \in calls'
        BY <1>1, <1>3, <3>1 DEF Chain
      <3>4. \A k \in 1..Len(t) : Prefix(v, k) \in forwards'
        <4>1. \A k \in 1..Len(t) - 1 : Prefix(v, k) \in forwards'
          BY <1>1, <1>3, <3>1 DEF Chain
        <4>2. Prefix(v, Len(t)) \in forwards'
          BY <1>3
        <4> QED  BY <1>1, <4>1, <4>2
      <3>5. Len(v) = Len(t) + 1
        BY <1>3
      <3>6. \A k \in 1..Len(v) : k \in 1..Len(t) \/ k = Len(v)
        BY <1>1, <3>5
      <3>7. \A k \in 1..Len(v) - 1 : k \in 1..Len(t)
        BY <1>1, <3>5
      <3>8. result' = "asked"
        BY <3>1 DEF Chain
      <3> QED  BY <3>2, <3>3, <3>4, <3>6, <3>7, <3>8 DEF Chain
    <2> QED  BY <1>4, <1>5, <2>2, <2>3
  <1>10. Found'
    BY <1>2, <1>5 DEF Search, Found
  <1>11. Closed'
    <2>1. SUFFICES ASSUME NEW p \in Peers, Reached(p)', NEW q \in Neighbours(p)
                   PROVE  q = Origin \/ seen'[q] \/ \E v \in copies' : At(v) = q
      BY DEF Closed, Neighbours
    <2>2. q \in Peers
      BY DEF Neighbours
    <2>3. CASE Reached(p)
      <3>1. q = Origin \/ seen[q] \/ \E v \in copies : At(v) = q
        BY <2>3 DEF Search, Closed
      <3> QED  BY <1>2, <1>c, <2>2, <3>1 DEF n
    <2>4. CASE ~Reached(p)
      <3>1. p = n
        BY <1>2, <2>1, <2>4 DEF Reached
      <3>2. CASE q \in OnPath(t)
        BY <1>2, <3>2, OnPathIsSeen DEF n
      <3>3. CASE q \notin OnPath(t)
        <4>1. q \in S
          BY <3>1, <3>3 DEF S, Candidates, n
        <4>2. Append(t, <<q, 1>>) \in copies'
          BY <1>c, <4>1 DEF new, Sent
        <4>3. At(Append(t, <<q, 1>>)) = q
          <5> DEFINE e == <<q, 1>>
          <5>1. e \in Peers \X Attempts /\ e[1] = q
            BY <2>2 DEF Attempts
          <5> HIDE DEF e
          <5>2. /\ Append(t, e) \in Paths \ {<<>>}
                /\ Len(Append(t, e)) = Len(t) + 1 /\ Append(t, e)[Len(t) + 1] = e
            BY <1>1, <5>1, Appended
          <5>3. At(Append(t, e)) = q
            BY <5>1, <5>2, HopIs
          <5> QED  BY <5>3 DEF e
        <4> QED  BY <4>2, <4>3
      <3> QED  BY <3>2, <3>3
    <2> QED  BY <2>3, <2>4
  <1> QED  BY <1>6, <1>7, <1>8, <1>9, <1>10, <1>11 DEF Search

\* The handler of peer.route, when nothing disturbs the search.
LEMMA ReceivedKeepsSearch ==
    ASSUME Types, Search, NEW t \in copies, Receive(t), Calm'
    PROVE  Search'
  <1> DEFINE n == At(t)
  <1>1. PICK checked \in BOOLEAN, claiming \in BOOLEAN, opening \in BOOLEAN :
           /\ claiming => opening
           /\ \/ Invalid(t, n, checked, claiming)
              \/ /\ ~checked /\ Claimable(n, claiming)
                 /\ seen' = [seen EXCEPT ![n] = TRUE]
                 /\ Perform(t, n, opening) \/ Forward(t, n)
           /\ UNCHANGED <<world, result>>
    BY DEF Receive
  <1>2. CASE Invalid(t, n, checked, claiming)
    <2>1. seen[n] /\ seen' = seen /\ Refuse(t)
      BY <1>2 DEF Invalid, Claimable, Calm
    <2> QED  BY <1>1, <2>1, RefusedKeeps DEF Refuse, Reply
  <1>3. CASE Claimable(n, claiming) /\ seen' = [seen EXCEPT ![n] = TRUE] /\ Perform(t, n, opening)
    <2>1. Opens(opening) /\ n = Target /\ handled' = handled \cup {t} /\ copies' = copies \ {t}
      BY <1>3 DEF Perform, Calm
    <2>2. UNCHANGED <<calls, forwards, replies>>
      BY <1>3 DEF Perform, Calm
    <2>3. ~seen[Target]
      BY <1>1, <1>3, <2>1 DEF Opens, Claimable
    <2> QED  BY <1>1, <1>3, <2>1, <2>2, <2>3, PerformedKeeps
  <1>4. CASE seen' = [seen EXCEPT ![n] = TRUE] /\ Forward(t, n)
    <2>0. ~disturbed'
      BY DEF Calm
    <2>1. /\ n # Target /\ ~AtLimit(t)
          /\ \E S \in Asked(t) :
               /\ calls' = calls \cup Awaited(t, S)
               /\ copies' = (copies \ {t}) \cup Sent(t, S)
               /\ forwards' = IF S = {} THEN forwards ELSE forwards \cup {t}
               /\ IF S = {} THEN Reply(t, FALSE) ELSE UNCHANGED replies
               /\ disturbed' = (disturbed \/ S # Candidates(t))
          /\ UNCHANGED handled
      BY <1>4, <2>0 DEF Forward
    <2>2. /\ calls' = calls \cup Awaited(t, Candidates(t))
          /\ copies' = (copies \ {t}) \cup Sent(t, Candidates(t))
          /\ forwards' = IF Candidates(t) = {} THEN forwards ELSE forwards \cup {t}
          /\ IF Candidates(t) = {} THEN Reply(t, FALSE) ELSE UNCHANGED replies
      BY <2>0, <2>1
    <2>3. CASE Candidates(t) = {}
      <3>1. Awaited(t, Candidates(t)) = {} /\ Sent(t, Candidates(t)) = {}
        BY <2>3 DEF Awaited, Sent
      <3>2. calls' = calls /\ copies' = copies \ {t} /\ forwards' = forwards /\ Reply(t, FALSE)
        BY <2>2, <2>3, <3>1
      <3> QED  BY <1>1, <1>4, <2>1, <2>3, <3>2, RefusedKeeps DEF Reply
    <2>4. CASE Candidates(t) # {}
      BY <1>1, <1>4, <2>1, <2>2, <2>4, ForwardedKeeps
    <2> QED  BY <2>3, <2>4
  <1> QED  BY <1>1, <1>2, <1>3, <1>4

\* The target has answered: its answer is awaited.
LEMMA PerformedAnswers ==
    ASSUME Types, Search, NEW t \in handled, Performed(t), ~spoilt'
    PROVE  Search'
  <1> DEFINE new == [trail |-> t, ok |-> TRUE]
  <1>1. t \in Paths \ {<<>>} /\ t \in Live /\ t \notin copies \cup forwards
    BY DEF Types, Live, Search, Apart
  <1>2. Tokens = {t} /\ Chain(t) /\ seen[Target]
    BY DEF Search, Unfound, Found, Tokens
  <1>3. Hop(t) \in calls
    <2>1. Len(t) \in 1..Len(t)
      BY <1>1, HopIs
    <2> QED  BY <1>1, <1>2, <2>1, PrefixAll DEF Chain
  <1>4. /\ handled' = handled \ {t} /\ replies' = Awaiting(replies \cup {new}, calls)
        /\ UNCHANGED <<result, calls, copies, forwards, seen, world>>
    BY DEF Performed, Reply
  <1>n. new.trail = t /\ new.ok = TRUE
    OBVIOUS
  <1> HIDE DEF new
  <1>5. replies' = replies \cup {new}
    BY <1>3, <1>4, <1>n DEF Awaiting, Search, AskedFor
  <1>6. Live' = Live
    BY <1>4, <1>5, <1>n DEF Live
  <1>7. Tokens' = {t}
    BY <1>2, <1>4, <1>5, <1>n DEF Tokens
  <1>8. Apart'
    <2>1. \A z \in replies : z.trail # t
      BY DEF Search, Apart
    <2>2. \A x \in replies' : x.trail \notin copies' \cup handled' \cup forwards'
      BY <1>1, <1>4, <1>5, <1>n DEF Search, Apart
    <2>3. \A x, y \in replies' : x.trail = y.trail => x = y
      BY <1>5, <1>n, <2>1 DEF Search, Apart
    <2> QED  BY <1>4, <1>6, <2>2, <2>3 DEF Search, Apart
  <1>9. AskedFor'
    BY <1>3, <1>4, <1>5, <1>n DEF Search, AskedFor
  <1>10. SeenOnPath' /\ Closed'
    BY <1>4 DEF Search, SeenOnPath, Closed, Reached, Neighbours
  <1>11. Unfound' /\ Found'
    BY <1>2, <1>4, <1>7 DEF Unfound, Found, Chain
  <1> QED  BY <1>8, <1>9, <1>10, <1>11 DEF Search

\* The origin asks its neighbours.
LEMMA RouteStartsSearch ==
    ASSUME Types, Idle, Route, Calm'
    PROVE  Search'
  <1> DEFINE S == Candidates(<<>>)
  <1>1. /\ calls' = Awaited(<<>>, S) /\ copies' = Sent(<<>>, S)
        /\ result' = IF S = {} THEN "null" ELSE "asked"
        /\ UNCHANGED <<world, forwards, handled, replies, seen>>
    BY DEF Route, Calm
  <1>2. forwards = {} /\ handled = {} /\ replies = {} /\ \A p \in Peers : ~seen[p]
    BY DEF Route, Idle, Live
  <1>3. <<>> \in Paths /\ Len(<<>>) = 0
    BY DEF Paths
  <1>4. ASSUME NEW v \in copies'
        PROVE  v \in Paths \ {<<>>} /\ Len(v) = 1 /\ Hop(v) \in calls' /\ At(v) \in S
    <2>1. PICK q \in S : v = Append(<<>>, <<q, 1>>)
      BY <1>1 DEF Sent
    <2> DEFINE e == <<q, 1>>
    <2>2. e \in Peers \X Attempts /\ v = Append(<<>>, e) /\ e[1] = q /\ e[2] = 1
      BY <2>1 DEF Candidates, Neighbours, Attempts
    <2> HIDE DEF e
    <2>3. v \in Paths \ {<<>>} /\ Len(v) = 1 /\ v[1] = e
      BY <2>2, FirstHop
    <2>4. Hop(v) = [from |-> Front(v), to |-> v[1][1], try |-> v[1][2]] /\ At(v) = v[1][1]
      BY <2>3, HopIs
    <2>5. Front(v) = <<>>
      BY <2>3, HopIs, EmptySeq DEF Paths
    <2>6. Hop(v) \in calls'
      BY <1>1, <2>2, <2>3, <2>4, <2>5 DEF Awaited
    <2> QED  BY <2>2, <2>3, <2>4, <2>6
  <1>5. Live' = copies' /\ Tokens' = {}
    BY <1>1, <1>2 DEF Live, Tokens
  <1>6. Apart'
    BY <1>1, <1>2, <1>4, <1>5 DEF Apart, StrictlyExtends
  <1>7. AskedFor'
    BY <1>1, <1>2 DEF AskedFor
  <1>8. SeenOnPath'
    BY <1>4 DEF SeenOnPath
  <1>9. Unfound' /\ Found'
    <2>1. ASSUME NEW v \in Live'  PROVE Chain(v)'
      <3>1. v \in Paths /\ Len(v) = 1 /\ Hop(v) \in calls' /\ result' = "asked"
        BY <1>1, <1>4, <1>5
      <3>2. Prefix(v, 1) = v
        BY <3>1, PrefixAll
      <3> QED  BY <3>1, <3>2 DEF Chain
    <2>2. ~seen'[Target]
      BY <1>1, <1>2, EndsDiffer
    <2> QED  BY <1>5, <2>1, <2>2 DEF Unfound, Found
  <1>10. Closed'
    <2>1. SUFFICES ASSUME NEW p \in Peers, Reached(p)', NEW q \in Neighbours(p)
                   PROVE  q = Origin \/ seen'[q] \/ \E v \in copies' : At(v) = q
      BY <1>1 DEF Closed, Neighbours
    <2>2. p = Origin
      BY <1>1, <1>2, <2>1 DEF Reached
    <2>3. q = Origin \/ q \in S
      BY <1>3, <2>2 DEF Candidates, At, OnPath
    <2>4. CASE q \in S
      <3> DEFINE e == <<q, 1>>
      <3>1. Append(<<>>, e) \in copies'
        BY <1>1, <2>4 DEF Sent
      <3>2. e \in Peers \X Attempts /\ e[1] = q
        BY <2>4 DEF Candidates, Neighbours, Attempts
      <3> HIDE DEF e
      <3>3. Append(<<>>, e) \in Paths \ {<<>>} /\ Len(Append(<<>>, e)) = 1 /\ Append(<<>>, e)[1] = e
        BY <3>2, FirstHop
      <3>4. At(Append(<<>>, e)) = q
        BY <3>2, <3>3, HopIs
      <3> QED  BY <3>1, <3>4
    <2> QED  BY <2>3, <2>4
  <1> QED  BY <1>6, <1>7, <1>8, <1>9, <1>10 DEF Search

(* Types, and that nothing is under way before the request is made. *)

LEMMA TypesKept ==
    ASSUME Types, calls' \subseteq [from : Paths, to : Peers, try : Attempts],
           copies' \cup handled' \cup forwards' \subseteq Paths \ {<<>>},
           NEW cs, NEW x \in Paths, NEW ok \in BOOLEAN,
           replies' \subseteq Awaiting(replies \cup (IF x # <<>> THEN {[trail |-> x, ok |-> ok]} ELSE {}), cs),
           seen' \in [Peers -> BOOLEAN]
    PROVE  Types'
  <1> DEFINE new == [trail |-> x, ok |-> ok]
  <1>1. new.trail = x /\ new.ok = ok /\ new = [trail |-> new.trail, ok |-> new.ok]
    OBVIOUS
  <1>2. \A r \in replies' : r \in replies \/ (r = new /\ x # <<>>)
    BY DEF Awaiting
  <1> HIDE DEF new
  <1>3. \A r \in replies' : r = [trail |-> r.trail, ok |-> r.ok] /\ r.ok \in BOOLEAN /\ r.trail \in Paths \ {<<>>}
    BY <1>1, <1>2 DEF Types, Live
  <1>4. Live' \subseteq Paths \ {<<>>}
    BY <1>3 DEF Live
  <1> QED  BY <1>3, <1>4 DEF Types

\* The replies when a hop of x has ended, with or without an answer of x.
LEMMA CollectKeepsTypes ==
    ASSUME Types, NEW x \in Paths, NEW c, NEW ok \in BOOLEAN, Collect(x, c, ok),
           UNCHANGED <<copies, handled, seen>>
    PROVE  Types' /\ (result' = result \/ result' \in {"ok", "null"})
  <1> DEFINE rest == {d \in calls \ {c} : d.from = x}
             over == (IF x = <<>> THEN result = "asked" ELSE x \in forwards) /\ (ok \/ EndsNull(rest, ok))
             left == calls \ {c}
  <1>1. /\ calls' = left
        /\ forwards' = IF over THEN forwards \ {x} ELSE forwards
        /\ result' = IF over /\ x = <<>> THEN (IF ok THEN "ok" ELSE "null") ELSE result
        /\ replies' = Awaiting(replies \cup (IF over /\ x # <<>> THEN {[trail |-> x, ok |-> ok]} ELSE {}), left)
    BY Zenon DEF Collect
  <1>2. calls' \subseteq calls
    BY <1>1
  <1> HIDE DEF rest, over, left
  <1>3. replies' \subseteq Awaiting(replies \cup (IF x # <<>> THEN {[trail |-> x, ok |-> ok]} ELSE {}), left)
    BY <1>1 DEF Awaiting
  <1>4. calls' \subseteq [from : Paths, to : Peers, try : Attempts]
    BY <1>2 DEF Types
  <1>5. copies' \cup handled' \cup forwards' \subseteq Paths \ {<<>>}
    BY <1>1 DEF Types, Live
  <1>6. seen' \in [Peers -> BOOLEAN]
    BY DEF Types
  <1> QED  BY <1>1, <1>3, <1>4, <1>5, <1>6, TypesKept

LEMMA ReceiveKeepsTypes ==
    ASSUME Types, NEW t \in copies, Receive(t)
    PROVE  Types' /\ result' = result
  <1> DEFINE n == At(t)
  <1>1. PICK checked \in BOOLEAN, claiming \in BOOLEAN, opening \in BOOLEAN :
           /\ \/ Invalid(t, n, checked, claiming)
              \/ /\ ~checked /\ Claimable(n, claiming)
                 /\ seen' = [seen EXCEPT ![n] = TRUE]
                 /\ Perform(t, n, opening) \/ Forward(t, n)
           /\ UNCHANGED <<world, result>>
    BY DEF Receive
  <1>2. t \in Paths \ {<<>>} /\ n \in Peers /\ replies \subseteq replies /\ <<>> \in Paths
    BY HopIs DEF Types, Live, Paths
  <1>3. copies \cup handled \cup forwards \subseteq Paths \ {<<>>} /\ \A r \in replies : r = r
    BY DEF Types, Live
  <1> HIDE DEF n
  <1>4. seen' \in [Peers -> BOOLEAN]
    <2>1. CASE Invalid(t, n, checked, claiming)
      BY <1>2, <2>1 DEF Invalid, Types
    <2>2. CASE seen' = [seen EXCEPT ![n] = TRUE]
      BY <1>2, <2>2 DEF Types
    <2> QED  BY <1>1, <2>1, <2>2
  <1>5. ASSUME Refuse(t)  PROVE Types'
    <2>1. copies' \cup handled' \cup forwards' \subseteq Paths \ {<<>>}
      BY <1>3, <1>5 DEF Refuse
    <2>2. calls' \subseteq [from : Paths, to : Peers, try : Attempts]
      BY <1>5 DEF Refuse, Types
    <2>3. replies' \subseteq Awaiting(replies \cup (IF t # <<>> THEN {[trail |-> t, ok |-> FALSE]} ELSE {}), calls)
      BY <1>2, <1>5 DEF Refuse, Reply
    <2> QED  BY <1>2, <1>4, <2>1, <2>2, <2>3, TypesKept
  <1>6. ASSUME ~Refuse(t), Perform(t, n, opening)  PROVE Types'
    <2>1. handled' = handled \cup {t} /\ copies' = copies \ {t} /\ UNCHANGED <<calls, forwards, replies>>
      BY <1>6 DEF Perform
    <2>2. Live' \subseteq Live \cup {t}
      BY <2>1 DEF Live
    <2> QED  BY <1>2, <1>4, <2>1, <2>2 DEF Types
  <1>7. ASSUME ~Refuse(t), Forward(t, n)  PROVE Types'
    <2>1. PICK S \in Asked(t) :
             /\ calls' = calls \cup Awaited(t, S)
             /\ copies' = (copies \ {t}) \cup Sent(t, S)
             /\ forwards' = IF S = {} THEN forwards ELSE forwards \cup {t}
             /\ IF S = {} THEN Reply(t, FALSE) ELSE UNCHANGED replies
      BY <1>7 DEF Forward
    <2>2. handled' = handled
      BY <1>7 DEF Forward
    <2>3. S \subseteq Peers
      BY DEF Asked, Candidates, Neighbours
    <2>4. calls' \subseteq [from : Paths, to : Peers, try : Attempts]
      BY <1>2, <2>1, <2>3 DEF Awaited, Types, Attempts
    <2>5. \A v \in Sent(t, S) : v \in Paths \ {<<>>}
      <3>1. SUFFICES ASSUME NEW q \in S  PROVE Append(t, <<q, 1>>) \in Paths \ {<<>>}
        BY DEF Sent
      <3>2. <<q, 1>> \in Peers \X Attempts
        BY <2>3 DEF Attempts
      <3> QED  BY <1>2, <3>2, Appended
    <2>6. copies' \cup handled' \cup forwards' \subseteq Paths \ {<<>>}
      BY <1>2, <1>3, <2>1, <2>2, <2>5
    <2>7. CASE S = {}
      <3>1. replies' \subseteq Awaiting(replies \cup (IF t # <<>> THEN {[trail |-> t, ok |-> FALSE]} ELSE {}), calls)
        BY <1>2, <2>1, <2>7 DEF Reply
      <3> QED  BY <1>2, <1>4, <2>4, <2>6, <3>1, TypesKept
    <2>8. CASE S # {}
      <3>1. replies' = replies
        BY <2>1, <2>8
      <3> QED  BY <1>4, <2>4, <2>6, <3>1 DEF Types, Live
    <2> QED  BY <2>7, <2>8
  <1>8. Invalid(t, n, checked, claiming) => Refuse(t)
    BY DEF Invalid
  <1> QED  BY <1>1, <1>5, <1>6, <1>7, <1>8

LEMMA TimeoutKeepsTypes ==
    ASSUME Types, NEW c \in calls, Timeout(c)
    PROVE  Types' /\ (result' = result \/ result' \in {"ok", "null"}) /\ disturbed'
  <1>1. c \in [from : Paths, to : Peers, try : Attempts] /\ disturbed' /\ UNCHANGED <<handled, seen>>
    BY DEF Types, Timeout
  <1>2. CASE Again(c)
    <2> DEFINE e == <<c.to, 2>>
    <2>1. e \in Peers \X Attempts
      BY <1>1 DEF Attempts
    <2>2. /\ calls' = (calls \ {c}) \cup {[c EXCEPT !.try = 2]}
          /\ copies' = copies \cup {Append(c.from, e)}
          /\ replies' = Awaiting(replies, calls')
          /\ UNCHANGED <<forwards, result>>
      BY <1>2 DEF Again
    <2> HIDE DEF e
    <2>3. Append(c.from, e) \in Paths \ {<<>>}
      BY <1>1, <2>1, Appended
    <2>4. calls' \subseteq [from : Paths, to : Peers, try : Attempts]
      BY <1>1, <2>2 DEF Types, Attempts
    <2>5. replies' \subseteq replies
      BY <2>2 DEF Awaiting
    <2>6. Live' \subseteq Live \cup {Append(c.from, e)}
      BY <1>1, <2>2, <2>5 DEF Live
    <2>7. Live' \subseteq Paths \ {<<>>}
      BY <2>3, <2>6 DEF Types
    <2> QED  BY <1>1, <2>2, <2>4, <2>5, <2>7 DEF Types
  <1>3. CASE Fails(c)
    <2>1. Collect(c.from, c, FALSE) /\ UNCHANGED <<copies, handled, seen>>
      BY <1>1, <1>3 DEF Fails
    <2> QED  BY <1>1, <2>1, CollectKeepsTypes
  <1> QED  BY <1>2, <1>3, <1>1 DEF Timeout

LEMMA NextKeepsTypes ==
    ASSUME Types, Idle, Next
    PROVE  Types' /\ Idle'
  <1>1. CASE Route
    <2>1. PICK S \in Asked(<<>>) :
             calls' = Awaited(<<>>, S) /\ copies' = Sent(<<>>, S) /\ result' = IF S = {} THEN "null" ELSE "asked"
      BY <1>1 DEF Route
    <2>2. UNCHANGED <<forwards, handled, replies, seen>>
      BY <1>1 DEF Route
    <2>3. S \subseteq Peers /\ <<>> \in Paths
      <3>1. \A q \in Candidates(<<>>) : q \in Peers
        BY DEF Candidates, Neighbours
      <3>2. <<>> \in Paths
        BY DEF Paths
      <3> QED  BY <3>1, <3>2 DEF Asked
    <2>4. calls' \subseteq [from : Paths, to : Peers, try : Attempts]
      BY <2>1, <2>3 DEF Awaited, Attempts
    <2>5. \A v \in copies' : v \in Paths \ {<<>>}
      <3>1. SUFFICES ASSUME NEW q \in S  PROVE Append(<<>>, <<q, 1>>) \in Paths \ {<<>>}
        BY <2>1 DEF Sent
      <3>2. <<q, 1>> \in Peers \X Attempts
        BY <2>3 DEF Attempts
      <3> QED  BY <3>2, FirstHop
    <2>6. Live' \subseteq Paths \ {<<>>}
      BY <2>2, <2>5 DEF Types, Live
    <2> QED  BY <2>1, <2>2, <2>4, <2>6 DEF Types, Idle
  <1>2. ASSUME NEW r \in replies, Answered(r)  PROVE Types' /\ Idle'
    <2>1. r.trail \in Paths \ {<<>>} /\ r.ok \in BOOLEAN /\ r.trail \in Live
      BY DEF Types, Live
    <2>2. Front(r.trail) \in Paths /\ result # "none"
      BY <2>1, HopIs DEF Idle
    <2>3. PICK ok \in BOOLEAN : Collect(Front(r.trail), Hop(r.trail), ok) /\ UNCHANGED <<copies, handled, seen>>
      BY <1>2 DEF Answered
    <2>4. Types' /\ (result' = result \/ result' \in {"ok", "null"})
      BY <2>1, <2>2, <2>3, CollectKeepsTypes
    <2> QED  BY <2>2, <2>4 DEF Idle
  <1>3. ASSUME NEW c \in calls, Timeout(c)  PROVE Types' /\ Idle'
    BY <1>3, TimeoutKeepsTypes DEF Idle
  <1>4. ASSUME NEW t \in copies, Receive(t)  PROVE Types' /\ Idle'
    <2>1. t \in Live
      BY DEF Live
    <2> QED  BY <1>4, <2>1, ReceiveKeepsTypes DEF Idle
  <1>5. ASSUME NEW t \in handled, Performed(t)  PROVE Types' /\ Idle'
    <2>1. t \in Live /\ t \in Paths \ {<<>>}
      BY DEF Types, Live
    <2>2. UNCHANGED <<result, calls, copies, forwards, seen>> /\ handled' = handled \ {t}
      BY <1>5 DEF Performed
    <2>3. copies' \cup handled' \cup forwards' \subseteq Paths \ {<<>>}
      BY <2>2 DEF Types, Live
    <2>4. PICK ok \in BOOLEAN :
             replies' \subseteq Awaiting(replies \cup (IF t # <<>> THEN {[trail |-> t, ok |-> ok]} ELSE {}), calls)
      BY <1>5, <2>1 DEF Performed, Reply
    <2>5. calls' \subseteq [from : Paths, to : Peers, try : Attempts] /\ seen' \in [Peers -> BOOLEAN]
      BY <2>2 DEF Types
    <2>6. Types'
      BY <2>1, <2>3, <2>4, <2>5, TypesKept
    <2> QED  BY <2>1, <2>2, <2>6 DEF Idle
  <1>6. ASSUME NEW n \in Peers, Restart(n)  PROVE Types' /\ Idle'
    <2>1. calls' \subseteq calls /\ replies' \subseteq replies /\ Live' \subseteq Live
      BY <1>6 DEF Restart, Awaiting, Live
    <2>2. seen' = [seen EXCEPT ![n] = FALSE] /\ result' = result
      BY <1>6 DEF Restart
    <2> QED  BY <2>1, <2>2 DEF Types, Idle
  <1> QED  BY <1>1, <1>2, <1>3, <1>4, <1>5, <1>6 DEF Next

LEMMA NextKeepsSearch ==
    ASSUME Searched, Next, Calm'
    PROVE  Search'
  <1>1. CASE Route
    BY <1>1, RouteStartsSearch DEF Searched
  <1>2. ASSUME NEW r \in replies, Answered(r)  PROVE Search'
    <2>1. Calm /\ ~spoilt'
      BY <1>2 DEF Answered, Calm
    <2> QED  BY <1>2, <2>1, AnsweredKeepsSearch DEF Searched
  <1>3. ASSUME NEW c \in calls, Timeout(c)  PROVE Search'
    BY <1>3 DEF Timeout, Calm
  <1>4. ASSUME NEW t \in copies, Receive(t)  PROVE Search'
    <2>0. ~disturbed' /\ ~spoilt'
      BY DEF Calm
    <2>1. ~disturbed
      BY <1>4, <2>0 DEF Receive, Invalid, Perform, Forward
    <2>2. ~spoilt
      BY <1>4, <2>0 DEF Receive, Invalid, Perform, Forward
    <2>3. Calm
      BY <2>1, <2>2 DEF Calm
    <2> QED  BY <1>4, <2>3, ReceivedKeepsSearch DEF Searched
  <1>5. ASSUME NEW t \in handled, Performed(t)  PROVE Search'
    <2>1. Calm /\ ~spoilt'
      BY <1>5 DEF Performed, Calm
    <2> QED  BY <1>5, <2>1, PerformedAnswers DEF Searched
  <1>6. ASSUME NEW n \in Peers, Restart(n)  PROVE Search'
    BY <1>6 DEF Restart, Calm
  <1> QED  BY <1>1, <1>2, <1>3, <1>4, <1>5, <1>6 DEF Next

\* When the search has ended without an answer, nobody it reached knows anybody it did not.
LEMMA EndedSearchSeparates ==
    ASSUME Searched
    PROVE  NullMeansNoRoute
  <1> SUFFICES ASSUME result = "null", Calm  PROVE Separated
    BY DEF NullMeansNoRoute, Calm
  <1>1. Types /\ Search
    BY DEF Searched
  <1>2. ASSUME NEW t \in Live, Chain(t)  PROVE FALSE
    BY <1>2 DEF Chain
  <1>3. ~seen[Target]
    <2>1. SUFFICES ASSUME NEW t \in Tokens, Chain(t)  PROVE FALSE
      BY <1>1 DEF Search, Found
    <2>2. t \in Live
      BY DEF Tokens, Live
    <2> QED  BY <1>2, <2>1, <2>2
  <1>4. copies = {}
    BY <1>1, <1>2, <1>3 DEF Search, Unfound, Live
  <1> DEFINE S == {Origin} \cup {p \in Peers : seen[p]}
  <1>5. Origin \in S /\ Target \notin S /\ S \subseteq Peers
    BY <1>3, EndsDiffer
  <1>6. ASSUME NEW p \in S, NEW q \in Neighbours(p)  PROVE q \in S
    <2>1. Reached(p) /\ p \in Peers /\ q \in Peers
      BY <1>3, EndsDiffer DEF Reached, Neighbours
    <2>2. q = Origin \/ seen[q]
      BY <1>1, <1>4, <2>1 DEF Search, Closed
    <2> QED  BY <2>1, <2>2
  <1> QED  BY <1>5, <1>6 DEF Separated

\* "No route" is never wrong while nothing disturbs the search: whatever the connections, the
\* hop limit and the fan-out, a request that ends with null then had no chain of
\* connections to its target, or reached the target and had no answer the origin can use
\* (routeRequest, the peer.route handler, firstNonNull).
THEOREM NoFalseNull == Spec => []NullMeansNoRoute
  <1>1. Init => Searched
    <2> SUFFICES ASSUME Init  PROVE Searched
      OBVIOUS
    <2>1. /\ result = "none" /\ calls = {} /\ copies = {} /\ forwards = {} /\ handled = {} /\ replies = {}
          /\ seen = [p \in Peers |-> FALSE]
      BY DEF Init
    <2>2. Live = {} /\ Tokens = {}
      BY <2>1 DEF Live, Tokens
    <2>3. ~seen[Target] /\ \A p \in Peers : ~seen[p]
      BY <2>1, EndsDiffer
    <2>4. Types /\ Idle
      BY <2>1, <2>2, <2>3 DEF Types, Idle
    <2>5. Search
      BY <2>1, <2>2, <2>3 DEF Search, Apart, AskedFor, SeenOnPath, Unfound, Found, Closed, Reached
    <2> QED  BY <2>4, <2>5 DEF Searched
  <1>2. Searched /\ [Next]_vars => Searched'
    <2>1. ASSUME Searched, Next  PROVE Searched'
      BY <2>1, NextKeepsTypes, NextKeepsSearch DEF Searched
    <2>2. CASE UNCHANGED vars
      BY <2>2 DEF vars, net, Searched, Calm, Types, Idle, Search, Apart, AskedFor, SeenOnPath, Unfound,
                  Found, Closed, Reached, Live, Tokens, Chain, Neighbours, StrictlyExtends, Prefix
    <2> QED  BY <2>1, <2>2
  <1> QED  BY <1>1, <1>2, EndedSearchSeparates, PTL DEF Spec

----------------------------------------------------------------------------
(* TransportManager, for any relays, configuration and bounds.             *)
(*                                                                         *)
(* While the manager runs, an attempt that began with a working            *)
(* reservation either still has it, or has the relay on its list; and the  *)
(* relay the user should be on is the head of that list, unless another    *)
(* attempt is queued, which will ask for it again.                         *)

(* The list of an attempt: every relay of a sequence once, in the order of *)
(* their first places.                                                     *)

\* How many of the positions ps come up to i: the place of i among them.
Place(ps, i) == Cardinality({k \in ps : k <= i})

LEMMA PlacesCount ==
    ASSUME NEW n \in Nat, NEW ps \in SUBSET (1..n)
    PROVE  /\ IsFiniteSet(ps) /\ Cardinality(ps) \in Nat
           /\ \A i \in ps : Place(ps, i) \in 1..Cardinality(ps)
           /\ \A i, k \in ps : Place(ps, i) = Place(ps, k) => i = k
           /\ \A j \in 1..Cardinality(ps) : \E i \in ps : Place(ps, i) = j
<1>1. IsFiniteSet(ps) /\ Cardinality(ps) \in Nat
  <2>1. IsFiniteSet(1..n)
    BY FS_Interval
  <2>2. IsFiniteSet(ps)
    BY <2>1, FS_Subset
  <2>3. QED
    BY <2>2, FS_CardinalityType
<1>2. \A T \in SUBSET ps : IsFiniteSet(T) /\ Cardinality(T) \in Nat /\ Cardinality(T) <= Cardinality(ps)
  BY <1>1, FS_Subset, FS_CardinalityType
<1>3. ASSUME NEW i \in ps PROVE Place(ps, i) \in 1..Cardinality(ps)
  <2> DEFINE T == {k \in ps : k <= i}
  <2>1. T \in SUBSET ps /\ i \in T
    OBVIOUS
  <2>2. Cardinality(T) # 0
    BY <1>2, <2>1, FS_EmptySet
  <2>3. QED
    BY <1>1, <1>2, <2>1, <2>2 DEF Place
<1>4. ASSUME NEW i \in ps, NEW k \in ps, i < k PROVE Place(ps, i) # Place(ps, k)
  <2> DEFINE T == {l \in ps : l <= i}
             U == {l \in ps : l <= k}
  <2>1. T \in SUBSET U /\ U \in SUBSET ps /\ k \in U /\ k \notin T
    <3>1. \A l \in ps : l \in Nat /\ (l <= i => l <= k)
      BY <1>4
    <3>2. k <= k /\ ~(k <= i)
      BY <1>4, <3>1
    <3>3. QED
      BY <3>1, <3>2
  <2> HIDE DEF T, U
  <2>2. Cardinality(T) # Cardinality(U)
    BY <1>2, <2>1, FS_Subset
  <2>3. QED
    BY <2>2 DEF Place, T, U
<1>5. \A i, k \in ps : Place(ps, i) = Place(ps, k) => i = k
  <2> SUFFICES ASSUME NEW i \in ps, NEW k \in ps, i # k PROVE Place(ps, i) # Place(ps, k)
    OBVIOUS
  <2>1. i < k \/ k < i
    OBVIOUS
  <2>2. QED
    BY <1>4, <2>1
<1>6. ASSUME NEW j \in 1..Cardinality(ps) PROVE \E i \in ps : Place(ps, i) = j
  <2> DEFINE c == Cardinality(ps)
             f == [i \in ps |-> Place(ps, i)]
  <2>1. f \in Injection(ps, 1..c)
    <3>1. f \in [ps -> 1..c]
      BY <1>3
    <3>2. \A a, b \in ps : f[a] = f[b] => a = b
      BY <1>5
    <3> HIDE DEF f
    <3>3. QED
      BY <3>1, <3>2, Fun_IsInj
  <2>2. IsFiniteSet(1..c) /\ Cardinality(1..c) = c
    BY <1>1, FS_Interval
  <2>3. f \in Surjection(ps, 1..c)
    <3> HIDE DEF f
    <3>1. QED
      BY <2>1, <2>2, FS_Injection
  <2>4. \E i \in ps : f[i] = j
    <3> HIDE DEF f
    <3>1. \A x \in 1..c : \E i \in ps : f[i] = x
      BY <2>3, Fun_SurjectionProperties
    <3>2. QED
      BY <3>1
  <2>5. QED
    BY <2>4
<1>7. QED
  BY <1>1, <1>3, <1>5, <1>6

LEMMA FirstOf ==
    ASSUME NEW s \in Seq(Relays), NEW i \in DOMAIN s
    PROVE  \E j \in FirstPlaces(s) : s[j] = s[i]
<1> DEFINE S == {j \in DOMAIN s : s[j] = s[i]}
<1>1. S \subseteq Nat /\ S # {} /\ DOMAIN s = 1..Len(s) /\ Len(s) \in Nat
  OBVIOUS
<1>2. PICK j \in S : \A k \in S : ~(<<k, j>> \in OpToRel(<, Nat))
  BY <1>1, WFMin, NatLessThanWellFounded
<1>3. \A k, n \in Nat : k < n => <<k, n>> \in OpToRel(<, Nat)
  BY DEF OpToRel
<1>4. ASSUME NEW k \in 1..j-1 PROVE s[k] # s[j]
  <2>1. j \in 1..Len(s) /\ s[j] = s[i]
    BY <1>1
  <2>2. k \in DOMAIN s /\ k < j /\ k \in Nat /\ j \in Nat
    BY <1>1, <2>1
  <2>3. k \notin S
    BY <1>2, <1>3, <2>2
  <2> QED
    BY <2>1, <2>2, <2>3
<1>5. j \in FirstPlaces(s) /\ s[j] = s[i]
  BY <1>4 DEF FirstPlaces
<1> QED
  BY <1>5

LEMMA DistinctFacts ==
    ASSUME NEW s \in Seq(Relays)
    PROVE  /\ Distinct(s) \in Seq(Relays)
           /\ s # <<>> => Distinct(s) # <<>> /\ Head(Distinct(s)) = Head(s)
           /\ \A i \in DOMAIN s : \E k \in DOMAIN Distinct(s) : Distinct(s)[k] = s[i]
<1> DEFINE ps == FirstPlaces(s)
           n == Cardinality(ps)
           at(k) == CHOOSE i \in ps : Place(ps, i) = k
           t == Distinct(s)
<1>1. /\ n \in Nat
      /\ \A i \in ps : Place(ps, i) \in 1..n
      /\ \A i, k \in ps : Place(ps, i) = Place(ps, k) => i = k
      /\ \A k \in 1..n : \E i \in ps : Place(ps, i) = k
  <2>1. Len(s) \in Nat /\ ps \in SUBSET (1..Len(s))
    BY DEF FirstPlaces
  <2>2. QED
    BY <2>1, PlacesCount, Zenon
<1>2. t = [k \in 1..n |-> s[at(k)]]
  BY DEF Distinct, Place
<1>3. \A k \in 1..n : at(k) \in ps /\ Place(ps, at(k)) = k
  BY <1>1
<1>4. \A i \in ps : i \in DOMAIN s /\ s[i] \in Relays
  BY DEF FirstPlaces
<1>5. s # <<>> => 1 \in ps /\ Place(ps, 1) = 1
  <2> HAVE s # <<>>
  <2>1. 1 \in ps
    BY DEF FirstPlaces
  <2>2. {k \in ps : k <= 1} = {1}
    <3>1. \A k \in ps : k \in Nat /\ 1 <= k
      BY DEF FirstPlaces
    <3> HIDE DEF ps
    <3> QED
      BY <2>1, <3>1
  <2>3. Cardinality({1}) = 1
    BY FS_Singleton
  <2> QED
    BY <2>1, <2>2, <2>3 DEF Place
<1> HIDE DEF n, at, ps, t
<1>6. t \in Seq(Relays) /\ Len(t) = n /\ DOMAIN t = 1..n
  BY <1>1, <1>2, <1>3, <1>4
<1>7. ASSUME NEW i \in ps PROVE Place(ps, i) \in 1..n /\ t[Place(ps, i)] = s[i]
  <2>1. Place(ps, i) \in 1..n
    BY <1>1
  <2>2. at(Place(ps, i)) = i
    BY <1>1, <1>3, <2>1
  <2> QED
    BY <1>2, <2>1, <2>2
<1>8. s # <<>> => t # <<>> /\ Head(t) = Head(s)
  <2> HAVE s # <<>>
  <2>1. 1 \in 1..n /\ t[1] = s[1]
    BY <1>5, <1>7
  <2> QED
    BY <1>6, <2>1
<1>9. ASSUME NEW i \in DOMAIN s PROVE \E k \in DOMAIN t : t[k] = s[i]
  <2>1. PICK j \in ps : s[j] = s[i]
    BY FirstOf DEF ps
  <2> QED
    BY <1>6, <1>7, <2>1
<1> QED
  BY <1>6, <1>8, <1>9 DEF t

----------------------------------------------------------------------------
(* The state of the manager while it runs. *)

\* The node is there for what needs it.
NodeIsThere ==
    /\ node \in {"none", "live"}
    /\ conns # {} => node = "live"
    /\ node = "none" => active = None
    /\ att.stage \in {"dialing", "hanging", "reserving"} => node = "live"
    /\ att.stage = "creating" => node = "none"
IdleIsSettled == ~Busy /\ active # None => state = "connected"
\* The reservation an attempt began with: untouched until the next relay has answered, and
\* on the list from then on.
ReservationKept ==
    working # None =>
        /\ working \in Relays /\ status[working] = "up" /\ node = "live"
        /\ Busy /\ att.replace /\ att.stage # "creating"
        /\ att.stage \in {"resolving", "dialing"} => active = working /\ Holds(working)
        /\ att.stage \in {"dialing", "hanging"} => att.previous = working
        /\ att.stage \in {"hanging", "reserving"} => \E i \in DOMAIN att.list : att.list[i] = working
\* The relay that should win comes first, or another attempt is queued.
ChoiceIsAhead ==
    good =>
        /\ selected # None /\ status[selected] = "up"
        /\ Busy /\ ~queued => att.asks = selected
        /\ att.stage \in {"creating", "dialing", "hanging", "reserving"} /\ ~queued =>
              att.list # <<>> /\ Head(att.list) = selected
Sound == NodeIsThere /\ IdleIsSettled /\ ReservationKept /\ ChoiceIsAhead /\ SelectedIsUsed
\* What there is to dial, and what to fall back on.
Prepared ==
    /\ att.stage \in {"creating", "dialing"} => att.list # <<>>
    /\ att.stage = "dialing" => att.previous # None
ManagerInv == ManagerTypeOK /\ Prepared /\ (running => Sound)

LEMMA NoAttemptIs == NoAttempt \in Attempt /\ NoAttempt.stage = "idle"
BY DEF NoAttempt, Attempt, Maybe

LEMMA BeganIs ==
    ASSUME NEW replace \in BOOLEAN, NEW by \in {"none", "start", "timer"}, NEW sel \in Maybe
    PROVE  /\ Began(replace, by, sel) \in Attempt
           /\ Began(replace, by, sel).stage = "resolving"
           /\ Began(replace, by, sel).replace = replace
           /\ Began(replace, by, sel).asks = sel
BY NoAttemptIs DEF Began, Attempt

LEMMA RelayListIs ==
    ASSUME discovered \in Seq(Relays), NEW local \in Seq(Relays)
    PROVE  /\ RelayList(local) \in Seq(Relays) /\ RelayList(local) # <<>>
           /\ local # <<>> => Head(RelayList(local)) = Head(local)
<1> DEFINE s == local \o Configured \o discovered
<1>1. s \in Seq(Relays) /\ s # <<>> /\ (local # <<>> => Head(s) = Head(local))
  BY BuiltIn
<1>2. RelayList(local) = Distinct(s)
  BY DEF RelayList
<1> HIDE DEF s
<1> QED
  BY <1>1, <1>2, DistinctFacts

LEMMA FallbackIs ==
    ASSUME NEW list \in Seq(Relays), NEW r \in Relays
    PROVE  /\ WithFallback(list, r) \in Seq(Relays) /\ WithFallback(list, r) # <<>>
           /\ list # <<>> => Head(WithFallback(list, r)) = Head(list)
           /\ \E i \in DOMAIN WithFallback(list, r) : WithFallback(list, r)[i] = r
<1> DEFINE s == Append(list, r)
<1>1. /\ s \in Seq(Relays) /\ s # <<>> /\ (list # <<>> => Head(s) = Head(list))
      /\ \E i \in DOMAIN s : s[i] = r
  <2>1. s \in Seq(Relays) /\ Len(s) = Len(list) + 1 /\ s[Len(list) + 1] = r /\ Len(list) \in Nat
    OBVIOUS
  <2> QED
    BY <2>1
<1>2. WithFallback(list, r) = Distinct(s)
  BY DEF WithFallback
<1> HIDE DEF s
<1> QED
  BY <1>1, <1>2, DistinctFacts

\* The end of an attempt.
LEMMA FinishKeepsTypes ==
    ASSUME ManagerTypeOK, NEW s \in {"connected", "disconnected"}, NEW r \in Maybe, Finish(s, r)
    PROVE  /\ queued' \in BOOLEAN /\ state' \in {"disconnected", "connecting", "connected"}
           /\ att' \in Attempt /\ active' \in Maybe /\ working' \in Maybe
           /\ timers' \in 0..MaxTimers
<1>1. att' \in Attempt
  BY BeganIs, NoAttemptIs DEF Finish, ManagerTypeOK
<1>2. timers' \in 0..MaxTimers
  BY Bounds DEF Finish, ManagerTypeOK
<1> QED
  BY <1>1, <1>2 DEF Finish, Queued, ManagerTypeOK, Maybe

LEMMA FinishIsSound ==
    ASSUME ManagerTypeOK, running, NEW s \in {"connected", "disconnected"}, NEW r \in Maybe, Finish(s, r),
           UNCHANGED <<running, node, selected, status, events, good>>,
           conns \subseteq conns', conns' # {} => node = "live",
           node \in {"none", "live"}, node = "none" => r = None, r # None => s = "connected",
           good => selected # None /\ status[selected] = "up",
           s = "connected" /\ good /\ ~queued => r = selected
    PROVE  Sound'
<1>1. CASE queued
  <2>1. /\ active' = r /\ state' = "connecting" /\ ~queued'
        /\ att' = Began(TRUE, "none", selected)
        /\ working' = IF Holds(r) THEN r ELSE None
    BY <1>1 DEF Finish, Queued
  <2>2. att'.stage = "resolving" /\ att'.replace /\ att'.asks = selected
    BY <2>1, BeganIs DEF ManagerTypeOK
  <2>3. working' # None => /\ working' \in Relays /\ status[working'] = "up" /\ node = "live"
                           /\ active' = working' /\ Holds(working)'
    <3>1. CASE Holds(r)
      <4>1. r \in Relays /\ working' = r /\ r # None
        BY <2>1, <3>1, NoneIsNoRelay DEF Holds, ManagerTypeOK
      <4>2. node = "live" /\ Holds(working)' /\ status[r] = "up"
        BY <3>1, <4>1 DEF Holds
      <4> QED
        BY <2>1, <4>1, <4>2
    <3>2. CASE ~Holds(r)
      BY <2>1, <3>2
    <3> QED
      BY <3>1, <3>2
  <2> QED
    BY <2>1, <2>2, <2>3 DEF Sound, NodeIsThere, IdleIsSettled, ReservationKept, ChoiceIsAhead, SelectedIsUsed, Busy
<1>2. CASE ~queued
  <2>1. /\ active' = r /\ state' = s /\ ~queued' /\ att'.stage = "idle" /\ working' = None
    BY <1>2, NoAttemptIs DEF Finish, Queued, ManagerTypeOK
  <2> QED
    BY <1>2, <2>1 DEF Sound, NodeIsThere, IdleIsSettled, ReservationKept, ChoiceIsAhead, SelectedIsUsed, Busy
<1> QED
  BY <1>1, <1>2 DEF ManagerTypeOK

\* Types, step by step.
LEMMA ScenarioCounts ==
    ASSUME scenario \in Scenario,
           \/ scenario.selections > 0 /\ scenario' = [scenario EXCEPT !.selections = @ - 1]
           \/ scenario.changes > 0 /\ scenario' = [scenario EXCEPT !.changes = @ - 1]
           \/ scenario.discoveries > 0 /\ scenario' = [scenario EXCEPT !.discoveries = @ - 1]
    PROVE  scenario' \in Scenario
BY DEF Scenario

LEMMA LocalIs ==
    ASSUME ManagerTypeOK, NEW local \in {<<>>} \cup {<<r>> : r \in {att.asks} \ {None}}
    PROVE  /\ local \in Seq(Relays)
           /\ local # <<>> => Head(local) = att.asks
<1>1. att.asks \in Maybe
  BY DEF ManagerTypeOK, Attempt
<1>2. CASE local = <<>>
  BY <1>2
<1>3. CASE local # <<>>
  <2>1. att.asks \in Relays /\ local = <<att.asks>>
    BY <1>1, <1>3 DEF Maybe
  <2> QED
    BY <2>1
<1> QED
  BY <1>2, <1>3

LEMMA ProceedIs ==
    ASSUME ManagerTypeOK, NEW list \in Seq(Relays), Proceed(list)
    PROVE  /\ att' \in Attempt
           /\ att'.stage = IF att.replace /\ active # None /\ Head(list) # active THEN "dialing" ELSE "reserving"
           /\ att'.list = list /\ att'.previous = active
           /\ att'.replace = att.replace /\ att'.asks = att.asks
<1> DEFINE stage == IF att.replace /\ active # None /\ Head(list) # active THEN "dialing" ELSE "reserving"
<1>0. att \in Attempt /\ active \in Maybe
  BY DEF ManagerTypeOK
<1>1. att' = [att EXCEPT !.stage = stage, !.list = list, !.previous = active]
  BY DEF Proceed
<1>2. stage \in {"dialing", "reserving"}
  OBVIOUS
<1> HIDE DEF stage
<1>3. /\ att' \in Attempt /\ att'.stage = stage /\ att'.list = list /\ att'.previous = active
      /\ att'.replace = att.replace /\ att'.asks = att.asks
  BY <1>1, <1>2, <1>0 DEF Attempt
<1> QED
  BY <1>3 DEF stage

\* What resolving the relays leads to.
LEMMA ResolvedIs ==
    ASSUME ManagerTypeOK, Resolved
    PROVE  \E list \in Seq(Relays) :
             /\ list # <<>>
             /\ good' \in BOOLEAN
             /\ good' => good /\ (att.asks = selected => Head(list) = selected)
             /\ \/ /\ node = "none"
                   /\ att' \in Attempt /\ att'.stage = "creating" /\ att'.list = list
                   /\ att'.previous = att.previous
                   /\ att'.replace = att.replace /\ att'.asks = att.asks
                \/ node # "none" /\ Proceed(list)
<1>1. PICK local \in {<<>>} \cup {<<r>> : r \in {att.asks} \ {None}} :
         /\ good' = (good /\ (att.asks = selected => local # <<>>))
         /\ IF node = "none"
            THEN att' = [att EXCEPT !.stage = "creating", !.list = RelayList(local)]
            ELSE Proceed(RelayList(local))
  BY DEF Resolved
<1>2. /\ RelayList(local) \in Seq(Relays) /\ RelayList(local) # <<>>
      /\ local # <<>> => Head(RelayList(local)) = att.asks
  BY LocalIs, RelayListIs DEF ManagerTypeOK
<1>3. good' \in BOOLEAN /\ (good' => good /\ (att.asks = selected => Head(RelayList(local)) = selected))
  BY <1>1, <1>2 DEF ManagerTypeOK
<1>4. CASE node = "none"
  <2>1. att' = [att EXCEPT !.stage = "creating", !.list = RelayList(local)] /\ att \in Attempt
    BY <1>1, <1>4 DEF ManagerTypeOK
  <2>2. /\ att' \in Attempt /\ att'.stage = "creating" /\ att'.list = RelayList(local)
        /\ att'.previous = att.previous
        /\ att'.replace = att.replace /\ att'.asks = att.asks
    BY <1>2, <2>1 DEF Attempt
  <2> QED
    BY <1>2, <1>3, <1>4, <2>2
<1>5. CASE node # "none"
  BY <1>1, <1>2, <1>3, <1>5
<1> QED
  BY <1>4, <1>5

\* What dialling the next relay leads to.
LEMMA DialledIs ==
    ASSUME ManagerTypeOK, att.previous # None, att.stage = "dialing", Answers(Head(att.list)), Dialled
    PROVE  /\ att' \in Attempt /\ att'.stage = "hanging"
           /\ att'.list = WithFallback(att.list, att.previous) /\ att'.previous = att.previous
           /\ att'.replace = att.replace /\ att'.asks = att.asks
           /\ HangsUp(att.previous, Head(att.list))
           /\ UNCHANGED <<scenario, running, node, last, discovered, selected, status, good,
                          state, active, queued, timers, working>>
<1>1. /\ att' = [att EXCEPT !.stage = "hanging", !.list = WithFallback(att.list, att.previous)]
      /\ HangsUp(att.previous, Head(att.list))
      /\ UNCHANGED <<state, active, queued, timers, working>>
      /\ UNCHANGED <<scenario, running, node, last, discovered, selected, status, good>>
  BY DEF Dialled
<1>2. att \in Attempt /\ att.list \in Seq(Relays) /\ att.previous \in Relays
  BY DEF ManagerTypeOK, Attempt, Maybe
<1>3. WithFallback(att.list, att.previous) \in Seq(Relays)
  BY <1>2, FallbackIs
<1> QED
  BY <1>1, <1>2, <1>3 DEF Attempt

\* A new attempt.
LEMMA BeginIs ==
    ASSUME ManagerTypeOK, NEW replace \in BOOLEAN, NEW by \in {"none", "start", "timer"}, NEW sel \in Maybe,
           Begin(replace, by, sel)
    PROVE  /\ att' \in Attempt /\ att'.stage = "resolving" /\ att'.replace = replace /\ att'.asks = sel
           /\ state' = "connecting"
           /\ working' \in Maybe
           /\ working' # None => working' = active /\ Holds(active)
<1>1. /\ att' = Began(replace, by, sel) /\ state' = "connecting"
      /\ working' = IF Holds(active) THEN active ELSE None
  BY DEF Begin
<1>2. None \in Maybe /\ active \in Maybe
  BY DEF ManagerTypeOK, Maybe
<1> QED
  BY <1>1, <1>2, BeganIs

LEMMA RefreshIs ==
    ASSUME ManagerTypeOK, NEW sel \in Maybe, Refresh(sel)
    PROVE  \/ running /\ ~Busy /\ Begin(TRUE, "none", sel) /\ queued' = queued
           \/ ~(running /\ ~Busy) /\ queued' = (queued \/ running) /\ UNCHANGED <<att, state, working>>
BY DEF Refresh

LEMMA RememberIs ==
    ASSUME ManagerTypeOK, NEW r \in Relays, ~Contains(discovered, r)
    PROVE  Remember(r) \in Seq(Relays) /\ IsInjective(Remember(r)) /\ Len(Remember(r)) <= MaxDiscovered
<1>1. /\ discovered \in Seq(Relays) /\ Len(discovered) <= MaxDiscovered /\ MaxDiscovered \in Nat \ {0}
      /\ Len(discovered) \in Nat /\ DOMAIN discovered = 1..Len(discovered)
  BY Bounds DEF ManagerTypeOK
<1>2. \A i, j \in 1..Len(discovered) : discovered[i] = discovered[j] => i = j
  BY <1>1 DEF ManagerTypeOK, IsInjective
<1>3. \A i \in 1..Len(discovered) : discovered[i] # r
  BY DEF Contains
<1>4. CASE Len(discovered) < MaxDiscovered
  <2> DEFINE t == Append(discovered, r)
  <2>1. t \in Seq(Relays) /\ Len(t) = Len(discovered) + 1 /\ DOMAIN t = 1..Len(discovered) + 1
    BY <1>1
  <2>2. \A i \in 1..Len(discovered) + 1 : t[i] = IF i <= Len(discovered) THEN discovered[i] ELSE r
    BY <1>1
  <2> HIDE DEF t
  <2>3. \A i, j \in DOMAIN t : t[i] = t[j] => i = j
    BY <1>1, <1>2, <1>3, <2>1, <2>2
  <2>4. Remember(r) = t
    BY <1>4 DEF Remember, t
  <2> QED
    BY <1>1, <1>4, <2>1, <2>3, <2>4 DEF IsInjective
<1>5. CASE ~(Len(discovered) < MaxDiscovered)
  <2> DEFINE u == Tail(discovered)
             t == Append(u, r)
             n == Len(discovered)
  <2>1. n \in Nat \ {0} /\ discovered # <<>>
    BY <1>1, <1>5
  <2>2. u \in Seq(Relays) /\ Len(u) = n - 1 /\ \A i \in 1..n - 1 : u[i] = discovered[i + 1]
    BY <1>1, <2>1
  <2> HIDE DEF u, n
  <2>3. t \in Seq(Relays) /\ Len(t) = n /\ DOMAIN t = 1..n
    BY <2>1, <2>2
  <2>4. \A i \in 1..n : t[i] = IF i < n THEN discovered[i + 1] ELSE r
    BY <2>1, <2>2
  <2> HIDE DEF t
  <2>5. \A i, j \in DOMAIN t : t[i] = t[j] => i = j
    BY <1>2, <1>3, <2>1, <2>3, <2>4 DEF n
  <2>6. Remember(r) = t
    BY <1>5 DEF Remember, t, u
  <2> QED
    BY <1>1, <2>3, <2>5, <2>6 DEF IsInjective, n
<1> QED
  BY <1>4, <1>5

LEMMA ClosedEventsAreEvents ==
    ASSUME ManagerTypeOK, NEW rs
    PROVE  ClosedEvents(rs) \subseteq Relays \X {"close", "gone"}
BY DEF ManagerTypeOK, ClosedEvents

LEMMA AttemptKeepsTypes ==
    ASSUME ManagerTypeOK, Prepared, AttemptSteps
    PROVE  ManagerTypeOK' /\ Prepared'
<1>0. active \in Maybe /\ None \in Maybe /\ att \in Attempt /\ att.list \in Seq(Relays)
  BY DEF ManagerTypeOK, Attempt, Maybe
<1>1. CASE Resolved
  <2>1. PICK list \in Seq(Relays) :
             /\ list # <<>>
             /\ good' \in BOOLEAN
             /\ \/ att' \in Attempt /\ att'.stage = "creating" /\ att'.list = list
                \/ Proceed(list)
    BY <1>1, ResolvedIs
  <2>2. att' \in Attempt /\ Prepared'
    BY <2>1, ProceedIs DEF Prepared
  <2> QED
    BY <1>1, <2>1, <2>2 DEF ManagerTypeOK, Resolved, env
<1>2. CASE Created
  <2>1. Proceed(att.list) /\ att.list # <<>>
    BY <1>2 DEF Created, Prepared
  <2>2. att' \in Attempt /\ Prepared'
    BY <1>0, <2>1, ProceedIs DEF Prepared
  <2> QED
    BY <1>2, <2>2 DEF ManagerTypeOK, Created, env
<1>3. CASE CreateFails
  <2>1. scenario' \in Scenario
    BY <1>3, ScenarioCounts DEF CreateFails, ManagerTypeOK
  <2>2. Finish("disconnected", active)
    BY <1>3 DEF CreateFails
  <2>3. Prepared'
    BY <2>2, BeganIs, NoAttemptIs DEF Finish, Prepared, ManagerTypeOK
  <2> QED
    BY <1>0, <1>3, <2>1, <2>2, <2>3, FinishKeepsTypes DEF ManagerTypeOK, CreateFails, env
<1>4. CASE Dialled
  <2>0. att.stage = "dialing" /\ att.list # <<>> /\ att.previous # None
    BY <1>4 DEF Dialled, Prepared
  <2>1. CASE Answers(Head(att.list))
    <3>1. Head(att.list) \in Relays
      BY <1>0, <2>0
    <3>2. conns' \subseteq Relays /\ events' \subseteq Relays \X {"close", "gone"}
      BY <1>4, <2>0, <2>1, <3>1, DialledIs, ClosedEventsAreEvents DEF HangsUp, ManagerTypeOK
    <3>3. Prepared'
      BY <1>4, <2>0, <2>1, DialledIs DEF Prepared
    <3> QED
      BY <1>4, <2>0, <2>1, <3>2, <3>3, DialledIs DEF ManagerTypeOK
  <2>2. CASE ~Answers(Head(att.list))
    <3>1. /\ Finish("connected", active)
          /\ UNCHANGED <<conns, events>>
          /\ UNCHANGED <<scenario, running, node, last, discovered, selected, status, good>>
      BY <1>4, <2>2 DEF Dialled
    <3>2. Prepared'
      BY <3>1, BeganIs, NoAttemptIs DEF Finish, Prepared, ManagerTypeOK
    <3> QED
      BY <1>0, <3>1, <3>2, FinishKeepsTypes DEF ManagerTypeOK
  <2> QED
    BY <2>1, <2>2
<1>5. CASE HungUp
  <2>1. att' \in Attempt /\ att'.stage = "reserving"
    BY <1>0, <1>5 DEF HungUp, Attempt
  <2> QED
    BY <1>0, <1>5, <2>1 DEF ManagerTypeOK, HungUp, env, Prepared
<1>6. CASE Reserved
  <2>0. att.stage = "reserving" /\ att.list # <<>> /\ Head(att.list) \in Relays /\ Head(att.list) \in Maybe
        /\ UNCHANGED <<scenario, running, node, discovered, selected, status, events, good>>
    BY <1>0, <1>6 DEF Reserved, Maybe
  <2>1. CASE Reserves(Head(att.list))
    <3>1. Finish("connected", Head(att.list)) /\ last' = Head(att.list) /\ conns' = conns \cup {Head(att.list)}
      BY <1>6, <2>1 DEF Reserved
    <3>2. Prepared'
      BY <3>1, BeganIs, NoAttemptIs DEF Finish, Prepared, ManagerTypeOK
    <3> QED
      BY <2>0, <3>1, <3>2, FinishKeepsTypes DEF ManagerTypeOK
  <2>2. CASE ~Reserves(Head(att.list))
    <3>1. /\ att' = [att EXCEPT !.list = Tail(att.list)]
          /\ conns' = IF Answers(Head(att.list)) THEN conns \cup {Head(att.list)} ELSE conns
          /\ UNCHANGED <<state, queued, active, last, timers, working>>
      BY <1>6, <2>2 DEF Reserved
    <3>2. Tail(att.list) \in Seq(Relays)
      BY <1>0, <2>0
    <3>3. att' \in Attempt /\ att'.stage = "reserving"
      BY <1>0, <2>0, <3>1, <3>2 DEF Attempt
    <3> QED
      BY <2>0, <3>1, <3>3 DEF ManagerTypeOK, Prepared
  <2> QED
    BY <2>1, <2>2
<1>7. CASE NoneReserved
  <2>1. Finish("disconnected", None)
    BY <1>7 DEF NoneReserved
  <2>2. Prepared'
    BY <2>1, BeganIs, NoAttemptIs DEF Finish, Prepared, ManagerTypeOK
  <2> QED
    BY <1>0, <1>7, <2>1, <2>2, FinishKeepsTypes DEF ManagerTypeOK, NoneReserved, env
<1> QED
  BY <1>1, <1>2, <1>3, <1>4, <1>5, <1>6, <1>7 DEF AttemptSteps

LEMMA ManagerStepKeepsTypes ==
    ASSUME ManagerTypeOK, Prepared, [ManagerNext]_managerVars
    PROVE  ManagerTypeOK' /\ Prepared'
<1>0. active \in Maybe /\ None \in Maybe /\ att \in Attempt /\ selected \in Maybe
  BY DEF ManagerTypeOK, Maybe
<1>1. CASE AttemptSteps
  BY <1>1, AttemptKeepsTypes
<1>2. CASE TimerFires
  <2>1. timers' \in 0..MaxTimers
    BY <1>2, Bounds DEF TimerFires, ManagerTypeOK
  <2>2. \/ Begin(FALSE, "timer", selected)
        \/ UNCHANGED <<att, state, working>>
    BY <1>2 DEF TimerFires
  <2>3. /\ att' \in Attempt /\ Prepared' /\ working' \in Maybe
        /\ state' \in {"disconnected", "connecting", "connected"}
    BY <1>0, <2>2, BeginIs DEF ManagerTypeOK, Prepared
  <2> QED
    BY <1>2, <2>1, <2>3 DEF TimerFires, ManagerTypeOK, env
<1>3. ASSUME NEW r \in Maybe, Select(r) PROVE ManagerTypeOK' /\ Prepared'
  <2>1. scenario' \in Scenario
    BY <1>3, ScenarioCounts DEF Select, ManagerTypeOK
  <2>2. Refresh(r) /\ selected' = r /\ good' \in BOOLEAN
    BY <1>3 DEF Select
  <2>3. /\ att' \in Attempt /\ Prepared' /\ working' \in Maybe /\ queued' \in BOOLEAN
        /\ state' \in {"disconnected", "connecting", "connected"}
    BY <1>0, <2>2, RefreshIs, BeginIs DEF ManagerTypeOK, Prepared
  <2> QED
    BY <1>3, <2>1, <2>2, <2>3 DEF Select, ManagerTypeOK
<1>4. ASSUME NEW r \in Relays, Discover(r) PROVE ManagerTypeOK' /\ Prepared'
  <2>1. scenario' \in Scenario
    BY <1>4, ScenarioCounts DEF Discover, ManagerTypeOK
  <2>2. discovered' \in Seq(Relays) /\ IsInjective(discovered') /\ Len(discovered') <= MaxDiscovered
    BY <1>4, RememberIs DEF Discover
  <2>3. Begin(FALSE, "none", selected) \/ UNCHANGED <<att, state, working>>
    BY <1>4 DEF Discover
  <2>4. /\ att' \in Attempt /\ Prepared' /\ working' \in Maybe
        /\ state' \in {"disconnected", "connecting", "connected"}
    BY <1>0, <2>3, BeginIs DEF ManagerTypeOK, Prepared
  <2> QED
    BY <1>4, <2>1, <2>2, <2>4 DEF Discover, ManagerTypeOK, env
<1>5. ASSUME NEW r \in Relays, Change(r) PROVE ManagerTypeOK' /\ Prepared'
  <2>1. scenario' \in Scenario
    BY <1>5, ScenarioCounts DEF Change, ManagerTypeOK
  <2>2. PICK s \in {"up", "full", "down"} :
          /\ status' = [status EXCEPT ![r] = s]
          /\ IF s = "down" THEN conns' = conns \ {r} /\ events' = events \cup ClosedEvents({r})
                          ELSE UNCHANGED <<conns, events>>
          /\ good' = (good /\ (r = selected => s = "up"))
          /\ working' = IF r = working /\ s # "up" THEN None ELSE working
    BY <1>5 DEF Change
  <2>3. status' \in [Relays -> {"up", "full", "down"}] /\ good' \in BOOLEAN /\ working' \in Maybe
    BY <1>0, <2>2 DEF ManagerTypeOK
  <2>4. conns' \subseteq Relays /\ events' \subseteq Relays \X {"close", "gone"}
    BY <2>2, ClosedEventsAreEvents DEF ManagerTypeOK
  <2>5. UNCHANGED <<manager, selected>>
    BY <1>5 DEF Change
  <2> QED
    BY <2>1, <2>3, <2>4, <2>5 DEF ManagerTypeOK, manager, Prepared
<1>6. ASSUME NEW e \in Relays \X {"close", "gone"}, PathChange(e) PROVE ManagerTypeOK' /\ Prepared'
  <2>1. events' \subseteq Relays \X {"close", "gone"}
    BY <1>6 DEF PathChange, ManagerTypeOK
  <2>2. /\ active' \in Maybe /\ timers' \in 0..MaxTimers
        /\ state' \in {"disconnected", "connecting", "connected"}
    BY <1>0, <1>6, Bounds DEF PathChange, ManagerTypeOK
  <2> QED
    BY <1>6, <2>1, <2>2 DEF PathChange, ManagerTypeOK, Prepared
<1>7. CASE Stop
  <2>1. /\ node' \in {"none", "live", "stopping"} /\ active' \in Maybe /\ last' \in Maybe
        /\ state' \in {"disconnected", "connecting", "connected"}
        /\ conns' \subseteq Relays /\ events' \subseteq Relays \X {"close", "gone"}
    BY <1>0, <1>7, ClosedEventsAreEvents DEF Stop, ManagerTypeOK
  <2> QED
    BY <1>7, <2>1 DEF Stop, ManagerTypeOK, Prepared
<1>8. CASE Stopped
  BY <1>0, <1>8 DEF Stopped, ManagerTypeOK, Prepared, env
<1>9. CASE UNCHANGED managerVars
  BY <1>9 DEF managerVars, manager, env, ManagerTypeOK, Prepared
<1> QED
  BY <1>1, <1>2, <1>3, <1>4, <1>5, <1>6, <1>7, <1>8, <1>9 DEF ManagerNext

\* While nothing happens to an attempt, only what it relies on matters.
LEMMA AttemptGoesOn ==
    ASSUME ManagerInv, running,
           UNCHANGED <<running, att, node, conns, events, selected, status, good, working>>,
           queued => queued',
           \/ UNCHANGED <<active, state>>
           \/ active' = None /\ state' = "disconnected" /\ (working # None => active # working)
    PROVE  Sound'
BY DEF ManagerInv, Sound, NodeIsThere, IdleIsSettled, ReservationKept, ChoiceIsAhead, SelectedIsUsed, Busy, Holds

\* The beginning of an attempt, for the relay the user has selected.
LEMMA BeginIsSound ==
    ASSUME ManagerInv, running, ~Busy,
           NEW replace \in BOOLEAN, NEW by \in {"none", "start", "timer"}, NEW sel \in Maybe,
           Begin(replace, by, sel), selected' = sel,
           replace \/ state # "connected",
           good' => sel # None /\ status[sel] = "up",
           UNCHANGED <<running, node, active, status, conns, events>>
    PROVE  Sound'
<1>1. /\ att'.stage = "resolving" /\ att'.replace = replace /\ att'.asks = sel
      /\ working' # None => working' = active /\ Holds(active)
  BY BeginIs DEF ManagerInv
<1>2. NodeIsThere /\ IdleIsSettled
  BY DEF ManagerInv, Sound
<1>3. working' # None =>
        /\ working' \in Relays /\ status[working'] = "up" /\ node = "live" /\ replace
        /\ active' = working' /\ Holds(working)'
  <2> HAVE working' # None
  <2>1. working' = active /\ Holds(active) /\ active \in conns
    BY <1>1 DEF Holds
  <2>2. active \in Relays /\ active # None /\ status[active] = "up" /\ node = "live"
    BY <1>2, <2>1, NoneIsNoRelay DEF ManagerInv, ManagerTypeOK, NodeIsThere, Holds
  <2>3. replace
    BY <1>2, <2>2 DEF IdleIsSettled
  <2>4. Holds(working)'
    BY <2>1 DEF Holds
  <2> QED
    BY <2>1, <2>2, <2>3, <2>4
<1> QED
  BY <1>1, <1>2, <1>3 DEF Sound, NodeIsThere, IdleIsSettled, ReservationKept, ChoiceIsAhead, SelectedIsUsed, Busy

\* An attempt that goes through the list, or first dials the next relay.
LEMMA ProceedIsSound ==
    ASSUME ManagerInv, running, NEW list \in Seq(Relays), list # <<>>, Proceed(list),
           node' = "live", good' => good,
           good' /\ ~queued => att.asks = selected /\ Head(list) = selected,
           Busy,
           working # None => active = working /\ Holds(working),
           UNCHANGED <<running, queued, active, selected, status, conns, events, working>>
    PROVE  Sound'
<1> DEFINE switch == att.replace /\ active # None /\ Head(list) # active
<1>1. /\ att'.stage = IF switch THEN "dialing" ELSE "reserving"
      /\ att'.list = list /\ att'.previous = active
      /\ att'.replace = att.replace /\ att'.asks = att.asks
  BY ProceedIs DEF ManagerInv
<1>2. NodeIsThere /\ ReservationKept /\ ChoiceIsAhead
  BY DEF ManagerInv, Sound
<1>3. working # None /\ ~switch => \E i \in DOMAIN list : list[i] = working
  <2> SUFFICES ASSUME working # None, ~switch PROVE \E i \in DOMAIN list : list[i] = working
    OBVIOUS
  <2>1. att.replace /\ active = working
    BY <1>2 DEF ReservationKept
  <2>2. Head(list) = working
    BY <2>1
  <2>3. 1 \in DOMAIN list /\ list[1] = Head(list)
    OBVIOUS
  <2> QED
    BY <2>2, <2>3
<1> HIDE DEF switch
<1>4. att'.stage \in {"dialing", "reserving"} /\ (switch <=> att'.stage = "dialing")
  BY <1>1
<1>5. NodeIsThere'
  BY <1>2, <1>4 DEF NodeIsThere
<1>6. ReservationKept'
  <2> SUFFICES ASSUME working # None PROVE ReservationKept'
    BY DEF ReservationKept
  <2>1. /\ working \in Relays /\ status[working] = "up" /\ att.replace
    BY <1>2 DEF ReservationKept
  <2>2. active = working /\ Holds(working) /\ Holds(working)'
    BY DEF Holds
  <2> QED
    BY <1>1, <1>3, <1>4, <2>1, <2>2 DEF ReservationKept, Busy
<1>7. ChoiceIsAhead'
  BY <1>1, <1>2, <1>4 DEF ChoiceIsAhead, Busy
<1>8. IdleIsSettled' /\ SelectedIsUsed'
  BY <1>4 DEF IdleIsSettled, SelectedIsUsed, Busy
<1> QED
  BY <1>5, <1>6, <1>7, <1>8 DEF Sound

LEMMA ResolvedIsSound == ASSUME ManagerInv, running, Resolved PROVE Sound'
<1>0. /\ att.stage = "resolving" /\ Busy
      /\ UNCHANGED <<running, state, node, queued, active, selected, status, conns, events, working>>
      /\ ManagerTypeOK
  BY DEF Resolved, env, Busy, ManagerInv
<1>1. PICK list \in Seq(Relays) :
             /\ list # <<>>
             /\ good' => good /\ (att.asks = selected => Head(list) = selected)
             /\ \/ /\ node = "none"
                   /\ att'.stage = "creating" /\ att'.list = list
                   /\ att'.replace = att.replace /\ att'.asks = att.asks
                \/ node # "none" /\ Proceed(list)
  BY <1>0, ResolvedIs
<1>2. NodeIsThere /\ ReservationKept /\ ChoiceIsAhead
  BY DEF ManagerInv, Sound
<1>3. good' /\ ~queued => att.asks = selected /\ Head(list) = selected
  BY <1>0, <1>1, <1>2 DEF ChoiceIsAhead
<1>4. CASE node = "none"
  <2>0. /\ att'.stage = "creating" /\ att'.list = list
        /\ att'.replace = att.replace /\ att'.asks = att.asks
    BY <1>1, <1>4
  <2>1. conns = {} /\ working = None
    BY <1>0, <1>2, <1>4 DEF NodeIsThere, ReservationKept
  <2> QED
    BY <1>0, <1>1, <1>2, <1>3, <1>4, <2>0, <2>1
    DEF Sound, NodeIsThere, IdleIsSettled, ReservationKept, ChoiceIsAhead, SelectedIsUsed, Busy
<1>5. CASE node # "none"
  <2>1. node' = "live" /\ Proceed(list)
    BY <1>0, <1>1, <1>2, <1>5 DEF NodeIsThere
  <2>2. working # None => active = working /\ Holds(working)
    BY <1>0, <1>2 DEF ReservationKept
  <2>3. good' => good
    BY <1>1
  <2> QED
    BY <1>0, <1>1, <1>3, <2>1, <2>2, <2>3, ProceedIsSound
<1> QED
  BY <1>4, <1>5

LEMMA CreatedIsSound == ASSUME ManagerInv, running, Created PROVE Sound'
<1>0. /\ att.stage = "creating" /\ Busy /\ node' = "live" /\ Proceed(att.list)
      /\ UNCHANGED <<running, queued, active, selected, status, conns, events, good, working>>
  BY DEF Created, env, Busy
<1>1. att.list \in Seq(Relays) /\ att.list # <<>>
  BY <1>0 DEF ManagerInv, ManagerTypeOK, Prepared, Attempt
<1>2. ReservationKept /\ ChoiceIsAhead
  BY DEF ManagerInv, Sound
<1>3. working = None
  BY <1>0, <1>2 DEF ReservationKept
<1>4. good' /\ ~queued => att.asks = selected /\ Head(att.list) = selected
  BY <1>0, <1>2 DEF ChoiceIsAhead
<1> QED
  BY <1>0, <1>1, <1>3, <1>4, ProceedIsSound

LEMMA CreateFailsIsSound == ASSUME ManagerInv, running, CreateFails PROVE Sound'
<1>1. /\ att.stage = "creating" /\ Finish("disconnected", active)
      /\ UNCHANGED <<running, node, selected, status, conns, events, good>>
  BY DEF CreateFails, env
<1>2. ManagerTypeOK /\ NodeIsThere /\ ChoiceIsAhead /\ active \in Maybe
  BY DEF ManagerInv, Sound, ManagerTypeOK
<1>3. node = "none" /\ active = None
  BY <1>1, <1>2 DEF NodeIsThere
<1>4. good => selected # None /\ status[selected] = "up"
  BY <1>2 DEF ChoiceIsAhead
<1> QED
  BY <1>1, <1>2, <1>3, <1>4, FinishIsSound DEF NodeIsThere

LEMMA DialledIsSound == ASSUME ManagerInv, running, Dialled PROVE Sound'
<1>0. /\ att.stage = "dialing" /\ att.list # <<>> /\ att.list \in Seq(Relays)
      /\ att.previous # None /\ att.previous \in Relays /\ Head(att.list) \in Relays
  BY DEF Dialled, ManagerInv, Prepared, ManagerTypeOK, Attempt, Maybe
<1>1. ManagerTypeOK /\ NodeIsThere /\ ReservationKept /\ ChoiceIsAhead /\ active \in Maybe
  BY DEF ManagerInv, Sound, ManagerTypeOK
<1>2. node = "live"
  BY <1>0, <1>1 DEF NodeIsThere
<1>3. CASE Answers(Head(att.list))
  <2>1. /\ att'.stage = "hanging"
        /\ att'.list = WithFallback(att.list, att.previous) /\ att'.previous = att.previous
        /\ att'.replace = att.replace /\ att'.asks = att.asks
        /\ UNCHANGED <<running, node, selected, status, good, state, active, queued, working>>
    BY <1>0, <1>1, <1>3, DialledIs
  <2>2. /\ WithFallback(att.list, att.previous) # <<>>
        /\ Head(WithFallback(att.list, att.previous)) = Head(att.list)
        /\ \E i \in DOMAIN WithFallback(att.list, att.previous) :
              WithFallback(att.list, att.previous)[i] = att.previous
    BY <1>0, FallbackIs
  <2>3. NodeIsThere'
    BY <1>1, <1>2, <2>1 DEF NodeIsThere
  <2>4. ReservationKept'
    BY <1>0, <1>1, <2>1, <2>2 DEF ReservationKept, Busy
  <2>5. ChoiceIsAhead'
    BY <1>0, <1>1, <2>1, <2>2 DEF ChoiceIsAhead, Busy
  <2> QED
    BY <2>1, <2>3, <2>4, <2>5 DEF Sound, IdleIsSettled, SelectedIsUsed, Busy
<1>4. CASE ~Answers(Head(att.list))
  <2>1. /\ Finish("connected", active)
        /\ UNCHANGED <<running, node, selected, status, conns, events, good>>
    BY <1>4 DEF Dialled
  <2>2. good => selected # None /\ status[selected] = "up"
    BY <1>1 DEF ChoiceIsAhead
  <2>3. ~(good /\ ~queued)
    BY <1>0, <1>1, <1>2, <1>4 DEF ChoiceIsAhead, Answers
  <2> QED
    BY <1>1, <1>2, <2>1, <2>2, <2>3, FinishIsSound DEF NodeIsThere
<1> QED
  BY <1>3, <1>4

LEMMA HungUpIsSound == ASSUME ManagerInv, running, HungUp PROVE Sound'
<1>1. /\ att.stage = "hanging" /\ active' = None /\ att' = [att EXCEPT !.stage = "reserving"]
      /\ UNCHANGED <<running, state, node, queued, selected, status, conns, events, good, working>>
  BY DEF HungUp, env
<1>2. /\ att'.stage = "reserving" /\ att'.list = att.list
      /\ att'.replace = att.replace /\ att'.asks = att.asks
  BY <1>1 DEF ManagerInv, ManagerTypeOK, Attempt
<1>3. NodeIsThere /\ ReservationKept /\ ChoiceIsAhead
  BY DEF ManagerInv, Sound
<1>4. NodeIsThere'
  BY <1>1, <1>2, <1>3 DEF NodeIsThere
<1>5. ReservationKept'
  BY <1>1, <1>2, <1>3 DEF ReservationKept, Busy
<1>6. ChoiceIsAhead'
  BY <1>1, <1>2, <1>3 DEF ChoiceIsAhead, Busy
<1> QED
  BY <1>1, <1>2, <1>4, <1>5, <1>6 DEF Sound, IdleIsSettled, SelectedIsUsed, Busy

LEMMA ReservedIsSound == ASSUME ManagerInv, running, Reserved PROVE Sound'
<1>0. /\ att.stage = "reserving" /\ att.list # <<>> /\ att.list \in Seq(Relays)
      /\ Head(att.list) \in Relays /\ Head(att.list) \in Maybe
      /\ UNCHANGED <<running, node, selected, status, events, good>>
  BY DEF Reserved, ManagerInv, ManagerTypeOK, Attempt, Maybe
<1>1. ManagerTypeOK /\ NodeIsThere /\ ReservationKept /\ ChoiceIsAhead
  BY DEF ManagerInv, Sound
<1>2. node = "live"
  BY <1>0, <1>1 DEF NodeIsThere
<1>3. good => selected # None /\ status[selected] = "up"
  BY <1>1 DEF ChoiceIsAhead
<1>4. good /\ ~queued => Head(att.list) = selected
  BY <1>0, <1>1 DEF ChoiceIsAhead
<1>5. CASE Reserves(Head(att.list))
  <2>1. Finish("connected", Head(att.list)) /\ conns \subseteq conns'
    BY <1>5 DEF Reserved
  <2> QED
    BY <1>0, <1>1, <1>2, <1>3, <1>4, <2>1, FinishIsSound
<1>6. CASE ~Reserves(Head(att.list))
  <2>1. /\ att' = [att EXCEPT !.list = Tail(att.list)]
        /\ UNCHANGED <<state, queued, active, working>>
    BY <1>6 DEF Reserved
  <2>2. /\ att'.stage = "reserving" /\ att'.list = Tail(att.list)
        /\ att'.replace = att.replace /\ att'.asks = att.asks
    BY <1>0, <2>1 DEF ManagerInv, ManagerTypeOK, Attempt
  <2>3. NodeIsThere'
    BY <1>0, <1>1, <1>2, <2>1, <2>2 DEF NodeIsThere
  <2>4. ReservationKept'
    <3> SUFFICES ASSUME working # None PROVE ReservationKept'
      BY <2>1 DEF ReservationKept
    <3>1. /\ working \in Relays /\ status[working] = "up" /\ att.replace
          /\ \E i \in DOMAIN att.list : att.list[i] = working
      BY <1>0, <1>1 DEF ReservationKept
    <3>2. PICK i \in 1..Len(att.list) : att.list[i] = working
      BY <1>0, <3>1
    <3>3. Head(att.list) # working
      BY <1>2, <1>6, <3>1 DEF Reserves
    <3>4. i # 1 /\ i - 1 \in DOMAIN Tail(att.list) /\ Tail(att.list)[i - 1] = working
      BY <1>0, <3>2, <3>3
    <3>5. \E j \in DOMAIN att'.list : att'.list[j] = working
      BY <2>2, <3>4
    <3> QED
      BY <1>0, <1>2, <2>1, <2>2, <3>1, <3>5 DEF ReservationKept, Busy
  <2>5. ~(good /\ ~queued)
    BY <1>2, <1>3, <1>4, <1>6 DEF Reserves
  <2>6. ChoiceIsAhead'
    BY <1>0, <1>3, <2>1, <2>5 DEF ChoiceIsAhead
  <2> QED
    BY <2>1, <2>2, <2>3, <2>4, <2>6 DEF Sound, IdleIsSettled, SelectedIsUsed, Busy
<1> QED
  BY <1>5, <1>6

LEMMA NoneReservedIsSound == ASSUME ManagerInv, running, NoneReserved PROVE Sound'
<1>1. /\ att.stage = "reserving" /\ att.list = <<>> /\ Finish("disconnected", None)
      /\ UNCHANGED <<running, node, selected, status, conns, events, good>>
  BY DEF NoneReserved, env
<1>2. ManagerTypeOK /\ NodeIsThere /\ ChoiceIsAhead /\ None \in Maybe
  BY DEF ManagerInv, Sound, Maybe
<1>3. good => selected # None /\ status[selected] = "up"
  BY <1>2 DEF ChoiceIsAhead
<1>4. node = "live"
  BY <1>1, <1>2 DEF NodeIsThere
<1> QED
  BY <1>1, <1>2, <1>3, <1>4, FinishIsSound

LEMMA AttemptIsSound == ASSUME ManagerInv, running, AttemptSteps PROVE Sound'
BY ResolvedIsSound, CreatedIsSound, CreateFailsIsSound, DialledIsSound, HungUpIsSound, ReservedIsSound,
   NoneReservedIsSound DEF AttemptSteps

LEMMA TimerIsSound == ASSUME ManagerInv, running, TimerFires PROVE Sound'
<1>0. UNCHANGED <<running, node, queued, active, selected, status, conns, events, good>>
  BY DEF TimerFires, env
<1>1. CASE state # "connected"
  <2>1. ~Busy /\ Begin(FALSE, "timer", selected)
    BY <1>1 DEF TimerFires
  <2>2. selected \in Maybe
    BY DEF ManagerInv, ManagerTypeOK
  <2>3. good => selected # None /\ status[selected] = "up"
    BY DEF ManagerInv, Sound, ChoiceIsAhead
  <2> QED
    BY <1>0, <1>1, <2>1, <2>2, <2>3, BeginIsSound
<1>2. CASE state = "connected"
  <2>1. UNCHANGED <<att, state, working>>
    BY <1>2 DEF TimerFires
  <2> QED
    BY <1>0, <2>1, AttemptGoesOn
<1> QED
  BY <1>1, <1>2

LEMMA SelectIsSound == ASSUME ManagerInv, running, NEW r \in Maybe, Select(r) PROVE Sound'
<1>0. /\ selected' = r /\ good' = (r # None /\ status[r] = "up") /\ Refresh(r)
      /\ UNCHANGED <<running, node, active, status, conns, events>>
  BY DEF Select
<1>1. ManagerTypeOK /\ NodeIsThere /\ IdleIsSettled /\ ReservationKept
  BY DEF ManagerInv, Sound
<1>2. CASE ~Busy
  <2>1. Begin(TRUE, "none", r)
    BY <1>0, <1>1, <1>2, RefreshIs
  <2> QED
    BY <1>0, <1>2, <2>1, BeginIsSound
<1>3. CASE Busy
  <2>1. queued' /\ UNCHANGED <<att, state, working>>
    BY <1>0, <1>1, <1>3, RefreshIs
  <2>2. NodeIsThere'
    BY <1>0, <1>1, <2>1 DEF NodeIsThere
  <2>3. ReservationKept'
    BY <1>0, <1>1, <2>1 DEF ReservationKept, Busy, Holds
  <2>4. ChoiceIsAhead'
    BY <1>0, <2>1 DEF ChoiceIsAhead
  <2> QED
    BY <1>3, <2>1, <2>2, <2>3, <2>4 DEF Sound, IdleIsSettled, SelectedIsUsed, Busy
<1> QED
  BY <1>2, <1>3

LEMMA DiscoverIsSound == ASSUME ManagerInv, running, NEW r \in Relays, Discover(r) PROVE Sound'
<1>0. UNCHANGED <<running, node, queued, active, selected, status, conns, events, good>>
  BY DEF Discover, env
<1>1. CASE state # "connected" /\ ~Busy
  <2>1. Begin(FALSE, "none", selected)
    BY <1>1 DEF Discover
  <2>2. selected \in Maybe
    BY DEF ManagerInv, ManagerTypeOK
  <2>3. good => selected # None /\ status[selected] = "up"
    BY DEF ManagerInv, Sound, ChoiceIsAhead
  <2> QED
    BY <1>0, <1>1, <2>1, <2>2, <2>3, BeginIsSound
<1>2. CASE ~(state # "connected" /\ ~Busy)
  <2>1. UNCHANGED <<att, state, working>>
    BY <1>2 DEF Discover
  <2> QED
    BY <1>0, <2>1, AttemptGoesOn
<1> QED
  BY <1>1, <1>2

LEMMA ChangeIsSound == ASSUME ManagerInv, running, NEW r \in Relays, Change(r) PROVE Sound'
<1>0. /\ UNCHANGED <<running, state, node, att, queued, active, selected>>
      /\ ManagerTypeOK /\ NodeIsThere /\ IdleIsSettled /\ ReservationKept /\ ChoiceIsAhead /\ SelectedIsUsed
  BY DEF Change, manager, ManagerInv, Sound
<1>1. PICK s \in {"up", "full", "down"} :
        /\ status' = [status EXCEPT ![r] = s]
        /\ IF s = "down" THEN conns' = conns \ {r} /\ events' = events \cup ClosedEvents({r})
                        ELSE UNCHANGED <<conns, events>>
        /\ good' = (good /\ (r = selected => s = "up"))
        /\ working' = IF r = working /\ s # "up" THEN None ELSE working
  BY DEF Change
<1>2. /\ good' => good /\ status'[selected] = status[selected]
      /\ working' # None => working' = working /\ status'[working] = "up"
  <2>1. status \in [Relays -> {"up", "full", "down"}]
    BY <1>0 DEF ManagerTypeOK
  <2>2. good' => good /\ selected \in Relays /\ status[selected] = "up"
    BY <1>0, <1>1 DEF ChoiceIsAhead, ManagerTypeOK, Maybe
  <2>3. working' # None =>
          working' = working /\ working \in Relays /\ status[working] = "up" /\ (r = working => s = "up")
    BY <1>0, <1>1 DEF ReservationKept
  <2> QED
    BY <1>1, <2>1, <2>2, <2>3
<1>3. conns' \subseteq conns
  BY <1>1
<1>4. working' # None /\ Holds(working) => Holds(working)'
  <2> SUFFICES ASSUME working' # None, Holds(working) PROVE Holds(working)'
    OBVIOUS
  <2>1. working' = working /\ status'[working] = "up"
    BY <1>2
  <2>2. s = "down" => r # working
    <3>1. r = working /\ s # "up" => working' = None
      BY <1>1
    <3> QED
      BY <3>1
  <2>3. /\ working \in conns /\ events \cap ({working} \X {"close", "gone"}) = {}
    BY DEF Holds
  <2>4. working \in conns' /\ events' \cap ({working} \X {"close", "gone"}) = {}
    BY <1>1, <2>2, <2>3 DEF ClosedEvents
  <2> QED
    BY <2>1, <2>4 DEF Holds
<1>5. NodeIsThere'
  BY <1>0, <1>3 DEF NodeIsThere
<1>6. ReservationKept'
  BY <1>0, <1>2, <1>4 DEF ReservationKept, Busy
<1>7. ChoiceIsAhead'
  BY <1>0, <1>2 DEF ChoiceIsAhead, Busy
<1>8. IdleIsSettled' /\ SelectedIsUsed'
  BY <1>0, <1>2 DEF IdleIsSettled, SelectedIsUsed, Busy
<1> QED
  BY <1>5, <1>6, <1>7, <1>8 DEF Sound

LEMMA PathChangeIsSound ==
    ASSUME ManagerInv, running, NEW e \in Relays \X {"close", "gone"}, PathChange(e)
    PROVE  Sound'
<1>0. /\ e \in events /\ events' = events \ {e}
      /\ UNCHANGED <<running, node, att, queued, selected, status, conns, good, working>>
      /\ \/ UNCHANGED <<active, state>>
         \/ active' = None /\ state' = "disconnected" /\ Lost(e[1])
  BY DEF PathChange
<1>1. ManagerTypeOK /\ NodeIsThere /\ IdleIsSettled /\ ReservationKept /\ ChoiceIsAhead /\ SelectedIsUsed
  BY DEF ManagerInv, Sound
<1>2. Holds(working) => Holds(working)'
  BY <1>0 DEF Holds
<1>3. working # None /\ att.stage \in {"resolving", "dialing"} => active' = active
  <2> SUFFICES ASSUME working # None, att.stage \in {"resolving", "dialing"}, Lost(e[1]) PROVE FALSE
    BY <1>0
  <2>1. active = working /\ Holds(working)
    BY <1>1 DEF ReservationKept
  <2>2. e[1] = working
    BY <2>1 DEF Lost
  <2>3. e \in {working} \X {"close", "gone"}
    BY <2>2
  <2> QED
    BY <1>0, <2>1, <2>3 DEF Holds
<1>4. NodeIsThere'
  BY <1>0, <1>1 DEF NodeIsThere
<1>5. ReservationKept'
  BY <1>0, <1>1, <1>2, <1>3 DEF ReservationKept, Busy
<1>6. ChoiceIsAhead'
  BY <1>0, <1>1 DEF ChoiceIsAhead, Busy
<1>7. IdleIsSettled' /\ SelectedIsUsed'
  BY <1>0, <1>1 DEF IdleIsSettled, SelectedIsUsed, Busy
<1> QED
  BY <1>4, <1>5, <1>6, <1>7 DEF Sound

LEMMA ManagerStepKeepsInv == ASSUME ManagerInv, [ManagerNext]_managerVars PROVE ManagerInv'
<1>1. ManagerTypeOK' /\ Prepared'
  BY ManagerStepKeepsTypes DEF ManagerInv
<1>2. ASSUME running' PROVE Sound'
  <2>1. CASE AttemptSteps
    <3>1. running
      BY <1>2, <2>1 DEF AttemptSteps, Resolved, Created, CreateFails, Dialled, HungUp, Reserved, NoneReserved
    <3> QED
      BY <2>1, <3>1, AttemptIsSound
  <2>2. CASE TimerFires
    BY <1>2, <2>2, TimerIsSound DEF TimerFires
  <2>3. ASSUME NEW r \in Maybe, Select(r) PROVE Sound'
    BY <1>2, <2>3, SelectIsSound DEF Select
  <2>4. ASSUME NEW r \in Relays, Discover(r) PROVE Sound'
    BY <1>2, <2>4, DiscoverIsSound DEF Discover
  <2>5. ASSUME NEW r \in Relays, Change(r) PROVE Sound'
    BY <1>2, <2>5, ChangeIsSound DEF Change, manager
  <2>6. ASSUME NEW e \in Relays \X {"close", "gone"}, PathChange(e) PROVE Sound'
    BY <1>2, <2>6, PathChangeIsSound DEF PathChange
  <2>7. CASE Stop
    BY <1>2, <2>7 DEF Stop
  <2>8. CASE Stopped
    <3>1. running /\ node = "stopping"
      BY <1>2, <2>8 DEF Stopped
    <3> QED
      BY <3>1 DEF ManagerInv, Sound, NodeIsThere
  <2>9. CASE UNCHANGED managerVars
    BY <1>2, <2>9, AttemptGoesOn DEF managerVars, manager, env
  <2> QED
    BY <2>1, <2>2, <2>3, <2>4, <2>5, <2>6, <2>7, <2>8, <2>9 DEF ManagerNext
<1> QED
  BY <1>1, <1>2 DEF ManagerInv

LEMMA ManagerStarts == ManagerInit => ManagerInv
<1> SUFFICES ASSUME ManagerInit PROVE ManagerInv
  OBVIOUS
<1>1. /\ selected \in Maybe /\ status = [r \in Relays |-> "up"] /\ conns = {} /\ events = {}
      /\ running = TRUE /\ state = "connecting" /\ node = "none" /\ att = Began(FALSE, "start", selected)
      /\ queued = FALSE /\ active = None /\ last = None /\ discovered = <<>> /\ timers = 0
      /\ good = (selected # None) /\ working = None /\ scenario \in Scenarios
  BY DEF ManagerInit
<1>2. att \in Attempt /\ att.stage = "resolving" /\ att.asks = selected
  BY <1>1, BeganIs
<1>3. ManagerTypeOK
  <2>1. scenario \in Scenario /\ None \in Maybe
    BY <1>1, ScenariosOK DEF Maybe
  <2>2. discovered \in Seq(Relays) /\ IsInjective(discovered) /\ Len(discovered) <= MaxDiscovered
    <3>1. <<>> \in Seq(Relays) /\ Len(<<>>) = 0 /\ DOMAIN <<>> = {}
      OBVIOUS
    <3>2. 0 <= MaxDiscovered
      BY Bounds
    <3>3. IsInjective(<<>>)
      BY <3>1 DEF IsInjective
    <3> QED
      BY <1>1, <3>1, <3>2, <3>3
  <2>3. timers \in 0..MaxTimers
    BY <1>1, Bounds
  <2>4. /\ queued \in BOOLEAN /\ good \in BOOLEAN /\ running \in BOOLEAN
    BY <1>1
  <2> QED
    BY <1>1, <1>2, <2>1, <2>2, <2>3, <2>4 DEF ManagerTypeOK
<1>4. Prepared
  BY <1>2 DEF Prepared
<1>5. Sound
  <2>1. selected # None => status[selected] = "up"
    BY <1>1 DEF Maybe
  <2> QED
    BY <1>1, <1>2, <2>1 DEF Sound, NodeIsThere, IdleIsSettled, ReservationKept, ChoiceIsAhead, SelectedIsUsed, Busy
<1> QED
  BY <1>3, <1>4, <1>5 DEF ManagerInv

LEMMA ManagerInvHolds == ManagerSpec => []ManagerInv
BY ManagerStarts, ManagerStepKeepsInv, PTL DEF ManagerSpec

\* A user's choice wins, for any relays, configuration and bounds: when nothing is at work
\* and the client is connected, it is on the relay of the node selected last, if that relay
\* and its support node have been in order since (refreshSelectedNode, connectOnce).
THEOREM ChoicesWin == ManagerSpec => []SelectedIsUsed
<1>1. ManagerInv => SelectedIsUsed
  BY DEF ManagerInv, Sound, SelectedIsUsed
<1> QED
  BY <1>1, ManagerInvHolds, PTL

\* Trying another relay costs nothing: an attempt that began with a working reservation,
\* and whose relay stays up, never ends without one (connectOnce's fallback).
THEOREM ReservationsSurvive == ManagerSpec => WorkingReservationSurvives
<1> DEFINE Ends == att.stage # "idle" /\ att' # att /\ ~Busy' /\ working # None /\ running
<1>1. ASSUME ManagerInv, [ManagerNext]_managerVars, Ends PROVE state' = "connected"
  <2>1. ReservationKept /\ NodeIsThere /\ ManagerTypeOK /\ Busy
    BY <1>1 DEF ManagerInv, Sound, Busy
  <2>2. ASSUME NEW s \in {"connected", "disconnected"}, NEW r \in Maybe, Finish(s, r) PROVE state' = s
    <3>1. ~Queued
      BY <1>1, <2>1, <2>2, BeganIs DEF Finish, Busy, ManagerTypeOK
    <3> QED
      BY <2>2, <3>1 DEF Finish
  <2>3. att.list \in Seq(Relays) /\ active \in Maybe /\ None \in Maybe
    BY <2>1 DEF ManagerTypeOK, Attempt, Maybe
  <2>4. CASE Resolved
    <3>1. att'.stage # "idle"
      BY <2>1, <2>4, ResolvedIs, ProceedIs
    <3> QED
      BY <1>1, <3>1 DEF Busy
  <2>5. CASE Created
    BY <1>1, <2>1, <2>5 DEF Created, ReservationKept
  <2>6. CASE CreateFails
    BY <1>1, <2>1, <2>6 DEF CreateFails, ReservationKept
  <2>7. CASE Dialled
    <3>1. CASE Answers(Head(att.list))
      <4>1. att'.stage = "hanging"
        BY <1>1, <2>1, <2>7, <3>1, DialledIs DEF Dialled, ReservationKept
      <4> QED
        BY <1>1, <4>1 DEF Busy
    <3>2. CASE ~Answers(Head(att.list))
      BY <2>2, <2>3, <2>7, <3>2 DEF Dialled
    <3> QED
      BY <3>1, <3>2
  <2>8. CASE HungUp
    <3>1. att'.stage = "reserving"
      BY <2>1, <2>8 DEF HungUp, ManagerTypeOK, Attempt
    <3> QED
      BY <1>1, <3>1 DEF Busy
  <2>9. CASE Reserved
    <3>1. att.list # <<>> /\ Head(att.list) \in Maybe /\ att.stage = "reserving"
      BY <2>3, <2>9 DEF Reserved, Maybe
    <3>2. CASE Reserves(Head(att.list))
      BY <2>2, <2>9, <3>1, <3>2 DEF Reserved
    <3>3. CASE ~Reserves(Head(att.list))
      <4>1. att' = [att EXCEPT !.list = Tail(att.list)]
        BY <2>9, <3>3 DEF Reserved
      <4>2. att'.stage = "reserving"
        BY <2>1, <3>1, <4>1 DEF ManagerTypeOK, Attempt
      <4> QED
        BY <1>1, <4>2 DEF Busy
    <3> QED
      BY <3>2, <3>3
  <2>10. CASE NoneReserved
    <3>1. att.stage = "reserving" /\ att.list = <<>>
      BY <2>10 DEF NoneReserved
    <3>2. \E i \in DOMAIN att.list : att.list[i] = working
      BY <1>1, <2>1, <3>1 DEF ReservationKept
    <3> QED
      BY <3>1, <3>2
  <2>11. CASE ~AttemptSteps
    <3>1. \/ UNCHANGED att
          \/ \E replace \in BOOLEAN, by \in {"none", "start", "timer"}, sel \in Maybe : Begin(replace, by, sel)
      BY <2>1, <2>11, <1>1
      DEF ManagerNext, TimerFires, Select, Refresh, Discover, PathChange, Stop, Stopped, Change, managerVars, manager,
          ManagerTypeOK
    <3>2. att' # att
      BY <1>1
    <3>3. att'.stage # "idle"
      BY <2>1, <3>1, <3>2, BeginIs
    <3> QED
      BY <1>1, <3>3 DEF Busy
  <2> QED
    BY <2>4, <2>5, <2>6, <2>7, <2>8, <2>9, <2>10, <2>11 DEF AttemptSteps
<1>2. ManagerInv /\ [ManagerNext]_managerVars =>
        [att.stage # "idle" /\ att' # att /\ ~Busy' /\ working # None /\ running => state' = "connected"]_managerVars
  BY <1>1
<1> QED
  BY <1>2, ManagerInvHolds, PTL DEF ManagerSpec, WorkingReservationSurvives
=============================================================================
