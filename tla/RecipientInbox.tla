--------------------------- MODULE RecipientInbox ---------------------------
(***************************************************************************)
(* The durable way from a sender to a recipient that may be offline:       *)
(* delivery/recipientInbox.ts at both ends and delivery/peerMailbox.ts at  *)
(* the holders in between.                                                 *)
(*                                                                         *)
(* A packet is placed at several holders under the token of its day.  The  *)
(* recipient asks them for the tokens of a window of days, applies what it *)
(* has not seen, records the receipt, and lets the holders delete it.      *)
(* Time is counted in days; every entry has size one.                      *)
(***************************************************************************)
EXTENDS Naturals, FiniteSets, Sequences

CONSTANTS
    Ids,          \* delivery ids
    Holders,      \* storage providers
    Passes,       \* bound: drains at work at once, 1..Passes
    Ttl,          \* PACKET_TTL_MS, in days
    Retention,    \* RETENTION_MS, in days
    Recent,       \* days before today of a background drain
    TargetCopies, \* TARGET_COPIES
    TokenCap,     \* MAX_TOKEN_ENTRIES
    TotalCap,     \* MAX_TOTAL_BYTES, in entries
    SeenCap,      \* receipts kept
    MaxDay,       \* bound on time
    MaxAsks,      \* bound: acknowledgements under way at once at a holder
    Worlds        \* what may happen: see World

\* The deliveries made, the holders there are and those the recipient can discover,
\* which delivery each operation needs applied before it is accepted ("none" if any
\* time), and bounds on days, acknowledgements under way at once at a holder, repeated
\* deposits, closed tabs and engine restarts.
World == [ids : SUBSET Ids, holders : SUBSET Holders, known : SUBSET Holders,
          needs : [Ids -> Ids \cup {"none"}],
          days : 0..MaxDay, asks : 0..MaxAsks, retries : Nat, crashes : Nat, resets : Nat]

ASSUME WorldsOK == Worlds \subseteq World
ASSUME Days == Ttl \in Nat /\ Retention \in Nat /\ Recent \in Nat /\ MaxDay \in Nat
ASSUME RetentionOutlivesPackets == Retention > Ttl
ASSUME Caps == TargetCopies \in Nat \ {0} /\ TokenCap \in Nat /\ TotalCap \in Nat /\ SeenCap \in Nat \ {0}
ASSUME NoneIsNoId == "none" \notin Ids
ASSUME PassesAreBounded == Passes \in Nat

VARIABLES
    world,     \* the world of this behaviour; it never changes
    today,     \* the day it is
    mail,      \* mail[h]: what holder h stores, and the total it accounts for
    deposit,   \* deposit[i]: the sender's last deposit of i
    asks,      \* acknowledgements on their way to holders or being served there
    pass,      \* pass[n]: a drain at work
    running,   \* drainInFlight: the drain later ones are coalesced with, 0 if none
    again,     \* fullDrainRequested
    seen,      \* receipts, oldest first
    applied,   \* applied[i]: how often the operation took effect
    owed,      \* a full window was asked for and its scan has not begun
    missed,    \* the same, when it was asked for while a drain was being left
    excused,   \* deliveries that may take effect again
    spurned,   \* deliveries refused and, as a second copy came along, acknowledged
    retries, crashes, resets

recipient == <<pass, running, again, seen, applied, owed, missed, excused, spurned>>
counters == <<retries, crashes, resets>>
inboxVars == <<world, today, mail, deposit, asks, recipient, counters>>

Day == 0..MaxDay
\* What a holder stores: it knows the id of a delivery and the token it is under.  A
\* delivery made again is sealed again, so its packet is another one.
MailEntry == [id : Ids, token : Day, stored : Day, copy : Nat]
Packet == [id : Ids, born : Day, copy : Nat]

Unused == [open |-> FALSE, born |-> 0, copy |-> 0, todo |-> {}, acks |-> {}, told |-> "no"]
NoPass == [phase |-> "idle", tokens |-> {}, todo |-> {}, got |-> {}, here |-> {}, acks |-> {}, cur |-> "none"]

SeqSet(s) == {s[k] : k \in 1..Len(s)}
Lives(born) == today <= born + Ttl
\* recipientInboxTokens: today and the days before it.
Tokens(back) == {d \in Day : d <= today /\ today <= d + back}

InboxInit ==
    /\ world \in Worlds
    /\ today = 0
    /\ mail = [h \in Holders |-> [entries |-> {}, usage |-> 0]]
    /\ deposit = [i \in Ids |-> Unused]
    /\ asks = {}
    /\ pass = [n \in 1..Passes |-> NoPass]
    /\ running = 0 /\ again = FALSE /\ seen = <<>>
    /\ applied = [i \in Ids |-> 0]
    /\ owed = FALSE /\ missed = FALSE /\ excused = {} /\ spurned = {}
    /\ retries = 0 /\ crashes = 0 /\ resets = 0

----------------------------------------------------------------------------
(* A holder (peerMailbox.ts). *)

Minus(a, b) == IF a > b THEN a - b ELSE 0
Remove(m, gone) == [entries |-> m.entries \ gone, usage |-> Minus(m.usage, Cardinality(gone))]
\* pruneDatabase: in one transaction with its accounting.
PrunedKeepingTotal(m) == [m EXCEPT !.entries = {e \in @ : today < e.stored + Retention}]
Pruned(m) == Remove(m, {e \in m.entries : today >= e.stored + Retention})

\* isCurrentRecipientInboxToken: one day of skew for the sender.
IsCurrent(token) == token <= today + 1 /\ today <= token + 1
Duplicate(m, i, token) == \E e \in m.entries : e.id = i /\ e.token = token
WithinQuota(m, token) ==
    /\ m.usage + 1 <= TotalCap
    /\ Cardinality({e \in m.entries : e.token = token}) < TokenCap
\* peer.inbox.store, and whether it answers queued.
Queues(m, i, token) == IsCurrent(token) /\ (Duplicate(m, i, token) \/ WithinQuota(m, token))
Stored(m, i, token, copy) ==
    IF ~Queues(m, i, token) \/ Duplicate(m, i, token) THEN m
    ELSE [entries |-> m.entries \cup {[id |-> i, token |-> token, stored |-> today, copy |-> copy]},
          usage |-> m.usage + 1]

\* peer.inbox.drain is served only for the caller's own tokens of its window.
Allowed(tokens) == tokens \subseteq Tokens(Ttl)
Serves(m, tokens) == {e \in m.entries : e.token \in tokens}

----------------------------------------------------------------------------
(* The sender: depositRecipientInboxOperation. *)

\* A new delivery, or one its outbox makes again under the same id: a packet of today.
Begin(i) ==
    /\ i \in world.ids
    /\ \/ deposit[i] = Unused /\ UNCHANGED retries
       \/ /\ deposit[i] # Unused /\ ~deposit[i].open /\ deposit[i].told # "sent"
          /\ retries < world.retries /\ retries' = retries + 1
    /\ deposit' = [deposit EXCEPT ![i] = [Unused EXCEPT !.open = TRUE, !.born = today,
                                               !.copy = deposit[i].copy + 1, !.todo = world.holders]]
    /\ UNCHANGED <<world, today, mail, asks, recipient, crashes, resets>>

ToldByAny(d, h) == IF d.acks = {} THEN "sent" ELSE d.told
\* The caller learns of the first copy the recipient can find; the rest is repair.
Told(d, h) == IF h \in world.known THEN "sent" ELSE d.told

\* A worker's attempt at h: it is stored there or refused, and the answer may be lost.
\* The workers stop at enough copies or when every holder was tried.
Attempt(i, h) ==
    LET d == deposit[i]
        m == Pruned(mail[h])
    IN  /\ d.open /\ h \in d.todo
        /\ \E reached, answered \in BOOLEAN :
             LET acked == reached /\ answered /\ Queues(m, i, d.born)
                 next == [d EXCEPT !.todo = @ \ {h},
                                   !.acks = IF acked THEN @ \cup {h} ELSE @,
                                   !.told = IF acked THEN Told(d, h) ELSE @]
                 over == next.todo = {} \/ Cardinality(next.acks) >= TargetCopies
             IN  /\ answered => reached
                 /\ mail' = IF reached THEN [mail EXCEPT ![h] = Stored(m, i, d.born, d.copy)] ELSE mail
                 /\ deposit' = [deposit EXCEPT ![i] =
                        IF ~over THEN next
                        ELSE [next EXCEPT !.open = FALSE, !.todo = {},
                                          !.told = IF @ = "sent" THEN @ ELSE "failed"]]
        /\ UNCHANGED <<world, today, asks, recipient, counters>>

----------------------------------------------------------------------------
(* The recipient: drainRecipientInbox. *)

Scan(full) ==
    [NoPass EXCEPT !.phase = "fetch", !.todo = world.known,
                 !.tokens = Tokens(IF full THEN Ttl ELSE Recent)]

CoalesceNot(full) == UNCHANGED again
Coalesce(full) == again' = (again \/ full)
\* A drain is out of its loop before it is forgotten, which is a later microtask.
Leaving == \E n \in 1..Passes : pass[n].phase = "left"
\* A drain asked for while one runs is that one; a full window makes it scan again, if
\* it has yet to look at the flag.
Drain(full) ==
    /\ IF running # 0
       THEN /\ Coalesce(full)
            /\ IF Leaving THEN missed' = (missed \/ full) /\ UNCHANGED owed
                          ELSE owed' = (owed \/ full) /\ UNCHANGED missed
            /\ UNCHANGED <<pass, running>>
       ELSE \E n \in 1..Passes :
            /\ pass[n] = NoPass
            /\ running' = n
            /\ pass' = [pass EXCEPT ![n] = Scan(full)]
            /\ again' = FALSE
            /\ owed' = (owed /\ ~full) /\ missed' = (missed /\ ~full)
    /\ UNCHANGED <<world, today, mail, deposit, asks, seen, applied, excused, spurned, counters>>

\* One holder's answer to the pass, or none.
Fetch(n, h) ==
    LET q == pass[n]
        m == Pruned(mail[h])
    IN  /\ q.phase = "fetch" /\ h \in q.todo
        /\ \E reached \in BOOLEAN :
             LET got == IF reached /\ Allowed(q.tokens) THEN Serves(m, q.tokens) ELSE {} IN
             /\ mail' = IF reached /\ Allowed(q.tokens) THEN [mail EXCEPT ![h] = m] ELSE mail
             /\ pass' = [pass EXCEPT ![n] =
                   [q EXCEPT !.todo = @ \ {h},
                             !.phase = IF q.todo = {h} THEN "apply" ELSE @,
                             !.got = @ \cup {[id |-> e.id, born |-> e.token, copy |-> e.copy] : e \in got}]]
        /\ UNCHANGED <<world, today, deposit, asks, running, again, seen, applied, owed, missed, excused, spurned, counters>>

HasSeen(i) == i \in SeqSet(seen)
SkipsInPass(q, i) == i \in q.here
Skips(q, i) == i \in q.here \/ HasSeen(i)
Refused(i) == world.needs[i] # "none" /\ applied[world.needs[i]] = 0

\* The next packet: an expired one is ignored, one seen before is only acknowledged,
\* another is applied; what its handler refuses is left where it is.
NextPacket(n, k) ==
    LET q == pass[n]
        rest == [q EXCEPT !.got = @ \ {k}]
        tried == [rest EXCEPT !.here = @ \cup {k.id}]
    IN  /\ q.phase = "apply" /\ q.cur = "none" /\ k \in q.got
        /\ \/ /\ ~Lives(k.born)
              /\ pass' = [pass EXCEPT ![n] = rest]
              /\ UNCHANGED <<applied, spurned>>
           \/ /\ Lives(k.born) /\ Skips(q, k.id)
              /\ pass' = [pass EXCEPT ![n] = [rest EXCEPT !.acks = @ \cup {k.id}]]
              /\ spurned' = spurned \cup (IF HasSeen(k.id) THEN {} ELSE {k.id})
              /\ UNCHANGED applied
           \/ /\ Lives(k.born) /\ ~Skips(q, k.id) /\ Refused(k.id)
              /\ pass' = [pass EXCEPT ![n] = tried]
              /\ UNCHANGED <<applied, spurned>>
           \/ /\ Lives(k.born) /\ ~Skips(q, k.id) /\ ~Refused(k.id)
              /\ pass' = [pass EXCEPT ![n] = [tried EXCEPT !.cur = k.id]]
              /\ UNCHANGED spurned
              /\ applied' = [applied EXCEPT ![k.id] = IF @ < 2 THEN @ + 1 ELSE @]
        /\ UNCHANGED <<world, today, mail, deposit, asks, running, again, seen, owed, missed, excused, counters>>

Receipts(s) == IF Len(s) > SeenCap THEN SubSeq(s, Len(s) - SeenCap + 1, Len(s)) ELSE s
\* markInboxDeliverySeen, after the handler returned.
Mark(n) ==
    LET i == pass[n].cur
    IN  /\ i # "none"
        /\ seen' = IF HasSeen(i) THEN seen ELSE Receipts(Append(seen, i))
        /\ excused' = excused \cup (SeqSet(seen) \ SeqSet(seen'))
        /\ pass' = [pass EXCEPT ![n].cur = "none", ![n].acks = @ \cup {i}]
        /\ UNCHANGED <<world, today, mail, deposit, asks, running, again, applied, owed, missed, spurned, counters>>

\* Tells requests of one content apart.
FreshAsk(h) == CHOOSE k \in 1..MaxAsks + 1 : /\ \A a \in asks : a.to = h => a.no # k
                                             /\ \A j \in 1..k - 1 : \E a \in asks : a.to = h /\ a.no = j
\* The end of a pass: receipts go out, detached, and a full window requested meanwhile
\* is scanned, or the loop is left.
Finish(n) ==
    LET q == pass[n]
    IN  /\ q.phase = "apply" /\ q.got = {} /\ q.cur = "none"
        /\ \E reached \in SUBSET (IF q.acks = {} THEN {} ELSE world.known) :
             asks' = asks \cup {[to |-> h, ids |-> q.acks, tokens |-> q.tokens, no |-> FreshAsk(h),
                                stage |-> "sent", read |-> {}] : h \in reached}
        /\ \A a \in asks' : a.no <= world.asks
        /\ IF again
           THEN pass' = [pass EXCEPT ![n] = Scan(TRUE)] /\ owed' = FALSE /\ missed' = FALSE
           ELSE pass' = [pass EXCEPT ![n] = [NoPass EXCEPT !.phase = "left"]] /\ UNCHANGED <<owed, missed>>
        /\ again' = FALSE
        /\ UNCHANGED <<world, today, mail, deposit, running, seen, applied, excused, spurned, counters>>

\* The promise has settled: whatever drain is recorded as running is forgotten.
Settle(n) ==
    /\ pass[n].phase = "left"
    /\ pass' = [pass EXCEPT ![n] = NoPass]
    /\ running' = 0
    /\ UNCHANGED <<world, today, mail, deposit, asks, again, seen, applied, owed, missed, excused, spurned, counters>>

----------------------------------------------------------------------------
(* Acknowledgements: a holder reads in one transaction and deletes in another; one
   that is not served again was lost. *)

Read(a) ==
    LET m == Pruned(mail[a.to])
    IN  /\ a \in asks /\ a.stage = "sent"
        /\ Allowed(a.tokens)
        /\ mail' = [mail EXCEPT ![a.to] = m]
        /\ asks' = (asks \ {a}) \cup
              {[a EXCEPT !.stage = "read", !.read = {e \in Serves(m, a.tokens) : e.id \in a.ids}]}
        /\ UNCHANGED <<world, today, deposit, recipient, counters>>
Delete(a) ==
    /\ a \in asks /\ a.stage = "read"
    /\ mail' = [mail EXCEPT ![a.to] = Remove(@, a.read)]
    /\ asks' = asks \ {a}
    /\ UNCHANGED <<world, today, deposit, recipient, counters>>
----------------------------------------------------------------------------
(* Time, a closed tab, a restarted engine. *)

NextDay ==
    /\ today < world.days
    /\ today' = today + 1
    /\ UNCHANGED <<world, mail, deposit, asks, recipient, counters>>

\* The recipient's tab closes: the store survives, all work under way is lost.
Crash ==
    /\ crashes < world.crashes
    /\ crashes' = crashes + 1
    /\ excused' = excused \cup ({pass[n].cur : n \in 1..Passes} \ {"none"})
    /\ pass' = [n \in 1..Passes |-> NoPass]
    /\ running' = 0 /\ again' = FALSE /\ owed' = FALSE /\ missed' = FALSE
    /\ asks' = {a \in asks : a.stage = "read"}
    /\ UNCHANGED <<world, today, mail, deposit, seen, applied, spurned, retries, resets>>

\* The sender's tab closes in the middle of a deposit.
SenderCrash(i) ==
    /\ crashes < world.crashes
    /\ crashes' = crashes + 1
    /\ deposit[i].open
    /\ deposit' = [deposit EXCEPT ![i].open = FALSE, ![i].todo = {}]
    /\ UNCHANGED <<world, today, mail, asks, recipient, retries, resets>>

\* resetRecipientInboxIdentity, and the identity registered again: the drain at work
\* goes on, but is no longer known.
Reset ==
    /\ resets < world.resets
    /\ resets' = resets + 1
    /\ running' = 0 /\ again' = FALSE /\ owed' = FALSE /\ missed' = FALSE
    /\ excused' = excused \cup (IF running # 0 THEN Ids ELSE {})
    /\ UNCHANGED <<world, today, mail, deposit, asks, pass, seen, applied, spurned, retries, crashes>>

InboxNext ==
    \/ \E i \in Ids : Begin(i) \/ SenderCrash(i) \/ \E h \in Holders : Attempt(i, h)
    \/ \E full \in BOOLEAN : Drain(full)
    \/ \E n \in 1..Passes :
         \/ \E h \in Holders : Fetch(n, h)
         \/ \E k \in pass[n].got : NextPacket(n, k)
         \/ Mark(n) \/ Finish(n) \/ Settle(n)
    \/ \E a \in asks : Read(a) \/ Delete(a)
    \/ NextDay \/ Crash \/ Reset

InboxSpec == InboxInit /\ [][InboxNext]_inboxVars

----------------------------------------------------------------------------
(* Properties. *)

InboxTypeOK ==
    /\ today \in Day
    /\ \A h \in Holders : mail[h].entries \subseteq MailEntry /\ mail[h].usage \in Nat
    /\ \A i \in Ids : /\ deposit[i].born \in Day /\ deposit[i].todo \subseteq Holders
                      /\ deposit[i].told \in {"no", "sent", "failed"}
                      /\ deposit[i].todo # {} => deposit[i].open
    /\ \A a \in asks : a.ids \subseteq Ids /\ a.tokens \subseteq Day
    /\ \A n \in 1..Passes : pass[n].got \subseteq Packet /\ pass[n].here \cup pass[n].acks \subseteq Ids
    /\ running \in 0..Passes /\ again \in BOOLEAN
    /\ seen \in Seq(Ids) /\ Len(seen) <= SeenCap
    /\ applied \in [Ids -> 0..2]

\* What the recipient's next full window finds of delivery i.
InCustody(i) == \E h \in world.known : \E e \in Serves(Pruned(mail[h]), Tokens(Ttl)) : e.id = i
AwaitsEffect(i) == deposit[i].told = "sent" /\ Lives(deposit[i].born) /\ applied[i] = 0

\* "Replicate a durable operation": what was reported as sent, still lives and has not
\* taken effect is stored with a holder the recipient can find, under a token its next
\* full window asks for; no acknowledgement, expiry, quota or crash takes it away --
\* unless the recipient refused one copy of it and then met another in the same drain.
SentIsInCustody == \A i \in Ids : AwaitsEffect(i) => InCustody(i) \/ i \in spurned

\* "Do not record or acknowledge a receipt: every provider keeps the packet so a
\* transient local failure can retry safely" (drainRecipientInbox): the same without
\* that exception.
RefusedStaysInCustody == \A i \in Ids : AwaitsEffect(i) => InCustody(i)

\* "stops three storage replicas ... from applying the same ... more than once": an
\* operation takes effect once, unless a tab closed between the effect and its receipt,
\* the engine was restarted under a running drain, or the receipt was pushed out.
AppliedOnce == \A i \in Ids : applied[i] > 1 => i \in excused

\* A full window asked for while another drain runs is scanned before that one ends,
\* though requests are coalesced and a background drain looks at two days only -- unless
\* it was asked for between the drain's last look at the flag and its end, or the end of
\* one that a restarted engine had left behind.
FullWindowIsScanned == owed => running # 0

\* "fullWindow scans the seven-day reconnect window" (drainRecipientInbox), whenever it
\* is asked for: the same without that exception.
EveryFullWindowIsScanned == owed \/ missed => running # 0

\* However stores, expiry and acknowledgements of several callers overlap, a holder
\* never accounts for more than it stores: quota is not lost for good.
NoPhantomUsage == \A h \in Holders : mail[h].usage <= Cardinality(mail[h].entries)

\* "Keep existence checks, quota reads, insertion, and accounting in this one
\* transaction so parallel streams cannot all validate against the same stale totals":
\* a holder stores no more than its quota.
QuotaHolds == \A h \in Holders : Cardinality(mail[h].entries) <= TotalCap
=============================================================================
