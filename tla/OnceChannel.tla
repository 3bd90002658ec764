---------------------------- MODULE OnceChannel ----------------------------
(***************************************************************************)
(* What a direct-message session promises the application above it: every  *)
(* ciphertext put on the network is a new one, and a party is handed the   *)
(* plaintext of a ciphertext its peer sent at most once, in any order.     *)
(* Delivery itself is not promised: a message may be lost.                 *)
(***************************************************************************)
EXTENDS Naturals

CONSTANT Party

VARIABLES sent, accepted, opens

Init ==
    /\ sent = {}
    /\ accepted = [p \in Party |-> {}]
    /\ opens = [p \in Party |-> 0]

Send(p) ==
    /\ \E m \in sent' \ sent : m.from = p /\ sent' = sent \cup {m}
    /\ UNCHANGED <<accepted, opens>>

Open(p, m) ==
    /\ m.from # p
    /\ m \notin accepted[p]
    /\ accepted' = [accepted EXCEPT ![p] = @ \cup {m}]
    /\ opens' = [opens EXCEPT ![p] = @ + 1]
    /\ UNCHANGED sent

Next ==
    \/ \E p \in Party : Send(p)
    \/ \E p \in Party : \E m \in sent : Open(p, m)

Spec == Init /\ [][Next]_<<sent, accepted, opens>>
============================================================================
