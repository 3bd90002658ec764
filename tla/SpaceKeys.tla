----------------------------- MODULE SpaceKeys -----------------------------
(***************************************************************************)
(* The live channel keys (ChannelCrypto, native/crowd/channel.ts) of the   *)
(* clients of a space, driven by the records SpaceSync moves around.  The  *)
(* owner's own keys are those of its record: it alone issues epochs, each  *)
(* one above the last.                                                     *)
(*                                                                         *)
(* The handlers install the root they have just stored (applyChannelRoot); *)
(* besides, whatever a client seals or opens first seeds the live keys     *)
(* from its stored record.  The live keys are in memory: a restart forgets *)
(* them, leaving a space or being removed from it does not.                *)
(***************************************************************************)
EXTENDS SpaceSync, ChannelCrypto

VARIABLE live       \* live[p]: p's ChannelCrypto for the space

keyVars == <<vars, live>>

Seeded(group, r) == SetRoot(group, r.epoch, r.root, r.mode)
TakesReply(x) == reply[x] # NoReply /\ reply'[x] = NoReply

\* Whether the step, which stores a new record at x, also installs its root: always
\* where the epoch does not go back, but the answer to a re-pull compares with the
\* epoch from before the await, and the answer to a first join installs nothing.
Installs(x) ==
    /\ rec[x] # NoRec /\ rec'[x] \notin {NoRec, rec[x]}
    /\ IF TakesReply(x)
       THEN reply[x].kind = "repull" /\ reply[x].ok /\ rec'[x].epoch > reply[x].prior
       ELSE rec'[x].epoch >= rec[x].epoch

\* A step of SpaceSync, with what it does to the live keys.
SyncStep ==
    /\ Next
    /\ live' = [x \in Peers |-> IF Installs(x) THEN Seeded(live[x], rec'[x]) ELSE live[x]]

\* seedChannelRoot, before anything x seals or opens for the channel.
UseChannel(x) ==
    /\ Holds(x)
    /\ live' = [live EXCEPT ![x] = Seeded(@, rec[x])]
    /\ UNCHANGED vars

\* Closed and reopened.
Restart(x) ==
    /\ live' = [live EXCEPT ![x] = NoGroup]
    /\ reply' = [reply EXCEPT ![x] = NoReply]
    /\ UNCHANGED <<rec, secret, roots, updates, admits, caps, removes, leaves,
                   known, barred, kick>>

KeysInit ==
    /\ Init
    /\ live = [x \in Peers |-> IF Holds(x) THEN Seeded(NoGroup, rec[x]) ELSE NoGroup]
KeysNext == SyncStep \/ \E x \in Peers : UseChannel(x) \/ Restart(x)
KeysSpec == KeysInit /\ [][KeysNext]_keyVars

----------------------------------------------------------------------------
(* Properties. *)

\* "A root is immutable at an epoch" (channel.ts): also when the owner's decision and
\* a link it signed claim the same epoch with different roots, a client that runs on
\* keeps one root per epoch, and its epoch never moves back.
RootIsImmutable ==
    [][\A x \in Peers : (live[x].mode # "none" /\ live'[x].mode # "none") =>
          /\ live'[x].epoch >= live[x].epoch
          /\ live'[x].epoch = live[x].epoch => live'[x] = live[x]]_keyVars

\* "A re-pull ... reconciles the root/epoch" (engine.ts, reconcileJoinedServers): once
\* a client stores the owner's very record, and has not run ahead of it, it can open
\* what the owner seals.  Where a link and the owner claimed the same epoch, the code
\* keeps the root it installed first, until it restarts.
AgreementIsReadable ==
    \A p \in Peers :
        (Holds(p) /\ Struct(rec[p]) = Struct(Own) /\ live[p].epoch <= Own.epoch) =>
            OpensAs(Seeded(live[p], rec[p]), Own.mode, Seal(Seeded(NoGroup, Own)))
=============================================================================
