--------------------------- MODULE ChannelCrypto ---------------------------
(***************************************************************************)
(* The live channel keys of one client for one space: ChannelCrypto of     *)
(* native/crowd/channel.ts over the two epoch rings it drives, Crowd       *)
(* (native/crowd/crowd.ts) and Tree (native/tree/tree.ts).                 *)
(*                                                                         *)
(* A group keeps, per algorithm, the ring of epoch roots it was given,     *)
(* newest first and cut to a legacy window.  A ciphertext names the        *)
(* algorithm and the epoch it was sealed under and carries, symbolically,  *)
(* the root: it opens exactly where the same root is found at that epoch.  *)
(***************************************************************************)
EXTENDS Integers, Sequences

CONSTANTS
    CrowdWindow,     \* LEGACY_WINDOW_SIZE of crowd.ts: retired epochs kept
    TreeWindow       \* LEGACY_WINDOW_SIZE of tree.ts

ASSUME WindowsAreNat == CrowdWindow \in Nat /\ TreeWindow \in Nat

Modes == {"tree", "crowd"}

\* currentMode is "none" until setRoot first succeeds (groups has no entry).
NoGroup == [mode |-> "none", epoch |-> -1, ring |-> [m \in Modes |-> <<>>]]

Window(mode) == IF mode = "tree" THEN TreeWindow ELSE CrowdWindow
Newest(ring) == ring[1]
Cut(ring, n) == SubSeq(ring, 1, IF Len(ring) < n THEN Len(ring) ELSE n)

\* installEpochRoot of either algorithm: never rolls back.
InstallEpochRoot(ring, epoch, root, window) ==
    IF ring # <<>> /\ epoch <= Newest(ring).epoch
    THEN ring
    ELSE Cut(<<[epoch |-> epoch, root |-> root]>> \o ring, window + 1)

AcceptsAnyEpoch(group, epoch, root, mode) == TRUE
\* setRoot's guards: a newer epoch, or the very root already in force.
Accepts(group, epoch, root, mode) ==
    \/ group.mode = "none"
    \/ epoch > group.epoch
    \/ /\ epoch = group.epoch /\ mode = group.mode
       /\ group.ring[mode] # <<>> /\ Newest(group.ring[mode]).root = root

\* The inactive algorithm survives only as the immediately preceding epoch.
Retired(ring, epoch) ==
    IF ring # <<>> /\ Newest(ring).epoch < epoch - 1 THEN <<>> ELSE ring

SetRoot(group, epoch, root, mode) ==
    IF ~Accepts(group, epoch, root, mode) THEN group
    ELSE [mode |-> mode, epoch |-> epoch,
          ring |-> [m \in Modes |->
              IF m = mode
              THEN InstallEpochRoot(group.ring[m], epoch, root, Window(m))
              ELSE Retired(group.ring[m], epoch)]]

\* ChannelCrypto.encrypt: always under the current mode and epoch.
Seal(group) ==
    [mode |-> group.mode, epoch |-> group.epoch,
     root |-> Newest(group.ring[group.mode]).root]

\* ChannelCrypto.decrypt under the mode the envelope names.
OpensAs(group, named, wire) ==
    /\ group.mode # "none" /\ named = wire.mode
    /\ named # group.mode =>
         /\ wire.epoch = group.epoch - 1
         /\ group.ring[named] # <<>> /\ Newest(group.ring[named]).epoch = wire.epoch
    /\ \E i \in 1..Len(group.ring[named]) :
         /\ group.ring[named][i].epoch = wire.epoch
         /\ group.ring[named][i].root = wire.root
=============================================================================
