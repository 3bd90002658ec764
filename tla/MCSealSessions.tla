--------------------------- MODULE MCSealSessions ---------------------------
(***************************************************************************)
(* SealSessions where the encryptions of a peer that wait for a bundle are *)
(* alike.                                                                  *)
(***************************************************************************)
EXTENDS SealSessions, TLC

FetchSymmetry == Permutations(Fetches)
=============================================================================
