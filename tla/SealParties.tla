---------------------------- MODULE SealParties ----------------------------
(***************************************************************************)
(* The two peers of a direct message, shared by the specifications of one  *)
(* ratchet session and of the sessions between them.                       *)
(***************************************************************************)

CONSTANTS Initiator, Responder

ASSUME PartiesDiffer == Initiator # Responder

Party == {Initiator, Responder}
=============================================================================
