--------------------------- MODULE MCAttachments ---------------------------
(***************************************************************************)
(* Small worlds for Attachments.                                           *)
(***************************************************************************)
EXTENDS Attachments

CONSTANTS pH, pL, mine, theirs

World(h, l, s, uploads, opens, faults, stores, repairs, audits, crashes) ==
    [held |-> [p \in Peers |-> h], liars |-> l, support |-> s, uploads |-> uploads, opens |-> opens,
     faults |-> faults, stores |-> stores, repairs |-> repairs, audits |-> audits, crashes |-> crashes]
All == {theirs} \X Indices

\* Uploads, openings and stores that contend for a cache of three fragments, with a crash;
\* openings from a liar with faults and audits; an upload and its repairs with faults; and an
\* upload and an opening that share the health of the same peers; in half of them one peer is
\* a support node, honest or not.
SmallWorlds ==
    { World(All, {}, {pL}, 1, 1, 0, 1, 0, 0, 1),
      World(All, {}, {}, 1, 0, 0, 2, 0, 0, 1),
      World(All, {}, {}, 0, 1, 0, 2, 0, 0, 1),
      World(All, {pL}, {}, 0, 2, 3, 0, 0, 2, 0),
      World(All, {pL}, {pL}, 1, 0, 2, 0, 2, 0, 0),
      World(All, {}, {pH}, 1, 1, 1, 0, 0, 0, 0) }
=============================================================================
