-------------------------- MODULE MCRoutedRequest --------------------------
(***************************************************************************)
(* Small networks for RoutedRequest.                                       *)
(***************************************************************************)
EXTENDS RoutedRequest

CONSTANTS nO, nA, nB, nT

Ring == {{nO, nA}, {nO, nB}, {nA, nT}, {nB, nT}}
Rung == {{nA, nB}}
Line == {{nO, nA}, {nA, nB}, {nB, nT}}

\* Two ways to the target, with faults; the two ways joined by a rung, so that routers ask
\* each other, all at once or one at a time; a line longer than the hop limit, and one that
\* fits it; and a target nobody reaches.
SmallWorlds ==
    { [links |-> Ring, hops |-> 2, fanout |-> 2, faults |-> 2],
      [links |-> Ring \cup Rung, hops |-> 3, fanout |-> 2, faults |-> 0],
      [links |-> Ring \cup Rung, hops |-> 3, fanout |-> 1, faults |-> 1],
      [links |-> Line, hops |-> 2, fanout |-> 2, faults |-> 1],
      [links |-> Line, hops |-> 3, fanout |-> 2, faults |-> 1],
      [links |-> {{nO, nA}, {nO, nB}} \cup Rung, hops |-> 3, fanout |-> 2, faults |-> 1] }
=============================================================================
