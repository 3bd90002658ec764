------------------------- MODULE MCTransportManager -------------------------
(* Scenarios for TransportManager. *)
EXTENDS TransportManager

CONSTANTS r1, r2, r3

TwoConfigured == <<r1, r2>>
Quiet == [stops |-> FALSE, selections |-> 0, changes |-> 0, discoveries |-> 0]
\* Relays come and go, and others are discovered.
Flaky == [Quiet EXCEPT !.changes = 2, !.discoveries = 1]
\* The user selects another node while they do.
Choosy == [Quiet EXCEPT !.selections = 2, !.changes = 1]
Racy == [Quiet EXCEPT !.selections = 1, !.changes = 2]
\* The engine stops in the middle of it.
Stops == [Quiet EXCEPT !.stops = TRUE, !.discoveries = 2, !.changes = 1]

AllScenarios == {Flaky, Choosy, Racy, Stops}
=============================================================================
