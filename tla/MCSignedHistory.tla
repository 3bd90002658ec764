--------------------------- MODULE MCSignedHistory ---------------------------
(* Worlds for SignedHistory. *)
EXTENDS SignedHistory

CONSTANTS o, m, j

Quiet == [founders |-> {o, m}, joiners |-> {}, writers |-> {o}, readers |-> {m}, node |-> FALSE, window |-> 0,
          msgs |-> 1, revs |-> 2, pages |-> 0, reloads |-> 0]
\* Revisions of one message, live and in any order.
Live == Quiet
\* One author on two devices, which revise on their own.
TwoDevices == [Quiet EXCEPT !.founders = {o, m, j}, !.writers = {o, j}, !.revs = 1, !.pages = 1]
\* Two holders and a third client that lacks or has forgotten messages.
Paging == [Quiet EXCEPT !.founders = {o, m, j}, !.readers = {j}, !.msgs = 2,
                   !.revs = 0, !.pages = 1, !.reloads = 1]
\* The same with a message that is revised meanwhile.
Revised == [Paging EXCEPT !.msgs = 1, !.revs = 1]
\* A storage node with replicas of several revisions.
Stored == [Quiet EXCEPT !.node = TRUE, !.revs = 2, !.pages = 1, !.reloads = 1]
\* A newcomer.
Newcomer == [Quiet EXCEPT !.node = TRUE, !.joiners = {j}, !.readers = {j}, !.revs = 1, !.pages = 1]

SixWorlds == {Live, TwoDevices, Paging, Revised, Stored, Newcomer}
=============================================================================
