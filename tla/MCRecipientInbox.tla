-------------------------- MODULE MCRecipientInbox --------------------------
(* Worlds for RecipientInbox. *)
EXTENDS RecipientInbox

CONSTANTS i1, i2, h1, h2

Free == [i \in Ids |-> "none"]
\* One operation and two holders the recipient knows; tabs close.
Replicas == [ids |-> {i1}, holders |-> {h1, h2}, known |-> {h1, h2}, needs |-> Free,
             days |-> 0, asks |-> 1, retries |-> 0, crashes |-> 1, resets |-> 0]
\* One of the holders is unknown to the recipient; days pass and the sender tries again.
Undiscovered == [ids |-> {i1}, holders |-> {h1, h2}, known |-> {h1}, needs |-> Free,
                 days |-> 2, asks |-> 1, retries |-> 1, crashes |-> 0, resets |-> 0]
\* The engine restarts under a drain.
Restarted == [ids |-> {i1}, holders |-> {h1}, known |-> {h1}, needs |-> Free,
              days |-> 0, asks |-> 2, retries |-> 0, crashes |-> 0, resets |-> 1]
\* Two operations through one holder, the second accepted only after the first.
Dependent == [ids |-> {i1, i2}, holders |-> {h1}, known |-> {h1},
              needs |-> [Free EXCEPT ![i2] = i1],
              days |-> 1, asks |-> 1, retries |-> 0, crashes |-> 0, resets |-> 0]

\* Two operations and a holder that serves several requests at once; also again.
Busy == [Dependent EXCEPT !.needs = Free, !.days = 0, !.asks = 2, !.retries = 1]

\* An operation that is not accepted, delivered again by way of another holder.
Unaccepted == [Replicas EXCEPT !.ids = {i2}, !.needs = Dependent.needs, !.retries = 1, !.crashes = 0]

SixWorlds == {Replicas, Undiscovered, Restarted, Dependent, Busy, Unaccepted}
=============================================================================
