-------------------------- MODULE MCFriendRequests --------------------------
(* Three worlds for FriendRequests. *)
EXTENDS FriendRequests

CONSTANTS a, b, r1, r2

\* One request over a bad network, with other traffic in the queue.
BadNetwork == [ids |-> {r1}, creators |-> {a}, flaky |-> {r1}, mayExpire |-> {},
               chats |-> 1, removals |-> 0, restarts |-> 0]
\* The same alone, with a restart and for as long as it takes to expire.
SlowNetwork == [ids |-> {r1}, creators |-> {a}, flaky |-> {r1}, mayExpire |-> {r1},
                chats |-> 0, removals |-> 0, restarts |-> 1]
\* Several requests, also crossing ones, whose packets arrive but repeat and overtake.
ManyRequests == [ids |-> {r1, r2}, creators |-> {a, b}, flaky |-> {}, mayExpire |-> {r1},
                 chats |-> 0, removals |-> 1, restarts |-> 0]

ThreeWorlds == {BadNetwork, SlowNetwork, ManyRequests}
=============================================================================
