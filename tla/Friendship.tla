----------------------------- MODULE Friendship ------------------------------
(***************************************************************************)
(* What the connections API promises about each pair of users: at most one *)
(* of the two is asking the other, and they become friends only by the     *)
(* other's answer.  Nothing ends a friendship.  Connections.tla, the       *)
(* handlers and their separate queries, implements this.                   *)
(***************************************************************************)
CONSTANTS Users, NULL

Pairs == {p \in SUBSET Users : \E u, v \in p : u # v /\ p = {u, v}}

VARIABLES asking,   \* who of a pair has a pending request, NULL for neither
          friends   \* the pairs that are connected

Init == /\ asking = [p \in Pairs |-> NULL]
        /\ friends = {}

Ask(p) == /\ asking[p] = NULL
          /\ \E u \in p : asking' = [asking EXCEPT ![p] = u]
          /\ UNCHANGED friends

Settle(p) == /\ asking[p] # NULL
             /\ asking' = [asking EXCEPT ![p] = NULL]
             /\ friends' \in {friends, friends \cup {p}}

Next == \E p \in Pairs : Ask(p) \/ Settle(p)

Spec == Init /\ [][Next]_<<asking, friends>>
==============================================================================
