----------------------------- MODULE MCSessions ------------------------------
(* Small instances of Sessions for TLC, and the properties they check. *)
EXTENDS SessionProperties, FiniteSets, TLC

Symmetry == Permutations(Contents) \cup Permutations(Requests)
            \cup Permutations(ClientIds) \cup Permutations(SessionIds)
            \cup Permutations(Users)

InUse == {r \in Requests : req[r].kind # "none"}

(* Bounds: where a second user, a second session or a second attempt comes *)
(* in, there are no v2 logs.                                               *)
Planned ==
  \/ /\ \A r \in Requests : req[r].kind # "v2"
     /\ \A l \in logs : l.client = NULL
  \/ /\ Cardinality({req[r].session : r \in InUse}
                    \cup {s \in SessionIds : sessions[s].status # "NONE"}) <= 1
     /\ Cardinality({req[r].user : r \in InUse}
                    \cup ({sessions[s].user : s \in SessionIds} \ {NULL})) <= 1
     /\ \A r \in Requests : attempt[r] = 1

(* A finished request is forgotten, unless it stored something. *)
Working == [r \in Requests |->
              IF pc[r] \in Free /\ answer[r].code \notin {200, 201} THEN <<pc[r]>>
              ELSE <<pc[r], req[r], attempt[r], snap[r], answer[r]>>]
View == <<tables, clock, Working>>

PlannedSpec == Init /\ [][Next /\ Planned']_vars
==============================================================================
