---------------------------- MODULE MCMemberships -----------------------------
(* Small instances of Memberships for TLC, and the properties they check.  *)
EXTENDS MembershipProperties, FiniteSets, TLC

Symmetry == Permutations(Users) \cup Permutations(InvitationIds) \cup Permutations(Calls)

Involved ==
  registered \cup {u \in Users : members[u].status # "NONE"}
  \cup UNION {{invitations[i].user, invitations[i].email} \ {NULL} : i \in InvitationIds}
  \cup UNION {IF call[c].kind \in {"invite", "role", "remove"}
              THEN {call[c].user, call[c].target} ELSE {} : c \in Calls}

Stored == {i \in InvitationIds : invitations[i].status # "NONE"}

(* Bounds: a third user appears only as long as one slot is used, and no   *)
(* time passes where roles are changed by two calls at once.               *)
RolesFixed == /\ \A c \in Calls : call[c].kind # "role"
              /\ \A u \in Users : members[u].role # "MANAGER"
Planned == OneAtATime \/ (Cardinality(Involved) <= 2 /\ (RolesFixed \/ clock = 0))

(* A finished call is forgotten. *)
Working == [c \in Calls |-> IF pc[c] \in Free THEN <<pc[c]>>
                            ELSE <<pc[c], call[c], seen[c]>>]
View == <<tables, clock, Working>>

PlannedSpec == Init /\ [][Next /\ Planned']_vars
==============================================================================
