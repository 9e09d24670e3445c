------------------------------- MODULE Roster --------------------------------
(***************************************************************************)
(* What the group API promises about the members of one group: from its    *)
(* foundation on it has exactly one owner, who cannot be expelled and      *)
(* gives ownership up only by handing it over; who joins, joins as MEMBER. *)
(* Memberships.tla keeps these promises as long as its calls are handled   *)
(* one after the other.                                                    *)
(***************************************************************************)
CONSTANT Users

VARIABLE members        \* group_members of the group, by user

Roles == {"OWNER", "MANAGER", "MEMBER"}
Member == [role : Roles, status : {"NONE", "ACTIVE", "REMOVED"}]

(* A user without a row; the role is immaterial. *)
NoMember == [role |-> "MEMBER", status |-> "NONE"]
Joined(role) == [role |-> role, status |-> "ACTIVE"]

IsActive(u) == members[u].status = "ACTIVE"
HasRole(u, roles) == IsActive(u) /\ members[u].role \in roles
Owners == {u \in Users : HasRole(u, {"OWNER"})}

Exists == \E u \in Users : members[u].status # "NONE"

Found(u) == /\ ~ Exists
            /\ members' = [members EXCEPT ![u] = Joined("OWNER")]

Admit(u) == /\ Exists
            /\ ~ IsActive(u)
            /\ members' = [members EXCEPT ![u] = Joined("MEMBER")]

Appoint(u, role) == /\ IsActive(u) /\ u \notin Owners
                    /\ members' = [members EXCEPT ![u] = Joined(role)]

HandOver(m, u) == /\ m \in Owners /\ IsActive(u) /\ u # m
                  /\ members' = [members EXCEPT ![m] = Joined("MANAGER"), ![u] = Joined("OWNER")]

Expel(u) == /\ IsActive(u) /\ u \notin Owners
            /\ members' = [members EXCEPT ![u].status = "REMOVED"]

RosterInit == members = [u \in Users |-> NoMember]

RosterNext ==
  \/ \E u \in Users : Found(u) \/ Admit(u) \/ Expel(u)
  \/ \E u \in Users, role \in {"MANAGER", "MEMBER"} : Appoint(u, role)
  \/ \E m, u \in Users : HandOver(m, u)

RosterSpec == RosterInit /\ [][RosterNext]_members
==============================================================================
