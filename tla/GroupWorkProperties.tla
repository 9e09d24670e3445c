-------------------------- MODULE GroupWorkProperties -------------------------
(* What the goals and the feedback of a group must keep, whatever its      *)
(* members become between the queries of a handler.                        *)
EXTENDS GroupWork

Labels == {"idle", "creator", "create", "assigner", "goal", "clear", "assignees", "existing",
           "insert", "assigned", "member", "goals", "loading", "author", "target", "session",
           "write", "recipient", "listing", "viewer", "page", "settings", "sessions",
           "group", "groups", "done"}
Items == [goal : Goals, mine : BOOLEAN] \cup [feedback : Feedbacks]
         \cup [user : Users, stats : BOOLEAN] \cup [role : Roles]
Memories == [manager : BOOLEAN, rows : SUBSET (Users \cup Goals), open : SUBSET Users]
Answers == [code : {0, 200, 201, 400, 403, 404, 409, 500}, items : SUBSET Items]

TypeOK ==
  /\ members \in [Users -> Member]
  /\ visibility \in {"PRIVATE", "PUBLIC"}
  /\ sharing \subseteq Users
  /\ sessions \subseteq Sessions
  /\ goals \in [Goals -> {"none", "ours", "theirs"}]
  /\ assigned \in [Goals -> [MemberIds -> Nat]]
  /\ feedbacks \in [Feedbacks -> Feedback \cup {NoFeedback}]
  /\ call \in [Calls -> Call \cup {NoCall}]
  /\ pc \in [Calls -> Labels]
  /\ mem \in [Calls -> Memories]
  /\ answer \in [Calls -> Answers]

(* Members come and go; who has been one has a row.                        *)
EverMember(m) == m \in Users /\ members[m].status # "NONE"

(* However many managers assign a goal at once, a member has it once: the  *)
(* handler looks for his row, and inserts it, in two round trips.          *)
AssignedOnce == \A g \in Goals, m \in MemberIds : assigned[g][m] <= 1

(* Through the handlers of a group, only its own goals are assigned, and   *)
(* only to people who have belonged to it; feedback goes between people    *)
(* who have belonged to it, about a session of the one it is for.          *)
WithinTheGroup ==
  /\ \A g \in Goals, m \in MemberIds :
       assigned[g][m] > 0 => goals[g] = "ours" /\ EverMember(m)
  /\ \A f \in Feedbacks : feedbacks[f].group = "ours" =>
       /\ EverMember(feedbacks[f].target) /\ EverMember(feedbacks[f].manager)
       /\ feedbacks[f].session # NULL => OwnerOf[feedbacks[f].session] = feedbacks[f].target

(* What the steps of a handler have established for the next ones.         *)
InAssign(c) ==
  /\ call[c].kind = "assign"
  /\ pc[c] \in {"clear", "assignees", "existing", "insert"} => goals[call[c].goal] = "ours"
  /\ pc[c] \in {"existing", "insert"} => \A m \in To(c) : EverMember(m)

InGive(c) ==
  /\ call[c].kind = "give"
  /\ pc[c] # "author" => EverMember(call[c].user)
  /\ pc[c] \in {"session", "write"} => EverMember(call[c].target)
  /\ pc[c] = "session" => call[c].session # NULL
  /\ pc[c] = "write" /\ call[c].session # NULL => OwnerOf[call[c].session] = call[c].target

InList(c) ==
  /\ pc[c] \in {"creator", "create"} => call[c].kind = "create"
  /\ pc[c] \in {"member", "goals", "loading"} => call[c].kind = "goals"
  /\ pc[c] \in {"recipient", "listing"} => call[c].kind = "feedbacks"
  /\ pc[c] \in {"viewer", "page", "settings", "sessions"} => call[c].kind = "dashboard"
  /\ pc[c] \in {"group", "groups"} => call[c].kind = pc[c]
  /\ pc[c] = "loading" => mem[c].rows \subseteq Goals
  /\ pc[c] \in {"settings", "sessions"} => mem[c].rows \subseteq Users

InHandler(c) ==
  /\ pc[c] \in {"assigner", "goal", "clear", "assignees", "existing", "insert", "assigned"}
       => InAssign(c)
  /\ pc[c] \in {"author", "target", "session", "write"} => InGive(c)
  /\ InList(c)
  /\ pc[c] # "idle" => call[c] # NoCall

(* The inductive invariant. *)
IInv == TypeOK /\ AssignedOnce /\ WithinTheGroup /\ \A c \in Calls : InHandler(c)

-------------------------------------------------------------------------------
(* What the documents say and the code does not keep. *)

(* docs/api-spec.md:2092: a goal of the whole group is one that has no row *)
(* in group_goal_assignees.  The code drops the rows of members who are no *)
(* longer active first, and shows a goal whose assignees have left as a    *)
(* goal of everybody.                                                      *)
GroupWide ==
  \A g \in Goals, u \in Users :
    goals[g] = "ours" /\ IsActive(u) /\ isAssignedToMe(g, u) =>
      assigned[g][u] > 0 \/ \A m \in MemberIds : assigned[g][m] = 0
==============================================================================
