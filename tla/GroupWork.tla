------------------------------ MODULE GroupWork -------------------------------
(***************************************************************************)
(* Goals, feedback, the dashboard and the views of a group: the handlers   *)
(* of controllers/groupsController.js that decide by the members and do    *)
(* not change them.                                                        *)
(*                                                                         *)
(* One group is modelled.  Of other groups there are goals, feedback and a *)
(* Stranger, which the queries of this group must not find.  A slot of     *)
(* Calls runs one handler at a time, one database round trip per step;     *)
(* requireGroup, whose row never changes, goes with the read that follows  *)
(* it.  Members change in every way Memberships lets them change, races    *)
(* included; the row of a member stays and is written as its user.         *)
(***************************************************************************)
EXTENDS Integers, Sequences

CONSTANTS Users,
          Stranger,      \* a member of another group
          Goals,         \* bound: the goals an instance can store
          Feedbacks,     \* bound: the feedback an instance can store
          Sessions,
          OwnerOf,       \* sessions.user_id
          Ranks,         \* the roles this instance gives its members
          Lists,         \* the group_member_ids this instance is sent
          Sharers,       \* the users who change group_data_sharing
          Visibilities,  \* PRIVATE, PUBLIC
          Kinds,         \* the endpoints this instance serves
          Calls,         \* slots for concurrent calls of the API
          NULL

ASSUME GroupWorkAssumption ==
  /\ Stranger \notin Users
  /\ NULL \notin Users \cup {Stranger} \cup Sessions
  /\ OwnerOf \in [Sessions -> Users]
  /\ Ranks \subseteq {"OWNER", "MANAGER", "MEMBER"}
  /\ Lists \subseteq Seq(Users \cup {Stranger})
  /\ Sharers \subseteq Users
  /\ Visibilities \subseteq {"PRIVATE", "PUBLIC"}
  /\ Kinds \subseteq {"create", "assign", "give", "dashboard", "goals", "feedbacks",
                      "group", "groups"}

VARIABLES
  members,     \* group_members of the group, by user
  visibility,  \* groups.visibility
  sharing,     \* users with group_data_sharing
  sessions,    \* the sessions there are
  goals,       \* group_goals: whose they are
  assigned,    \* group_goal_assignees: rows by goal and member
  feedbacks,   \* manager_feedbacks
  call,        \* the call a slot serves or has served
  pc,          \* what its handler does next
  mem,         \* what its handler remembers of its reads
  answer       \* the status of its response, and what it lists

INSTANCE Roster

world == <<members, visibility, sharing, sessions>>
slots == <<call, pc, mem, answer>>
vars == <<members, visibility, sharing, sessions, goals, assigned, feedbacks,
          call, pc, mem, answer>>

MemberIds == Users \cup {Stranger}

NoFeedback == [group |-> "none", target |-> NULL, manager |-> NULL, session |-> NULL]
Feedback == [group : {"ours", "theirs"}, target : MemberIds, manager : MemberIds,
             session : Sessions \cup {NULL}]

Call == [kind : {"create"}, user : Users, reversed : BOOLEAN]
        \cup [kind : {"assign"}, user : Users, goal : Goals, ids : Lists]
        \cup [kind : {"give"}, user : Users, target : MemberIds, session : Sessions \cup {NULL}]
        \cup [kind : {"feedbacks"}, user : Users, target : MemberIds \cup {NULL}]
        \cup [kind : {"dashboard", "goals", "group", "groups"}, user : Users]
NoCall == [kind |-> "none"]

Free == {"idle", "done"}
Nothing == [manager |-> FALSE, rows |-> {}, open |-> {}]
NoAnswer == [code |-> 0, items |-> {}]

Init ==
  /\ members = [u \in Users |-> NoMember]
  /\ visibility \in Visibilities
  /\ sharing = {} /\ sessions = {}
  /\ goals = [g \in Goals |-> "none"]
  /\ assigned = [g \in Goals |-> [m \in MemberIds |-> 0]]
  /\ feedbacks = [f \in Feedbacks |-> NoFeedback]
  /\ call = [c \in Calls |-> NoCall]
  /\ pc = [c \in Calls |-> "idle"]
  /\ mem = [c \in Calls |-> Nothing]
  /\ answer = [c \in Calls |-> NoAnswer]

Receive(c, new, label) ==
  /\ pc[c] \in Free
  /\ new.kind \in Kinds
  /\ call' = [call EXCEPT ![c] = new]
  /\ pc' = [pc EXCEPT ![c] = label]
  /\ answer' = [answer EXCEPT ![c] = NoAnswer]
  /\ UNCHANGED <<world, goals, assigned, feedbacks, mem>>

Answer(c, code, items) ==
  /\ pc' = [pc EXCEPT ![c] = "done"]
  /\ mem' = [mem EXCEPT ![c] = Nothing]
  /\ answer' = [answer EXCEPT ![c] = [code |-> code, items |-> items]]
  /\ UNCHANGED <<world, call>>

(* A read at label that ends the handler with code, or lets it go on.      *)
Query(c, label, code, next, memory) ==
  /\ pc[c] = label
  /\ UNCHANGED <<goals, assigned, feedbacks>>
  /\ IF code # 0 THEN Answer(c, code, {})
     ELSE /\ pc' = [pc EXCEPT ![c] = next]
          /\ mem' = [mem EXCEPT ![c] = memory]
          /\ UNCHANGED <<world, call, answer>>

(* A read at label that ends the handler with items. *)
List(c, label, items) ==
  pc[c] = label /\ Answer(c, 200, items) /\ UNCHANGED <<goals, assigned, feedbacks>>

-------------------------------------------------------------------------------
(* requireGroup and getMyMember, and what they let a caller do             *)

IsManager(u) == HasRole(u, {"OWNER", "MANAGER"})
Refusal(allowed) == IF ~ Exists THEN 404 ELSE IF ~ allowed THEN 403 ELSE 0

Memory(manager, rows, open) == [manager |-> manager, rows |-> rows, open |-> open]

-------------------------------------------------------------------------------
(* createGoal *)

ReceiveCreate(c) ==
  \E u \in Users, r \in BOOLEAN :
    Receive(c, [kind |-> "create", user |-> u, reversed |-> r], "creator")

CheckCreator(c) ==
  LET refused == Refusal(IsManager(call[c].user))
  IN  Query(c, "creator", IF refused = 0 /\ call[c].reversed THEN 400 ELSE refused,
            "create", Nothing)

CreateGoal(c) ==
  /\ pc[c] = "create"
  /\ \E g \in Goals : goals[g] = "none" /\ goals' = [goals EXCEPT ![g] = "ours"]
  /\ Answer(c, 201, {})
  /\ UNCHANGED <<assigned, feedbacks>>

-------------------------------------------------------------------------------
(* assignGoal *)

ReceiveAssign(c) ==
  \E u \in Users, g \in Goals, ids \in Lists :
    Receive(c, [kind |-> "assign", user |-> u, goal |-> g, ids |-> ids], "assigner")

CheckAssigner(c) ==
  Query(c, "assigner", Refusal(IsManager(call[c].user)), "goal", Nothing)

OfGroup(g) == goals[g] = "ours"
To(c) == {call[c].ids[i] : i \in DOMAIN call[c].ids}
Twice(ids) == \E i, j \in DOMAIN ids : i # j /\ ids[i] = ids[j]
FindGoal(c) ==
  Query(c, "goal", IF ~ OfGroup(call[c].goal) THEN 404 ELSE IF Twice(call[c].ids) THEN 400 ELSE 0,
        IF To(c) = {} THEN "clear" ELSE "assignees", Nothing)

ClearGoal(c) ==
  /\ pc[c] = "clear"
  /\ assigned' = [assigned EXCEPT ![call[c].goal] = [m \in MemberIds |-> 0]]
  /\ Answer(c, 201, {})
  /\ UNCHANGED <<goals, feedbacks>>

(* One of the group's active members, by the id of his row. *)
AnyMember(m) == TRUE                              \* mutant: ids are not looked up
ActiveMember(m) == m \in Users /\ IsActive(m)
FindAssignees(c) ==
  Query(c, "assignees", IF \A m \in To(c) : ActiveMember(m) THEN 0 ELSE 400,
        "existing", Nothing)

NoneAssigned(g, to) == \A m \in to : assigned[g][m] = 0
FindExisting(c) ==
  Query(c, "existing", IF NoneAssigned(call[c].goal, To(c)) THEN 0 ELSE 409,
        "insert", Nothing)

NoIndex(g, to) == TRUE                            \* mutant: no unique constraint
IndexAllows(g, to) == NoneAssigned(g, to)

(* createMany inserts all or nothing; the rows are read back for the answer. *)
InsertAssignees(c) ==
  /\ pc[c] = "insert"
  /\ UNCHANGED <<goals, feedbacks>>
  /\ IF IndexAllows(call[c].goal, To(c))
     THEN /\ assigned' = [g \in Goals |-> [m \in MemberIds |->
                            IF g = call[c].goal /\ m \in To(c)
                            THEN assigned[g][m] + 1 ELSE assigned[g][m]]]
          /\ pc' = [pc EXCEPT ![c] = "assigned"]
          /\ UNCHANGED <<world, call, mem, answer>>
     ELSE UNCHANGED assigned /\ Answer(c, 409, {})

AnswerAssigned(c) ==
  pc[c] = "assigned" /\ Answer(c, 201, {}) /\ UNCHANGED <<goals, assigned, feedbacks>>

-------------------------------------------------------------------------------
(* getGoals *)

ReceiveGoals(c) == \E u \in Users : Receive(c, [kind |-> "goals", user |-> u], "member")

CheckGoalReader(c) ==
  Query(c, "member", Refusal(IsActive(call[c].user)), "goals", Nothing)

PageOfGoals(c) ==
  Query(c, "goals", 0, "loading", Memory(FALSE, {g \in Goals : OfGroup(g)}, {}))

ActiveAssignees(g) == {u \in Users : assigned[g][u] > 0 /\ IsActive(u)}
isAssignedToMe(g, u) == ActiveAssignees(g) = {} \/ u \in ActiveAssignees(g)

LoadAssignees(c) ==
  List(c, "loading", {[goal |-> g, mine |-> isAssignedToMe(g, call[c].user)] : g \in mem[c].rows})

-------------------------------------------------------------------------------
(* createFeedback *)

ReceiveGive(c) ==
  \E u \in Users, m \in MemberIds, x \in Sessions \cup {NULL} :
    Receive(c, [kind |-> "give", user |-> u, target |-> m, session |-> x], "author")

CheckAuthor(c) == Query(c, "author", Refusal(IsManager(call[c].user)), "target", Nothing)

FindTarget(c) ==
  Query(c, "target", IF ActiveMember(call[c].target) THEN 0 ELSE 403,
        IF call[c].session = NULL THEN "write" ELSE "session", Nothing)

SessionOf(x, u) == OwnerOf[x] = u
FindSession(c) ==
  Query(c, "session", IF call[c].session \notin sessions THEN 404
                      ELSE IF ~ SessionOf(call[c].session, call[c].target) THEN 403
                      ELSE 0, "write", Nothing)

GiveFeedback(c) ==
  /\ pc[c] = "write"
  /\ \E f \in Feedbacks :
       /\ feedbacks[f] = NoFeedback
       /\ feedbacks' = [feedbacks EXCEPT ![f] = [group |-> "ours", target |-> call[c].target,
                                                 manager |-> call[c].user,
                                                 session |-> call[c].session]]
  /\ Answer(c, 201, {})
  /\ UNCHANGED <<goals, assigned>>

-------------------------------------------------------------------------------
(* getFeedbacks *)

ReceiveFeedbacks(c) ==
  \E u \in Users, m \in MemberIds \cup {NULL} :
    Receive(c, [kind |-> "feedbacks", user |-> u, target |-> m], "recipient")

CheckRecipient(c) ==
  LET u == call[c].user
      others == ~ IsManager(u) /\ call[c].target \notin {NULL, u}
  IN  Query(c, "recipient", Refusal(IsActive(u) /\ ~ others), "listing",
            Memory(IsManager(u), {}, {}))

Shown(c, m) == IF mem[c].manager THEN call[c].target \in {NULL, m} ELSE m = call[c].user
ListFeedbacks(c) ==
  List(c, "listing", {[feedback |-> f] : f \in {f \in Feedbacks :
         feedbacks[f].group = "ours" /\ Shown(c, feedbacks[f].target)}})

-------------------------------------------------------------------------------
(* getDashboard *)

ReceiveDashboard(c) ==
  \E u \in Users : Receive(c, [kind |-> "dashboard", user |-> u], "viewer")

CheckViewer(c) ==
  Query(c, "viewer", Refusal(IsActive(call[c].user)), "page",
        Memory(IsManager(call[c].user), {}, {}))

AllActive(c) == {u \in Users : IsActive(u)}       \* mutant: a member sees all
memberWhere(c) == {u \in Users : IsActive(u) /\ (mem[c].manager \/ u = call[c].user)}
PageOfMembers(c) ==
  Query(c, "page", 0, "settings", Memory(mem[c].manager, memberWhere(c), {}))

(* The settings come with the page, by a query of their own. *)
ReadSettings(c) ==
  Query(c, "settings", 0, "sessions", Memory(mem[c].manager, mem[c].rows, mem[c].rows \cap sharing))

AllCounted(c, u) == TRUE                          \* mutant: settings are not looked at
sharingUserIds(c, u) == u \in mem[c].open
ReadSessions(c) ==
  List(c, "sessions", {[user |-> u, stats |-> sharingUserIds(c, u)] : u \in mem[c].rows})

-------------------------------------------------------------------------------
(* getGroup, getMyGroups: one read each *)

ReceiveView(c) ==
  \E k \in {"group", "groups"}, u \in Users : Receive(c, [kind |-> k, user |-> u], k)

Visible(u) == visibility = "PUBLIC" \/ IsActive(u)
getGroup(c) ==
  /\ pc[c] = "group"
  /\ LET refused == Refusal(Visible(call[c].user))
     IN  Answer(c, IF refused = 0 THEN 200 ELSE refused, {})
  /\ UNCHANGED <<goals, assigned, feedbacks>>

getMyGroups(c) ==
  List(c, "groups", {[role |-> members[u].role] : u \in {u \in {call[c].user} : IsActive(u)}})

-------------------------------------------------------------------------------
(* Any query may fail. *)
Fail(c) ==
  pc[c] \notin Free /\ Answer(c, 500, {}) /\ UNCHANGED <<goals, assigned, feedbacks>>

(* What other handlers do to the tables this part reads. *)
ChangeMember(u, role, status) ==
  /\ members[u].status # "NONE" \/ status = "ACTIVE"
  /\ members' = [members EXCEPT ![u] = [role |-> role, status |-> status]]
  /\ UNCHANGED <<visibility, sharing, sessions, goals, assigned, feedbacks, slots>>

SetSharing(u) ==
  /\ sharing' = IF u \in sharing THEN sharing \ {u} ELSE sharing \cup {u}
  /\ UNCHANGED <<members, visibility, sessions, goals, assigned, feedbacks, slots>>

StartSession(x) ==
  /\ x \notin sessions /\ sessions' = sessions \cup {x}
  /\ UNCHANGED <<members, visibility, sharing, goals, assigned, feedbacks, slots>>

(* Other groups have goals and feedback of their own. *)
GoalOfOthers(g) ==
  /\ goals[g] = "none" /\ goals' = [goals EXCEPT ![g] = "theirs"]
  /\ UNCHANGED <<world, assigned, feedbacks, slots>>

FeedbackOfOthers(f) ==
  /\ feedbacks[f] = NoFeedback
  /\ feedbacks' = [feedbacks EXCEPT ![f] = [group |-> "theirs", target |-> Stranger,
                                            manager |-> Stranger, session |-> NULL]]
  /\ UNCHANGED <<world, goals, assigned, slots>>

Elsewhere ==
  \/ \E u \in Users, role \in Ranks, status \in {"ACTIVE", "REMOVED"} : ChangeMember(u, role, status)
  \/ \E u \in Sharers : SetSharing(u)
  \/ \E x \in Sessions : StartSession(x)
  \/ \E g \in Goals : GoalOfOthers(g)
  \/ \E f \in Feedbacks : FeedbackOfOthers(f)

Requests(c) ==
  \/ ReceiveCreate(c) \/ ReceiveAssign(c) \/ ReceiveGoals(c) \/ ReceiveGive(c)
  \/ ReceiveFeedbacks(c) \/ ReceiveDashboard(c) \/ ReceiveView(c)

Handle(c) ==
  \/ CheckCreator(c) \/ CreateGoal(c)
  \/ CheckAssigner(c) \/ FindGoal(c) \/ ClearGoal(c) \/ FindAssignees(c) \/ FindExisting(c)
  \/ InsertAssignees(c) \/ AnswerAssigned(c)
  \/ CheckGoalReader(c) \/ PageOfGoals(c) \/ LoadAssignees(c)
  \/ CheckAuthor(c) \/ FindTarget(c) \/ FindSession(c) \/ GiveFeedback(c)
  \/ CheckRecipient(c) \/ ListFeedbacks(c)
  \/ CheckViewer(c) \/ PageOfMembers(c) \/ ReadSettings(c) \/ ReadSessions(c)
  \/ getGroup(c) \/ getMyGroups(c)
  \/ Fail(c)

Next == Elsewhere \/ \E c \in Calls : Requests(c) \/ Handle(c)

Spec == Init /\ [][Next]_vars
==============================================================================
