--------------------------- MODULE GroupWorkProofs ----------------------------
(* Proofs about GroupWork, for any number of members, goals, feedback and   *)
(* calls and whatever lists of members are sent.                            *)
EXTENDS GroupWorkHistory, TLAPS

USE GroupWorkAssumption

TablesOK == /\ members \in [Users -> Member]
            /\ visibility \in {"PRIVATE", "PUBLIC"}
            /\ sharing \subseteq Users
            /\ sessions \subseteq Sessions
            /\ goals \in [Goals -> {"none", "ours", "theirs"}]
            /\ assigned \in [Goals -> [MemberIds -> Nat]]
            /\ feedbacks \in [Feedbacks -> Feedback \cup {NoFeedback}]

SlotsOK == /\ call \in [Calls -> Call \cup {NoCall}]
           /\ pc \in [Calls -> Labels]
           /\ mem \in [Calls -> Memories]
           /\ answer \in [Calls -> Answers]

Codes == {0, 200, 201, 400, 403, 404, 409, 500}
tables == <<world, goals, assigned, feedbacks>>

LEMMA TypeParts == TypeOK <=> SlotsOK /\ TablesOK
BY DEF TypeOK, SlotsOK, TablesOK

LEMMA Empties == Nothing \in Memories /\ NoAnswer \in Answers
BY DEF Nothing, Memories, NoAnswer, Answers

LEMMA InitIInv == Init => IInv
<1> SUFFICES ASSUME Init PROVE IInv
  OBVIOUS
<1>1. NoMember \in Member
  BY DEF NoMember, Member, Roles
<1>2. TypeOK
  BY <1>1, Empties DEF Init, TypeOK, Labels
<1>3. \A g \in Goals, m \in MemberIds : assigned[g][m] = 0
  BY DEF Init
<1>4. \A f \in Feedbacks : feedbacks[f].group = "none"
  BY DEF Init, NoFeedback
<1>5. AssignedOnce /\ WithinTheGroup
  BY <1>3, <1>4 DEF AssignedOnce, WithinTheGroup
<1>6. \A c \in Calls : pc[c] = "idle"
  BY DEF Init
<1>7. \A c \in Calls : InHandler(c)
  BY <1>6 DEF InHandler, InList
<1> QED BY <1>2, <1>5, <1>7 DEF IInv

-------------------------------------------------------------------------------
(* Calls, and what lasts *)

LEMMA CallType ==
  ASSUME TypeOK, NEW c \in Calls
  PROVE  /\ call[c] # NoCall => call[c].user \in Users
         /\ call[c].kind = "assign" =>
              call[c].user \in Users /\ call[c].goal \in Goals /\ To(c) \subseteq MemberIds
         /\ call[c].kind = "give" =>
              /\ call[c].user \in Users /\ call[c].target \in MemberIds
              /\ call[c].session \in Sessions \cup {NULL}
<1>1. call[c] \in Call \cup {NoCall}
  BY DEF TypeOK
<1>2. call[c] # NoCall => call[c].user \in Users
  BY <1>1 DEF Call
<1>3. ASSUME call[c].kind = "assign"
      PROVE  call[c].user \in Users /\ call[c].goal \in Goals /\ call[c].ids \in Lists
  BY <1>1, <1>3 DEF Call, NoCall
<1>4. ASSUME call[c].kind = "give"
      PROVE  /\ call[c].user \in Users /\ call[c].target \in MemberIds
             /\ call[c].session \in Sessions \cup {NULL}
  BY <1>1, <1>4 DEF Call, NoCall
<1>5. ASSUME call[c].kind = "assign" PROVE To(c) \subseteq MemberIds
  <2>1. call[c].ids \in Seq(MemberIds)
    BY <1>3, <1>5 DEF MemberIds
  <2> QED BY <2>1 DEF To
<1> QED BY <1>2, <1>3, <1>4, <1>5

(* Members are remembered and goals stay the group's. *)
Lasts == /\ \A u \in Users : members[u].status # "NONE" => members'[u].status # "NONE"
         /\ \A g \in Goals : goals[g] = "ours" => goals'[g] = "ours"

LEMMA EverLasts ==
  ASSUME Lasts, NEW m, EverMember(m)
  PROVE  EverMember(m)'
BY DEF Lasts, EverMember

(* A slot that does nothing keeps what its handler has established. *)
LEMMA HandlerLasts ==
  ASSUME TypeOK, Lasts, NEW d \in Calls, InHandler(d),
         call'[d] = call[d], pc'[d] = pc[d], mem'[d] = mem[d]
  PROVE  InHandler(d)'
<1>1. ASSUME pc[d] \in {"assigner", "goal", "clear", "assignees", "existing", "insert", "assigned"}
      PROVE  InAssign(d)'
  <2>1. InAssign(d) /\ call[d].goal \in Goals /\ To(d)' = To(d)
    BY <1>1, CallType DEF InHandler, InAssign, To
  <2> QED BY <2>1, EverLasts DEF InAssign, Lasts
<1>2. ASSUME pc[d] \in {"author", "target", "session", "write"} PROVE InGive(d)'
  <2>1. InGive(d)
    BY <1>2 DEF InHandler
  <2> QED BY <2>1, EverLasts DEF InGive
<1>3. InList(d)'
  BY DEF InHandler, InList
<1>4. pc'[d] # "idle" => call'[d] # NoCall
  BY DEF InHandler
<1> QED BY <1>1, <1>2, <1>3, <1>4 DEF InHandler

-------------------------------------------------------------------------------
(* The shape of a step *)

(* The slots but c stay as they are. *)
StepOf(c) == \A d \in Calls \ {c} : call'[d] = call[d] /\ pc'[d] = pc[d] /\ mem'[d] = mem[d]

RowsOK == AssignedOnce /\ WithinTheGroup

LEMMA KeepIInv ==
  ASSUME IInv, NEW c \in Calls, SlotsOK', TablesOK', StepOf(c), InHandler(c)', Lasts, RowsOK'
  PROVE  IInv'
<1>1. TypeOK'
  BY DEF TypeOK, SlotsOK, TablesOK
<1>2. ASSUME NEW d \in Calls, d # c PROVE InHandler(d)'
  BY <1>2, HandlerLasts DEF IInv, StepOf
<1> QED BY <1>1, <1>2 DEF IInv, RowsOK

LEMMA AnswerIInv ==
  ASSUME IInv, NEW c \in Calls, NEW code \in Codes, NEW items \in SUBSET Items,
         Answer(c, code, items), call[c] # NoCall, TablesOK', Lasts, RowsOK'
  PROVE  IInv'
<1>1. SlotsOK
  BY TypeParts DEF IInv
<1>2. [code |-> code, items |-> items] \in Answers
  BY DEF Answers, Codes
<1>3. SlotsOK' /\ StepOf(c) /\ pc'[c] = "done" /\ call' = call
  BY <1>1, <1>2, Empties DEF SlotsOK, Answer, StepOf, Labels
<1>4. InHandler(c)'
  BY <1>3 DEF InHandler, InList
<1> QED BY <1>3, <1>4, KeepIInv

LEMMA SameTables ==
  ASSUME IInv, UNCHANGED tables
  PROVE  TablesOK' /\ Lasts /\ RowsOK'
<1>1. TablesOK' /\ Lasts
  BY TypeParts DEF IInv, TablesOK, tables, world, Lasts
<1>2. RowsOK'
  BY DEF IInv, RowsOK, AssignedOnce, WithinTheGroup, EverMember, tables, world
<1> QED BY <1>1, <1>2

LEMMA GotoIInv ==
  ASSUME IInv, NEW c \in Calls, NEW next \in Labels, NEW memory \in Memories,
         pc' = [pc EXCEPT ![c] = next], mem' = [mem EXCEPT ![c] = memory],
         UNCHANGED <<call, answer>>, InHandler(c)', TablesOK', Lasts, RowsOK'
  PROVE  IInv'
<1>1. SlotsOK
  BY TypeParts DEF IInv
<1>2. SlotsOK' /\ StepOf(c)
  BY <1>1 DEF SlotsOK, StepOf
<1> QED BY <1>2, KeepIInv

LEMMA QueryIInv ==
  ASSUME IInv, NEW c \in Calls, NEW label, NEW code \in Codes, NEW next \in Labels,
         NEW memory \in Memories, Query(c, label, code, next, memory), call[c] # NoCall,
         /\ UNCHANGED tables /\ call' = call
         /\ code = 0 /\ pc[c] = label /\ pc'[c] = next /\ mem'[c] = memory
         => InHandler(c)'
  PROVE  IInv'
<1>1. SlotsOK /\ UNCHANGED tables /\ pc[c] = label
  BY TypeParts DEF IInv, Query, Answer, tables
<1>2. TablesOK' /\ Lasts /\ RowsOK'
  BY <1>1, SameTables
<1>3. CASE code # 0
  <2>1. Answer(c, code, {}) /\ {} \in SUBSET Items
    BY <1>3 DEF Query
  <2> QED BY <1>2, <2>1, AnswerIInv
<1>4. CASE code = 0
  <2>1. /\ pc' = [pc EXCEPT ![c] = next] /\ mem' = [mem EXCEPT ![c] = memory]
        /\ UNCHANGED <<call, answer>>
    BY <1>4 DEF Query
  <2>2. pc'[c] = next /\ mem'[c] = memory
    BY <1>1, <2>1 DEF SlotsOK
  <2> QED BY <1>1, <1>2, <1>4, <2>1, <2>2, GotoIInv
<1> QED BY <1>3, <1>4

LEMMA ListIInv ==
  ASSUME IInv, NEW c \in Calls, NEW label, NEW items \in SUBSET Items, List(c, label, items),
         call[c] # NoCall
  PROVE  IInv'
<1>1. UNCHANGED tables /\ Answer(c, 200, items) /\ 200 \in Codes
  BY DEF List, Answer, tables, Codes
<1> QED BY <1>1, SameTables, AnswerIInv

LEMMA PlainIInv ==
  ASSUME IInv, NEW c \in Calls, NEW code \in Codes, Answer(c, code, {}), call[c] # NoCall,
         UNCHANGED <<goals, assigned, feedbacks>>
  PROVE  IInv'
<1>1. UNCHANGED tables
  BY DEF Answer, tables
<1>2. {} \in SUBSET Items
  OBVIOUS
<1> QED BY <1>1, <1>2, SameTables, AnswerIInv

(* The first label of a handler asks nothing but its kind. *)
Starts(label, kind) ==
  \/ label = "creator" /\ kind = "create"
  \/ label = "assigner" /\ kind = "assign"
  \/ label = "member" /\ kind = "goals"
  \/ label = "author" /\ kind = "give"
  \/ label = "recipient" /\ kind = "feedbacks"
  \/ label = "viewer" /\ kind = "dashboard"
  \/ label \in {"group", "groups"} /\ kind = label

LEMMA ReceiveIInv ==
  ASSUME IInv, NEW c \in Calls, NEW new \in Call, NEW label, Starts(label, new.kind),
         Receive(c, new, label)
  PROVE  IInv'
<1>1. SlotsOK /\ UNCHANGED tables
  BY TypeParts DEF IInv, Receive, tables
<1>2. label \in Labels /\ new # NoCall
  BY DEF Starts, Labels, NoCall
<1>3. SlotsOK' /\ StepOf(c) /\ call'[c] = new /\ pc'[c] = label
  BY <1>1, <1>2, Empties DEF Receive, SlotsOK, StepOf
<1>4. InHandler(c)'
  BY <1>2, <1>3 DEF InHandler, InAssign, InGive, InList, Starts
<1> QED BY <1>1, <1>3, <1>4, SameTables, KeepIInv

-------------------------------------------------------------------------------
(* The actions *)

LEMMA Known ==
  ASSUME IInv, NEW c \in Calls, pc[c] # "idle"
  PROVE  call[c] # NoCall /\ call[c].user \in Users
BY CallType DEF IInv, InHandler

LEMMA RefusalType == ASSUME NEW b \in BOOLEAN PROVE Refusal(b) \in {0, 403, 404} /\ (Refusal(b) = 0 => b)
BY DEF Refusal

LEMMA RolesType ==
  ASSUME NEW u
  PROVE  /\ IsActive(u) \in BOOLEAN /\ IsManager(u) \in BOOLEAN /\ Visible(u) \in BOOLEAN
         /\ IsManager(u) => IsActive(u)
BY DEF IsActive, IsManager, HasRole, Visible

(* The first query of each handler: the caller's row. *)
LEMMA ChecksIInv ==
  ASSUME IInv, NEW c \in Calls,
         \/ CheckCreator(c) \/ CheckAssigner(c) \/ CheckGoalReader(c)
         \/ CheckAuthor(c) \/ CheckRecipient(c) \/ CheckViewer(c)
  PROVE  IInv'
<1>l. /\ {0, 400, 403, 404} \subseteq Codes
      /\ {"create", "goal", "goals", "target", "listing", "page"} \subseteq Labels
  BY DEF Codes, Labels
<1>k. call[c] # NoCall /\ call[c].user \in Users /\ InHandler(c)
  BY Known DEF IInv, CheckCreator, CheckAssigner, CheckGoalReader, CheckAuthor, CheckRecipient,
               CheckViewer, Query
<1>m. \A b \in BOOLEAN : Memory(b, {}, {}) \in Memories
  BY DEF Memory, Memories
<1>1. CASE CheckCreator(c)
  <2>1. PICK code \in Codes : Query(c, "creator", code, "create", Nothing)
    BY <1>1, <1>l, RefusalType, RolesType DEF CheckCreator
  <2>2. ASSUME call' = call, pc[c] = "creator", pc'[c] = "create" PROVE InHandler(c)'
    BY <1>k, <2>2 DEF InHandler, InList
  <2> QED BY <1>k, <1>l, <2>1, <2>2, Empties, QueryIInv
<1>2. CASE CheckAssigner(c)
  <2>1. PICK code \in Codes : Query(c, "assigner", code, "goal", Nothing)
    BY <1>2, <1>l, RefusalType, RolesType DEF CheckAssigner
  <2>2. ASSUME call' = call, pc[c] = "assigner", pc'[c] = "goal" PROVE InHandler(c)'
    BY <1>k, <2>2 DEF InHandler, InList, InAssign
  <2> QED BY <1>k, <1>l, <2>1, <2>2, Empties, QueryIInv
<1>3. CASE CheckGoalReader(c)
  <2>1. PICK code \in Codes : Query(c, "member", code, "goals", Nothing)
    BY <1>3, <1>l, RefusalType, RolesType DEF CheckGoalReader
  <2>2. ASSUME call' = call, pc[c] = "member", pc'[c] = "goals" PROVE InHandler(c)'
    BY <1>k, <2>2 DEF InHandler, InList
  <2> QED BY <1>k, <1>l, <2>1, <2>2, Empties, QueryIInv
<1>4. CASE CheckAuthor(c)
  <2>1. PICK code \in Codes : /\ Query(c, "author", code, "target", Nothing)
                              /\ code = 0 => IsActive(call[c].user)
    BY <1>4, <1>l, RefusalType, RolesType DEF CheckAuthor
  <2>2. IsActive(call[c].user) => EverMember(call[c].user)
    BY <1>k DEF IsActive, EverMember
  <2>3. ASSUME UNCHANGED tables, call' = call, code = 0, pc[c] = "author", pc'[c] = "target"
        PROVE  InHandler(c)'
    <3>1. EverMember(call[c].user)'
      BY <2>1, <2>2, <2>3 DEF EverMember, tables, world
    <3> QED BY <1>k, <2>3, <3>1 DEF InHandler, InList, InGive
  <2> QED BY <1>k, <1>l, <2>1, <2>3, Empties, QueryIInv
<1>5. CASE CheckRecipient(c)
  <2>1. PICK b \in BOOLEAN, code \in Codes :
          Query(c, "recipient", code, "listing", Memory(b, {}, {}))
    <3>1. PICK a \in BOOLEAN :
            Query(c, "recipient", Refusal(a), "listing", Memory(IsManager(call[c].user), {}, {}))
      BY <1>5, RolesType DEF CheckRecipient
    <3> QED BY <1>l, <3>1, RefusalType, RolesType
  <2>2. ASSUME call' = call, pc[c] = "recipient", pc'[c] = "listing" PROVE InHandler(c)'
    BY <1>k, <2>2 DEF InHandler, InList
  <2> QED BY <1>k, <1>l, <1>m, <2>1, <2>2, QueryIInv
<1>6. CASE CheckViewer(c)
  <2>1. PICK b \in BOOLEAN, code \in Codes : Query(c, "viewer", code, "page", Memory(b, {}, {}))
    BY <1>6, <1>l, RefusalType, RolesType DEF CheckViewer
  <2>2. ASSUME call' = call, pc[c] = "viewer", pc'[c] = "page" PROVE InHandler(c)'
    BY <1>k, <2>2 DEF InHandler, InList
  <2> QED BY <1>k, <1>l, <1>m, <2>1, <2>2, QueryIInv
<1> QED BY <1>1, <1>2, <1>3, <1>4, <1>5, <1>6

LEMMA CreateIInv == ASSUME IInv, NEW c \in Calls, CreateGoal(c) PROVE IInv'
<1>1. PICK g \in Goals : goals[g] = "none" /\ goals' = [goals EXCEPT ![g] = "ours"]
  BY DEF CreateGoal
<1>2. Answer(c, 201, {}) /\ UNCHANGED <<world, assigned, feedbacks>> /\ 201 \in Codes
  BY DEF CreateGoal, Answer, Codes
<1>3. TypeOK /\ call[c] # NoCall
  BY Known DEF IInv, CreateGoal
<1>4. \A h \in Goals : goals'[h] = goals[h] \/ (h = g /\ goals'[h] = "ours")
  BY <1>1, <1>3 DEF TypeOK
<1>5. TablesOK' /\ Lasts
  BY <1>1, <1>2, <1>3, <1>4 DEF TypeOK, TablesOK, Lasts, world
<1>6. RowsOK'
  BY <1>2, <1>4 DEF IInv, RowsOK, AssignedOnce, WithinTheGroup, EverMember, world
<1> QED BY <1>2, <1>3, <1>5, <1>6, AnswerIInv

(* The queries of assignGoal. *)
LEMMA AssignReads ==
  ASSUME IInv, NEW c \in Calls, FindGoal(c) \/ FindAssignees(c) \/ FindExisting(c)
  PROVE  IInv'
<1>l. /\ {0, 400, 404, 409} \subseteq Codes
      /\ {"clear", "assignees", "existing", "insert"} \subseteq Labels
  BY DEF Codes, Labels
<1>k. call[c] # NoCall /\ InAssign(c) /\ call[c].goal \in Goals
  BY Known, CallType DEF IInv, InHandler, InAssign, FindGoal, FindAssignees, FindExisting, Query
<1>1. CASE FindGoal(c)
  <2>1. PICK code \in Codes, next \in {"clear", "assignees"} :
          Query(c, "goal", code, next, Nothing) /\ (code = 0 => goals[call[c].goal] = "ours")
    BY <1>1, <1>l DEF FindGoal, OfGroup
  <2>2. ASSUME UNCHANGED tables, call' = call, code = 0, pc'[c] = next PROVE InHandler(c)'
    BY <1>k, <2>1, <2>2 DEF InHandler, InList, InAssign, tables
  <2> QED BY <1>k, <1>l, <2>1, <2>2, Empties, QueryIInv
<1>2. CASE FindAssignees(c)
  <2>1. PICK code \in Codes : /\ Query(c, "assignees", code, "existing", Nothing)
                              /\ code = 0 => \A m \in To(c) : EverMember(m)
    BY <1>2, <1>l DEF FindAssignees, ActiveMember, IsActive, EverMember
  <2>2. ASSUME UNCHANGED tables, call' = call, code = 0, pc[c] = "assignees", pc'[c] = "existing"
        PROVE  InHandler(c)'
    BY <1>k, <2>1, <2>2 DEF InHandler, InList, InAssign, To, EverMember, tables, world
  <2> QED BY <1>k, <1>l, <2>1, <2>2, Empties, QueryIInv
<1>3. CASE FindExisting(c)
  <2>1. PICK code \in Codes : Query(c, "existing", code, "insert", Nothing)
    BY <1>3, <1>l DEF FindExisting
  <2>2. ASSUME UNCHANGED tables, call' = call, pc[c] = "existing", pc'[c] = "insert"
        PROVE  InHandler(c)'
    BY <1>k, <2>2 DEF InHandler, InList, InAssign, To, EverMember, tables, world
  <2> QED BY <1>k, <1>l, <2>1, <2>2, Empties, QueryIInv
<1> QED BY <1>1, <1>2, <1>3

LEMMA ClearIInv == ASSUME IInv, NEW c \in Calls, ClearGoal(c) PROVE IInv'
<1>1. /\ Answer(c, 201, {}) /\ UNCHANGED <<world, goals, feedbacks>> /\ 201 \in Codes
      /\ TypeOK /\ call[c] # NoCall
  BY Known DEF IInv, ClearGoal, Answer, Codes
<1>2. assigned' \in [Goals -> [MemberIds -> Nat]]
  BY <1>1 DEF ClearGoal, TypeOK
<1>3. \A g \in Goals, m \in MemberIds : assigned'[g][m] = assigned[g][m] \/ assigned'[g][m] = 0
  BY <1>1 DEF ClearGoal, TypeOK
<1>4. TablesOK' /\ Lasts
  BY <1>1, <1>2 DEF TypeOK, TablesOK, Lasts, world
<1>5. AssignedOnce'
  BY <1>3 DEF IInv, AssignedOnce
<1>6. WithinTheGroup'
  BY <1>1, <1>3 DEF IInv, WithinTheGroup, EverMember, world
<1> QED BY <1>1, <1>4, <1>5, <1>6, AnswerIInv DEF RowsOK

LEMMA InsertIInv == ASSUME IInv, NEW c \in Calls, InsertAssignees(c) PROVE IInv'
<1>k. /\ TypeOK /\ call[c] # NoCall /\ InAssign(c) /\ pc[c] = "insert"
      /\ call[c].goal \in Goals /\ To(c) \subseteq MemberIds
  BY Known, CallType DEF IInv, InHandler, InAssign, InsertAssignees
<1>1. CASE ~ IndexAllows(call[c].goal, To(c))
  <2>1. UNCHANGED tables /\ Answer(c, 409, {}) /\ 409 \in Codes
    BY <1>1 DEF InsertAssignees, Answer, tables, Codes
  <2> QED BY <1>k, <2>1, SameTables, AnswerIInv
<1>2. CASE IndexAllows(call[c].goal, To(c))
  <2>1. /\ assigned' = [g \in Goals |-> [m \in MemberIds |->
                          IF g = call[c].goal /\ m \in To(c)
                          THEN assigned[g][m] + 1 ELSE assigned[g][m]]]
        /\ pc' = [pc EXCEPT ![c] = "assigned"] /\ UNCHANGED <<call, mem, answer>>
        /\ UNCHANGED <<world, goals, feedbacks>>
    BY <1>2 DEF InsertAssignees
  <2>2. assigned' \in [Goals -> [MemberIds -> Nat]]
    BY <1>k, <2>1 DEF TypeOK
  <2>3. \A g \in Goals, m \in MemberIds :
          \/ assigned'[g][m] = assigned[g][m]
          \/ g = call[c].goal /\ m \in To(c) /\ assigned'[g][m] = 1
    BY <1>2, <1>k, <2>1 DEF IndexAllows, NoneAssigned
  <2>4. goals[call[c].goal] = "ours" /\ \A m \in To(c) : EverMember(m)
    BY <1>k DEF InAssign
  <2>5. TablesOK' /\ Lasts
    BY <1>k, <2>1, <2>2 DEF TypeOK, TablesOK, Lasts, world
  <2>6. AssignedOnce'
    BY <2>3 DEF IInv, AssignedOnce
  <2>7. WithinTheGroup'
    BY <2>1, <2>3, <2>4 DEF IInv, WithinTheGroup, EverMember, world
  <2>8. "assigned" \in Labels /\ pc'[c] = "assigned" /\ SlotsOK' /\ StepOf(c)
    BY <1>k, <2>1 DEF TypeOK, Labels, SlotsOK, StepOf
  <2>9. InHandler(c)'
    BY <1>k, <2>1, <2>8 DEF InHandler, InList, InAssign
  <2> QED BY <2>5, <2>6, <2>7, <2>8, <2>9, KeepIInv DEF RowsOK
<1> QED BY <1>1, <1>2

LEMMA FeedbackReads == ASSUME IInv, NEW c \in Calls, FindTarget(c) \/ FindSession(c) PROVE IInv'
<1>l. {0, 403, 404} \subseteq Codes /\ {"session", "write"} \subseteq Labels
  BY DEF Codes, Labels
<1>k. call[c] # NoCall /\ InGive(c)
  BY Known DEF IInv, InHandler, FindTarget, FindSession, Query
<1>1. CASE FindTarget(c)
  <2>1. PICK code \in Codes, next \in {"session", "write"} :
          /\ Query(c, "target", code, next, Nothing) /\ pc[c] = "target"
          /\ code = 0 => EverMember(call[c].target)
          /\ next = "write" <=> call[c].session = NULL
    BY <1>1, <1>l DEF FindTarget, ActiveMember, IsActive, EverMember, Query
  <2>2. ASSUME UNCHANGED tables, call' = call, code = 0, pc'[c] = next PROVE InHandler(c)'
    BY <1>k, <2>1, <2>2 DEF InHandler, InList, InGive, EverMember, tables, world
  <2> QED BY <1>k, <1>l, <2>1, <2>2, Empties, QueryIInv
<1>2. CASE FindSession(c)
  <2>1. PICK code \in Codes :
          /\ Query(c, "session", code, "write", Nothing) /\ pc[c] = "session"
          /\ code = 0 => OwnerOf[call[c].session] = call[c].target
    BY <1>2, <1>l DEF FindSession, SessionOf, Query
  <2>2. ASSUME UNCHANGED tables, call' = call, code = 0, pc'[c] = "write" PROVE InHandler(c)'
    BY <1>k, <2>1, <2>2 DEF InHandler, InList, InGive, EverMember, tables, world
  <2> QED BY <1>k, <1>l, <2>1, <2>2, Empties, QueryIInv
<1> QED BY <1>1, <1>2

LEMMA GiveIInv == ASSUME IInv, NEW c \in Calls, GiveFeedback(c) PROVE IInv'
<1>k. /\ TypeOK /\ call[c] # NoCall /\ InGive(c) /\ pc[c] = "write" /\ 201 \in Codes
      /\ Answer(c, 201, {}) /\ UNCHANGED <<world, goals, assigned>>
  BY Known DEF IInv, InHandler, GiveFeedback, Answer, Codes
<1>0. PICK row : row = [group |-> "ours", target |-> call[c].target, manager |-> call[c].user,
                       session |-> call[c].session]
  OBVIOUS
<1>1. PICK f \in Feedbacks : feedbacks' = [feedbacks EXCEPT ![f] = row]
  BY <1>0 DEF GiveFeedback
<1>2. /\ EverMember(call[c].target) /\ EverMember(call[c].user)
      /\ call[c].session # NULL => OwnerOf[call[c].session] = call[c].target
  BY <1>k DEF InGive
<1>3. row \in Feedback
  BY <1>0, <1>k, CallType DEF Feedback, InGive, MemberIds
<1>4. \A h \in Feedbacks : feedbacks'[h] = feedbacks[h] \/ feedbacks'[h] = row
  BY <1>k, <1>1 DEF TypeOK
<1>5. TablesOK' /\ Lasts
  BY <1>k, <1>1, <1>3 DEF TypeOK, TablesOK, Lasts, world
<1>6. AssignedOnce'
  BY <1>k DEF IInv, AssignedOnce
<1>7. WithinTheGroup'
  BY <1>0, <1>k, <1>1, <1>2, <1>4 DEF IInv, WithinTheGroup, EverMember, world
<1> QED BY <1>k, <1>5, <1>6, <1>7, AnswerIInv DEF RowsOK

(* The pages of getGoals and getDashboard and what is loaded with them.    *)
LEMMA PagesIInv ==
  ASSUME IInv, NEW c \in Calls, PageOfGoals(c) \/ PageOfMembers(c) \/ ReadSettings(c)
  PROVE  IInv'
<1>l. 0 \in Codes /\ {"loading", "settings", "sessions"} \subseteq Labels
  BY DEF Codes, Labels
<1>k. call[c] # NoCall /\ InList(c) /\ InHandler(c) /\ mem[c] \in Memories
  BY Known DEF IInv, TypeOK, InHandler, PageOfGoals, PageOfMembers, ReadSettings, Query
<1>m. ASSUME NEW b \in BOOLEAN, NEW rows \in SUBSET (Users \cup Goals), NEW open \in SUBSET Users
      PROVE  Memory(b, rows, open) \in Memories /\ Memory(b, rows, open).rows = rows
  BY DEF Memory, Memories
<1>b. mem[c].manager \in BOOLEAN /\ mem[c].rows \subseteq Users \cup Goals
  BY <1>k DEF Memories
<1>1. CASE PageOfGoals(c)
  <2>1. PICK rows \in SUBSET Goals : Query(c, "goals", 0, "loading", Memory(FALSE, rows, {}))
    <3>1. {g \in Goals : OfGroup(g)} \in SUBSET Goals
      OBVIOUS
    <3> QED BY <1>1, <3>1 DEF PageOfGoals
  <2>0. /\ pc[c] = "goals" /\ Memory(FALSE, rows, {}).rows = rows
        /\ Memory(FALSE, rows, {}) \in Memories
    BY <2>1, <1>m DEF Query
  <2>2. ASSUME call' = call, pc'[c] = "loading", mem'[c] = Memory(FALSE, rows, {})
        PROVE  InHandler(c)'
    BY <1>k, <2>0, <2>2 DEF InHandler, InList
  <2> QED BY <1>k, <1>l, <2>0, <2>1, <2>2, QueryIInv
<1>2. CASE PageOfMembers(c)
  <2>1. PICK rows \in SUBSET Users :
          Query(c, "page", 0, "settings", Memory(mem[c].manager, rows, {})) /\ pc[c] = "page"
    BY <1>2 DEF PageOfMembers, memberWhere, Query
  <2>2. ASSUME call' = call, pc'[c] = "settings", mem'[c] = Memory(mem[c].manager, rows, {})
        PROVE  InHandler(c)'
    BY <1>k, <1>m, <1>b, <2>1, <2>2 DEF InHandler, InList
  <2> QED BY <1>k, <1>l, <1>m, <1>b, <2>1, <2>2, QueryIInv
<1>3. CASE ReadSettings(c)
  <2>1. PICK open \in SUBSET Users :
          /\ Query(c, "settings", 0, "sessions", Memory(mem[c].manager, mem[c].rows, open))
          /\ pc[c] = "settings"
    BY <1>3 DEF ReadSettings, Query, IInv, TypeOK
  <2>2. ASSUME call' = call, pc'[c] = "sessions",
               mem'[c] = Memory(mem[c].manager, mem[c].rows, open)
        PROVE  InHandler(c)'
    BY <1>k, <1>m, <1>b, <2>1, <2>2 DEF InHandler, InList
  <2> QED BY <1>k, <1>l, <1>m, <1>b, <2>1, <2>2, QueryIInv
<1> QED BY <1>1, <1>2, <1>3

(* The answers. *)
LEMMA AnswersIInv ==
  ASSUME IInv, NEW c \in Calls,
         \/ AnswerAssigned(c) \/ LoadAssignees(c) \/ ListFeedbacks(c) \/ ReadSessions(c)
         \/ getGroup(c) \/ getMyGroups(c) \/ Fail(c)
  PROVE  IInv'
<1>k. call[c] # NoCall /\ call[c].user \in Users /\ InList(c)
  BY Known DEF IInv, InHandler, Free, AnswerAssigned, LoadAssignees, ListFeedbacks, ReadSessions,
               getGroup, getMyGroups, Fail, List
<1>l. {200, 201, 403, 404, 500} \subseteq Codes
  BY DEF Codes
<1>1. CASE AnswerAssigned(c)
  BY <1>1, <1>k, <1>l, PlainIInv DEF AnswerAssigned
<1>2. CASE LoadAssignees(c)
  <2>1. PICK items : /\ items = {[goal |-> g, mine |-> isAssignedToMe(g, call[c].user)] :
                                 g \in mem[c].rows}
                     /\ List(c, "loading", items)
    BY <1>2 DEF LoadAssignees
  <2>2. mem[c].rows \subseteq Goals
    BY <1>k, <2>1 DEF InList, List
  <2>3. \A g : isAssignedToMe(g, call[c].user) \in BOOLEAN
    BY DEF isAssignedToMe
  <2>4. items \subseteq Items
    BY <2>1, <2>2, <2>3 DEF Items
  <2> QED BY <1>k, <2>1, <2>4, ListIInv
<1>3. CASE ListFeedbacks(c)
  <2>1. PICK S \in SUBSET Feedbacks : List(c, "listing", {[feedback |-> f] : f \in S})
    BY <1>3 DEF ListFeedbacks
  <2>2. {[feedback |-> f] : f \in S} \subseteq Items
    BY DEF Items
  <2> QED BY <1>k, <2>1, <2>2, ListIInv
<1>4. CASE ReadSessions(c)
  <2>1. PICK items : /\ items = {[user |-> u, stats |-> sharingUserIds(c, u)] : u \in mem[c].rows}
                     /\ List(c, "sessions", items)
    BY <1>4 DEF ReadSessions
  <2>2. mem[c].rows \subseteq Users
    BY <1>k, <2>1 DEF InList, List
  <2>3. \A u : sharingUserIds(c, u) \in BOOLEAN
    BY DEF sharingUserIds
  <2>4. items \subseteq Items
    BY <2>1, <2>2, <2>3 DEF Items
  <2> QED BY <1>k, <2>1, <2>4, ListIInv
<1>5. CASE getGroup(c)
  <2>1. PICK refused \in {0, 403, 404} :
          /\ Answer(c, IF refused = 0 THEN 200 ELSE refused, {})
          /\ UNCHANGED <<goals, assigned, feedbacks>>
    BY <1>5, RefusalType, RolesType DEF getGroup
  <2>2. (IF refused = 0 THEN 200 ELSE refused) \in Codes
    BY <1>l
  <2> QED BY <1>k, <2>1, <2>2, PlainIInv
<1>6. CASE getMyGroups(c)
  <2>1. PICK S \in SUBSET {call[c].user} : List(c, "groups", {[role |-> members[u].role] : u \in S})
    BY <1>6 DEF getMyGroups
  <2>2. \A u \in Users : members[u].role \in Roles
    BY DEF IInv, TypeOK, Member
  <2>3. {[role |-> members[u].role] : u \in S} \subseteq Items
    BY <1>k, <2>2 DEF Items
  <2> QED BY <1>k, <2>1, <2>3, ListIInv
<1>7. CASE Fail(c)
  BY <1>7, <1>k, <1>l, PlainIInv DEF Fail
<1> QED BY <1>1, <1>2, <1>3, <1>4, <1>5, <1>6, <1>7

LEMMA ReceivesIInv == ASSUME IInv, NEW c \in Calls, Requests(c) PROVE IInv'
<1>1. PICK new, label : new \in Call /\ Starts(label, new.kind) /\ Receive(c, new, label)
  <2>1. CASE ReceiveCreate(c)
    BY <2>1 DEF ReceiveCreate, Starts, Call
  <2>2. CASE ReceiveAssign(c)
    BY <2>2 DEF ReceiveAssign, Starts, Call
  <2>3. CASE ReceiveGoals(c)
    BY <2>3 DEF ReceiveGoals, Starts, Call
  <2>4. CASE ReceiveGive(c)
    BY <2>4 DEF ReceiveGive, Starts, Call
  <2>5. CASE ReceiveFeedbacks(c)
    BY <2>5 DEF ReceiveFeedbacks, Starts, Call
  <2>6. CASE ReceiveDashboard(c)
    BY <2>6 DEF ReceiveDashboard, Starts, Call
  <2>7. CASE ReceiveView(c)
    BY <2>7 DEF ReceiveView, Starts, Call
  <2> QED BY <2>1, <2>2, <2>3, <2>4, <2>5, <2>6, <2>7 DEF Requests
<1> QED BY <1>1, ReceiveIInv

(* Steps of other handlers and other groups: no slot moves. *)
LEMMA ElsewhereIInv ==
  ASSUME IInv, TablesOK', Lasts, UNCHANGED <<assigned, slots>>,
         \A f \in Feedbacks : feedbacks'[f] = feedbacks[f] \/ feedbacks'[f].group = "theirs"
  PROVE  IInv'
<1>1. TypeOK'
  BY DEF IInv, TypeOK, TablesOK, slots
<1>2. \A d \in Calls : InHandler(d)'
  BY HandlerLasts DEF IInv, slots
<1>3. AssignedOnce'
  BY DEF IInv, AssignedOnce
<1>4. WithinTheGroup'
  BY DEF IInv, WithinTheGroup, EverMember, Lasts
<1> QED BY <1>1, <1>2, <1>3, <1>4 DEF IInv

LEMMA StepIInv == IInv /\ [Next]_vars => IInv'
<1> SUFFICES ASSUME IInv, [Next]_vars PROVE IInv'
  OBVIOUS
<1>t. TypeOK
  BY DEF IInv
<1>1. ASSUME NEW c \in Calls, Handle(c) PROVE IInv'
  BY <1>1, ChecksIInv, CreateIInv, AssignReads, ClearIInv, InsertIInv, FeedbackReads, GiveIInv,
     PagesIInv, AnswersIInv DEF Handle
<1>2. ASSUME NEW u \in Users, NEW role \in Ranks, NEW status \in {"ACTIVE", "REMOVED"},
             ChangeMember(u, role, status)
      PROVE  IInv'
  <2>1. [role |-> role, status |-> status] \in Member
    BY DEF Member, Roles
  <2>2. /\ members' \in [Users -> Member]
        /\ \A v \in Users : members[v].status # "NONE" => members'[v].status # "NONE"
    BY <1>t, <1>2, <2>1 DEF ChangeMember, TypeOK
  <2> QED BY <1>t, <1>2, <2>2, ElsewhereIInv DEF ChangeMember, TypeOK, TablesOK, Lasts
<1>3. ASSUME NEW u \in Sharers, SetSharing(u) PROVE IInv'
  BY <1>t, <1>3, ElsewhereIInv DEF SetSharing, TypeOK, TablesOK, Lasts
<1>4. ASSUME NEW x \in Sessions, StartSession(x) PROVE IInv'
  BY <1>t, <1>4, ElsewhereIInv DEF StartSession, TypeOK, TablesOK, Lasts
<1>5. ASSUME NEW g \in Goals, GoalOfOthers(g) PROVE IInv'
  <2>1. \A h \in Goals : goals[h] = "ours" => goals'[h] = "ours"
    BY <1>t, <1>5 DEF GoalOfOthers, TypeOK
  <2> QED BY <1>t, <1>5, <2>1, ElsewhereIInv DEF GoalOfOthers, TypeOK, TablesOK, Lasts, world
<1>6. ASSUME NEW f \in Feedbacks, FeedbackOfOthers(f) PROVE IInv'
  <2>0. PICK row : row = [group |-> "theirs", target |-> Stranger, manager |-> Stranger,
                          session |-> NULL]
    OBVIOUS
  <2>1. /\ feedbacks' = [feedbacks EXCEPT ![f] = row]
        /\ row.group = "theirs" /\ row \in Feedback
    BY <1>6, <2>0 DEF FeedbackOfOthers, Feedback, MemberIds
  <2>2. \A h \in Feedbacks : feedbacks'[h] = feedbacks[h] \/ feedbacks'[h].group = "theirs"
    BY <1>t, <2>1 DEF TypeOK
  <2> QED BY <1>t, <1>6, <2>1, <2>2, ElsewhereIInv DEF FeedbackOfOthers, TypeOK, TablesOK, Lasts, world
<1>7. CASE UNCHANGED vars
  BY <1>t, <1>7, ElsewhereIInv DEF vars, slots, TypeOK, TablesOK, Lasts
<1> QED BY <1>1, <1>2, <1>3, <1>4, <1>5, <1>6, <1>7, ReceivesIInv DEF Next, Elsewhere

-------------------------------------------------------------------------------
(* The inductive invariant of goals, assignees, feedback and handlers. *)
THEOREM Invariant == Spec => []IInv
<1>1. Init => IInv
  BY InitIInv
<1>2. IInv /\ [Next]_vars => IInv'
  BY StepIInv
<1> QED BY <1>1, <1>2, PTL DEF Spec

(* However many managers assign a goal at once, a member has it once. *)
THEOREM Once == Spec => []AssignedOnce
<1>1. IInv => AssignedOnce
  BY DEF IInv
<1> QED BY <1>1, Invariant, PTL

(* Only the group's own goals are assigned and only to its members, and    *)
(* feedback is about a session of the member it is for, whatever becomes   *)
(* of the members between the queries of a handler.                        *)
THEOREM Within == Spec => []WithinTheGroup
<1>1. IInv => WithinTheGroup
  BY DEF IInv
<1> QED BY <1>1, Invariant, PTL

-------------------------------------------------------------------------------
(* What was in force while a call ran *)

(* The slot c knows at least what it knew. *)
Grows(c) == /\ past[c].managed => past'[c].managed
            /\ past[c].belonged => past'[c].belonged
            /\ past[c].active \subseteq past'[c].active
            /\ past[c].open \subseteq past'[c].open

LEMMA PastOf ==
  ASSUME past \in [Calls -> Pasts], NEW c \in Calls
  PROVE  /\ past[c] = [managed |-> past[c].managed, belonged |-> past[c].belonged,
                       active |-> past[c].active, open |-> past[c].open,
                       cleared |-> past[c].cleared]
         /\ past[c].managed \in BOOLEAN /\ past[c].belonged \in BOOLEAN
         /\ past[c].cleared \in BOOLEAN
BY DEF Pasts

(* A slot that runs learns what is in force. *)
LEMMA RunningLearns ==
  ASSUME past \in [Calls -> Pasts], HistoryNext, NEW c \in Calls, pc[c] \notin Free
  PROVE  /\ Grows(c)
         /\ IsManager(call[c].user) => past'[c].managed
         /\ IsActive(call[c].user) => past'[c].belonged
         /\ \A u \in Users : IsActive(u) => u \in past'[c].active
         /\ sharing \subseteq past'[c].open
<1>1. past'[c] = [Record(c, past[c]) EXCEPT !.cleared = @ \/ Cleared(c)]
  BY DEF HistoryNext
<1>2. PICK r : r = Record(c, past[c])
  OBVIOUS
<1>3. past'[c] = [r EXCEPT !.cleared = @ \/ Cleared(c)]
  BY <1>1, <1>2
<1>4. /\ r.managed = (past[c].managed \/ IsManager(call[c].user))
      /\ r.belonged = (past[c].belonged \/ IsActive(call[c].user))
      /\ r.active = past[c].active \cup {v \in Users : IsActive(v)}
      /\ r.open = past[c].open \cup sharing
      /\ DOMAIN r = {"managed", "belonged", "active", "open", "cleared"}
  BY <1>2 DEF Record
<1>5. /\ past'[c].managed = r.managed /\ past'[c].belonged = r.belonged
      /\ past'[c].active = r.active /\ past'[c].open = r.open
  BY <1>3, <1>4
<1> QED BY <1>4, <1>5 DEF Grows

(* A slot that stays as it is forgets nothing. *)
LEMMA RestingKnows ==
  ASSUME past \in [Calls -> Pasts], HistoryNext, NEW c \in Calls, pc'[c] = pc[c]
  PROVE  Grows(c)
<1>1. CASE pc[c] \notin Free
  BY <1>1, RunningLearns
<1>2. CASE pc[c] \in Free
  <2>1. past'[c] = [past[c] EXCEPT !.cleared = @ \/ Cleared(c)]
    BY <1>2 DEF HistoryNext
  <2> QED BY <2>1, PastOf DEF Grows
<1> QED BY <1>1, <1>2

LEMMA ClearedLasts ==
  ASSUME past \in [Calls -> Pasts], HistoryNext, NEW c \in Calls,
         pc[c] \notin Free \/ pc'[c] \in Free, past[c].cleared \/ Cleared(c)
  PROVE  past'[c].cleared
<1>1. CASE pc[c] \notin Free
  <2>1. PICK r : r = Record(c, past[c])
    OBVIOUS
  <2>2. past'[c] = [r EXCEPT !.cleared = r.cleared \/ Cleared(c)]
    BY <1>1, <2>1 DEF HistoryNext
  <2>3. "cleared" \in DOMAIN r /\ r.cleared = past[c].cleared
    BY <2>1 DEF Record
  <2>4. past'[c].cleared = (r.cleared \/ Cleared(c))
    BY <2>2, <2>3
  <2> QED BY <2>3, <2>4, PastOf
<1>2. CASE pc[c] \in Free
  <2>1. past'[c] = [past[c] EXCEPT !.cleared = past[c].cleared \/ Cleared(c)]
    BY <1>2 DEF HistoryNext
  <2>2. past'[c].cleared = (past[c].cleared \/ Cleared(c))
    BY <2>1, PastOf
  <2> QED BY <2>2, PastOf
<1> QED BY <1>1, <1>2

LEMMA PastType ==
  ASSUME TypeOK, past \in [Calls -> Pasts], HistoryNext
  PROVE  past' \in [Calls -> Pasts]
<1>1. ASSUME NEW p \in Pasts, NEW b \in BOOLEAN PROVE [p EXCEPT !.cleared = b] \in Pasts
  BY DEF Pasts
<1>2. \A c : Cleared(c) \in BOOLEAN
  BY DEF Cleared
<1>3. ASSUME NEW c \in Calls, NEW p \in Pasts PROVE Record(c, p) \in Pasts
  <2>1. /\ (p.managed \/ IsManager(call[c].user)) \in BOOLEAN
        /\ (p.belonged \/ IsActive(call[c].user)) \in BOOLEAN
    BY DEF IsManager, HasRole, IsActive, Pasts
  <2> QED BY <2>1 DEF Record, Pasts, TypeOK
<1>4. Unknown \in Pasts
  BY DEF Unknown, Pasts
<1>5. ASSUME NEW c \in Calls
      PROVE  (IF pc[c] \in Free /\ pc'[c] \notin Free THEN Unknown
              ELSE LET p == IF pc[c] \notin Free THEN Record(c, past[c]) ELSE past[c]
                   IN  [p EXCEPT !.cleared = p.cleared \/ Cleared(c)]) \in Pasts
  <2>1. PICK p \in Pasts : p = IF pc[c] \notin Free THEN Record(c, past[c]) ELSE past[c]
    BY <1>3
  <2>2. (p.cleared \/ Cleared(c)) \in BOOLEAN
    BY <1>2 DEF Pasts
  <2>3. [p EXCEPT !.cleared = p.cleared \/ Cleared(c)] \in Pasts
    BY <1>1, <2>2
  <2> QED BY <1>4, <2>1, <2>3
<1> QED BY <1>5 DEF HistoryNext

(* Rows a reader has found stay what they are. *)
RowsKept == /\ \A g \in Goals : goals[g] = "ours" => goals'[g] = "ours"
            /\ \A f \in Feedbacks : feedbacks[f].group = "ours" => feedbacks'[f] = feedbacks[f]

(* A slot that does nothing has seen what it had seen. *)
LEMMA SeenLasts ==
  ASSUME TypeOK, NEW d \in Calls, InHandler(d), Seen(d), Grows(d), RowsKept,
         call'[d] = call[d], pc'[d] = pc[d], mem'[d] = mem[d], answer'[d] = answer[d]
  PROVE  Seen(d)'
<1>1. /\ pc'[d] \in Managing => past'[d].managed
      /\ pc'[d] \in Reading => past'[d].belonged
      /\ pc'[d] \in {"listing", "page", "settings", "sessions"} =>
           (mem'[d].manager => past'[d].managed)
  BY DEF Seen, Grows
<1>2. ASSUME pc[d] \in {"settings", "sessions"}, NEW u \in mem[d].rows
      PROVE  u \in past'[d].active /\ (past'[d].managed \/ u = call[d].user)
  BY <1>2 DEF Seen, Grows
<1>3. pc'[d] = "sessions" => mem'[d].open \subseteq past'[d].open
  BY DEF Seen, Grows
<1>4. ASSUME pc[d] = "loading", NEW g \in mem[d].rows PROVE goals'[g] = "ours"
  BY <1>4 DEF Seen, RowsKept, InHandler, InList
<1>5. ASSUME pc[d] = "done" PROVE RoleAllowed(d)'
  <2>1. RoleAllowed(d)
    BY <1>5 DEF Seen
  <2>2. /\ answer[d].code = 201 => past'[d].managed
        /\ answer[d].items # {} => past'[d].belonged
    BY <2>1 DEF RoleAllowed, Grows
  <2>3. ASSUME NEW i \in answer[d].items, call[d].kind = "dashboard"
        PROVE  i.user \in past'[d].active /\ (past'[d].managed \/ i.user = call[d].user)
    BY <2>1, <2>3 DEF RoleAllowed, Grows
  <2>4. ASSUME NEW i \in answer[d].items, call[d].kind = "feedbacks"
        PROVE  /\ feedbacks'[i.feedback].group = "ours"
               /\ past'[d].managed \/ feedbacks'[i.feedback].target = call[d].user
    <3>1. /\ i.feedback \in Feedbacks /\ feedbacks[i.feedback].group = "ours"
          /\ past[d].managed \/ feedbacks[i.feedback].target = call[d].user
      BY <1>5, <2>1, <2>4 DEF Seen, RoleAllowed
    <3> QED BY <3>1 DEF RowsKept, Grows
  <2>5. ASSUME NEW i \in answer[d].items, call[d].kind = "goals" PROVE goals'[i.goal] = "ours"
    BY <1>5, <2>1, <2>5 DEF Seen, RoleAllowed, RowsKept
  <2> QED BY <2>2, <2>3, <2>4, <2>5 DEF RoleAllowed
<1>6. ASSUME pc[d] = "done" PROVE CountsShared(d)'
  BY <1>6 DEF Seen, CountsShared, Grows
<1>7. pc[d] = "done" => \A i \in answer[d].items :
                          /\ call[d].kind = "feedbacks" => i.feedback \in Feedbacks
                          /\ call[d].kind = "goals" => i.goal \in Goals
  BY DEF Seen
<1> QED BY <1>1, <1>2, <1>3, <1>4, <1>5, <1>6, <1>7 DEF Seen

-------------------------------------------------------------------------------
(* What the slot that moves has seen *)

(* An answer without items asks nothing but the role of who writes. *)
LEMMA PlainSeen ==
  ASSUME TypeOK, NEW c \in Calls, NEW code, Answer(c, code, {}), code = 201 => past'[c].managed
  PROVE  Seen(c)'
<1>1. pc'[c] = "done" /\ answer'[c].code = code /\ answer'[c].items = {}
  BY DEF TypeOK, Answer
<1>2. RoleAllowed(c)' /\ CountsShared(c)'
  BY <1>1 DEF RoleAllowed, CountsShared
<1> QED BY <1>1, <1>2 DEF Seen, Managing, Reading

LEMMA QuerySeen ==
  ASSUME HInv, HistoryNext, NEW c \in Calls, NEW label, label \notin Free, NEW code, code # 201,
         NEW next, NEW memory, Query(c, label, code, next, memory)
  PROVE  \/ Seen(c)'
         \/ /\ code = 0 /\ UNCHANGED tables /\ call' = call /\ pc[c] = label
            /\ pc'[c] = next /\ mem'[c] = memory /\ Grows(c)
<1>1. TypeOK /\ pc[c] = label /\ past \in [Calls -> Pasts]
  BY DEF HInv, IInv, Query
<1>2. CASE code # 0
  BY <1>1, <1>2, PlainSeen DEF Query
<1>3. CASE code = 0
  BY <1>1, <1>3, RunningLearns DEF Query, TypeOK, tables
<1> QED BY <1>2, <1>3

LEMMA RequestStarts ==
  ASSUME NEW c, Requests(c)
  PROVE  \E new, label : Starts(label, new.kind) /\ Receive(c, new, label)
<1>1. ReceiveCreate(c) \/ ReceiveAssign(c) \/ ReceiveGoals(c) =>
        \E new, label : Starts(label, new.kind) /\ Receive(c, new, label)
  BY DEF ReceiveCreate, ReceiveAssign, ReceiveGoals, Starts
<1>2. ReceiveGive(c) \/ ReceiveFeedbacks(c) =>
        \E new, label : Starts(label, new.kind) /\ Receive(c, new, label)
  BY DEF ReceiveGive, ReceiveFeedbacks, Starts
<1>3. ReceiveDashboard(c) \/ ReceiveView(c) =>
        \E new, label : Starts(label, new.kind) /\ Receive(c, new, label)
  BY DEF ReceiveDashboard, ReceiveView, Starts
<1> QED BY <1>1, <1>2, <1>3 DEF Requests

LEMMA RequestSeen == ASSUME HInv, NEW c \in Calls, Requests(c) PROVE Seen(c)'
<1>1. PICK new, label : Starts(label, new.kind) /\ Receive(c, new, label)
  BY RequestStarts
<1>2. pc'[c] = label
  BY <1>1 DEF Receive, HInv, IInv, TypeOK
<1> QED BY <1>1, <1>2 DEF Seen, Starts, Managing, Reading

LEMMA ChecksSeen ==
  ASSUME HInv, HistoryNext, NEW c \in Calls,
         \/ CheckCreator(c) \/ CheckAssigner(c) \/ CheckGoalReader(c)
         \/ CheckAuthor(c) \/ CheckRecipient(c) \/ CheckViewer(c)
  PROVE  Seen(c)'
<1>l. /\ "creator" \notin Free /\ "assigner" \notin Free /\ "member" \notin Free
      /\ "author" \notin Free /\ "recipient" \notin Free /\ "viewer" \notin Free
  BY DEF Free
<1>k. pc[c] \notin Free /\ past \in [Calls -> Pasts]
  BY <1>l DEF HInv, CheckCreator, CheckAssigner, CheckGoalReader, CheckAuthor, CheckRecipient,
              CheckViewer, Query
<1>1. ASSUME NEW label, label \notin Free, NEW code \in {0, 400, 403, 404},
             NEW next \in {"create", "goal", "target"},
             Query(c, label, code, next, Nothing), code = 0 => IsManager(call[c].user)
      PROVE  Seen(c)'
  <2>1. ASSUME pc'[c] = next, code = 0 PROVE Seen(c)'
    <3>1. past'[c].managed
      BY <1>k, <1>1, <2>1, RunningLearns
    <3> QED BY <2>1, <3>1 DEF Seen, Managing, Reading
  <2> QED BY <1>1, <2>1, QuerySeen
<1>2. CASE CheckCreator(c)
  <2>1. PICK code \in {0, 400, 403, 404} : /\ Query(c, "creator", code, "create", Nothing)
                                           /\ code = 0 => IsManager(call[c].user)
    BY <1>2, RefusalType, RolesType DEF CheckCreator
  <2> QED BY <1>l, <1>1, <2>1
<1>3. CASE CheckAssigner(c)
  <2>1. PICK code \in {0, 400, 403, 404} : /\ Query(c, "assigner", code, "goal", Nothing)
                                           /\ code = 0 => IsManager(call[c].user)
    BY <1>3, RefusalType, RolesType DEF CheckAssigner
  <2> QED BY <1>l, <1>1, <2>1
<1>4. CASE CheckAuthor(c)
  <2>1. PICK code \in {0, 400, 403, 404} : /\ Query(c, "author", code, "target", Nothing)
                                           /\ code = 0 => IsManager(call[c].user)
    BY <1>4, RefusalType, RolesType DEF CheckAuthor
  <2> QED BY <1>l, <1>1, <2>1
<1>5. ASSUME NEW label, label \notin Free, NEW code \in {0, 403, 404}, NEW b \in BOOLEAN,
             NEW next \in {"goals", "listing", "page"},
             Query(c, label, code, next, Memory(b, {}, {})),
             code = 0 => IsActive(call[c].user), b => IsManager(call[c].user)
      PROVE  Seen(c)'
  <2>1. ASSUME pc'[c] = next, mem'[c] = Memory(b, {}, {}), code = 0 PROVE Seen(c)'
    <3>1. past'[c].belonged /\ (b => past'[c].managed) /\ mem'[c].manager = b
      BY <1>k, <1>5, <2>1, RunningLearns DEF Memory
    <3> QED BY <2>1, <3>1 DEF Seen, Managing, Reading
  <2> QED BY <1>5, <2>1, QuerySeen
<1>6. CASE CheckGoalReader(c)
  <2>1. PICK code \in {0, 403, 404} : /\ Query(c, "member", code, "goals", Nothing)
                                      /\ code = 0 => IsActive(call[c].user)
    BY <1>6, RefusalType, RolesType DEF CheckGoalReader
  <2>2. PICK b \in BOOLEAN : ~ b /\ Nothing = Memory(b, {}, {})
    BY DEF Nothing, Memory
  <2> QED BY <1>l, <1>5, <2>1, <2>2
<1>7. CASE CheckRecipient(c)
  <2>1. PICK allowed \in BOOLEAN :
          /\ allowed => IsActive(call[c].user)
          /\ Query(c, "recipient", Refusal(allowed), "listing",
                   Memory(IsManager(call[c].user), {}, {}))
    BY <1>7, RolesType DEF CheckRecipient
  <2>2. PICK b \in BOOLEAN : b = IsManager(call[c].user)
    BY RolesType
  <2>3. PICK code \in {0, 403, 404} : /\ code = Refusal(allowed)
                                      /\ code = 0 => IsActive(call[c].user)
    BY <2>1, RefusalType
  <2>4. Query(c, "recipient", code, "listing", Memory(b, {}, {}))
    BY <2>1, <2>2, <2>3
  <2> QED BY <1>l, <1>5, <2>2, <2>3, <2>4
<1>8. CASE CheckViewer(c)
  <2>1. PICK b \in BOOLEAN : b = IsManager(call[c].user)
    BY RolesType
  <2>2. PICK code \in {0, 403, 404} : /\ code = Refusal(IsActive(call[c].user))
                                      /\ code = 0 => IsActive(call[c].user)
    BY RefusalType, RolesType
  <2>3. Query(c, "viewer", code, "page", Memory(b, {}, {}))
    BY <1>8, <2>1, <2>2 DEF CheckViewer
  <2> QED BY <1>l, <1>5, <2>1, <2>2, <2>3
<1> QED BY <1>2, <1>3, <1>4, <1>6, <1>7, <1>8

(* A manager's call goes on as one. *)
LEMMA ManagingSeen ==
  ASSUME HInv, HistoryNext, NEW c \in Calls,
         FindGoal(c) \/ FindAssignees(c) \/ FindExisting(c) \/ FindTarget(c) \/ FindSession(c)
  PROVE  Seen(c)'
<1>1. PICK label \in {"goal", "assignees", "existing", "target", "session"},
           code \in {0, 400, 403, 404, 409},
           next \in {"clear", "assignees", "existing", "insert", "session", "write"} :
        Query(c, label, code, next, Nothing)
  <2>1. CASE FindGoal(c)
    <3>1. PICK code \in {0, 400, 404}, next \in {"clear", "assignees"} :
            Query(c, "goal", code, next, Nothing)
      BY <2>1 DEF FindGoal
    <3> QED BY <3>1
  <2>2. CASE FindAssignees(c)
    <3>1. PICK code \in {0, 400} : Query(c, "assignees", code, "existing", Nothing)
      BY <2>2 DEF FindAssignees
    <3> QED BY <3>1
  <2>3. CASE FindExisting(c)
    <3>1. PICK code \in {0, 409} : Query(c, "existing", code, "insert", Nothing)
      BY <2>3 DEF FindExisting
    <3> QED BY <3>1
  <2>4. CASE FindTarget(c)
    <3>1. PICK code \in {0, 403}, next \in {"session", "write"} :
            Query(c, "target", code, next, Nothing)
      BY <2>4 DEF FindTarget
    <3> QED BY <3>1
  <2>5. CASE FindSession(c)
    <3>1. PICK code \in {0, 403, 404} : Query(c, "session", code, "write", Nothing)
      BY <2>5 DEF FindSession
    <3> QED BY <3>1
  <2> QED BY <2>1, <2>2, <2>3, <2>4, <2>5
<1>2. label \in Managing /\ label \notin Free /\ next \in Managing /\ next # "done"
      /\ next \notin Reading /\ code # 201
  BY DEF Managing, Reading, Free
<1>3. ASSUME pc[c] = label, pc'[c] = next, Grows(c) PROVE Seen(c)'
  <2>1. past'[c].managed
    BY <1>2, <1>3 DEF HInv, Seen, Grows
  <2> QED BY <1>2, <1>3, <2>1 DEF Seen, Reading
<1> QED BY <1>1, <1>2, <1>3, QuerySeen

LEMMA WritesSeen ==
  ASSUME HInv, HistoryNext, NEW c \in Calls,
         CreateGoal(c) \/ ClearGoal(c) \/ InsertAssignees(c) \/ AnswerAssigned(c) \/ GiveFeedback(c)
  PROVE  Seen(c)'
<1>1. TypeOK /\ past \in [Calls -> Pasts] /\ pc[c] \in Managing /\ pc[c] \notin Free
  BY DEF HInv, IInv, CreateGoal, ClearGoal, InsertAssignees, AnswerAssigned, GiveFeedback,
         Managing, Free
<1>2. past'[c].managed
  BY <1>1, RunningLearns DEF HInv, Seen, Grows
<1>3. CASE \E code : Answer(c, code, {})
  BY <1>1, <1>2, <1>3, PlainSeen
<1>4. CASE pc' = [pc EXCEPT ![c] = "assigned"]
  <2>1. pc'[c] = "assigned"
    BY <1>1, <1>4 DEF TypeOK
  <2> QED BY <1>2, <2>1 DEF Seen, Reading
<1> QED BY <1>3, <1>4 DEF CreateGoal, ClearGoal, InsertAssignees, AnswerAssigned, GiveFeedback

LEMMA PagesSeen ==
  ASSUME HInv, HistoryNext, NEW c \in Calls, PageOfGoals(c) \/ PageOfMembers(c) \/ ReadSettings(c)
  PROVE  Seen(c)'
<1>l. "goals" \notin Free /\ "page" \notin Free /\ "settings" \notin Free
  BY DEF Free
<1>t. TypeOK /\ past \in [Calls -> Pasts] /\ pc[c] \in Reading /\ Seen(c) /\ pc[c] \notin Free
  BY <1>l DEF HInv, IInv, PageOfGoals, PageOfMembers, ReadSettings, Query, Reading
<1>b. past'[c].belonged /\ (past[c].managed => past'[c].managed)
  BY <1>t, RunningLearns DEF Seen, Grows
<1>m. ASSUME NEW b, NEW rows, NEW open
      PROVE  /\ Memory(b, rows, open).manager = b /\ Memory(b, rows, open).rows = rows
             /\ Memory(b, rows, open).open = open
  BY DEF Memory
<1>1. CASE PageOfGoals(c)
  <2>0. PICK rows, m : rows = {g \in Goals : OfGroup(g)} /\ m = Memory(FALSE, rows, {})
    OBVIOUS
  <2>1. /\ Query(c, "goals", 0, "loading", m) /\ m.rows = rows
        /\ \A g \in rows : g \in Goals /\ goals[g] = "ours"
    BY <1>1, <2>0 DEF PageOfGoals, OfGroup, Memory
  <2>2. ASSUME UNCHANGED tables, pc'[c] = "loading", mem'[c] = m
        PROVE  Seen(c)'
    <3>1. mem'[c].rows = rows
      BY <2>1, <2>2
    <3>2. \A g \in mem'[c].rows : goals'[g] = "ours"
      BY <2>1, <2>2, <3>1 DEF tables
    <3> QED BY <1>b, <2>2, <3>2 DEF Seen, Managing
  <2> QED BY <1>l, <2>1, <2>2, QuerySeen
<1>2. CASE PageOfMembers(c)
  <2>1. PICK rows : rows = memberWhere(c)
    OBVIOUS
  <2>2. Query(c, "page", 0, "settings", Memory(mem[c].manager, rows, {})) /\ pc[c] = "page"
    BY <1>2, <2>1 DEF PageOfMembers, Query
  <2>3. ASSUME call' = call, pc'[c] = "settings", mem'[c] = Memory(mem[c].manager, rows, {})
        PROVE  Seen(c)'
    <3>1. mem'[c].rows = rows /\ mem'[c].manager = mem[c].manager
      BY <1>m, <2>3
    <3>2. mem[c].manager => past'[c].managed
      BY <1>t, <1>b, <2>2 DEF Seen
    <3>3. ASSUME NEW u \in rows PROVE u \in past'[c].active /\ (past'[c].managed \/ u = call[c].user)
      BY <1>t, <2>1, <3>2, RunningLearns DEF memberWhere
    <3> QED BY <1>b, <2>3, <3>1, <3>2, <3>3 DEF Seen, Managing
  <2> QED BY <1>l, <2>2, <2>3, QuerySeen
<1>3. CASE ReadSettings(c)
  <2>1. PICK open : open = mem[c].rows \cap sharing
    OBVIOUS
  <2>2. /\ Query(c, "settings", 0, "sessions", Memory(mem[c].manager, mem[c].rows, open))
        /\ pc[c] = "settings"
    BY <1>3, <2>1 DEF ReadSettings, Query
  <2>3. ASSUME call' = call, pc'[c] = "sessions",
               mem'[c] = Memory(mem[c].manager, mem[c].rows, open)
        PROVE  Seen(c)'
    <3>1. mem'[c].rows = mem[c].rows /\ mem'[c].manager = mem[c].manager /\ mem'[c].open = open
      BY <1>m, <2>3
    <3>2. mem[c].manager => past'[c].managed
      BY <1>t, <1>b, <2>2 DEF Seen
    <3>3. ASSUME NEW u \in mem[c].rows
          PROVE  u \in past'[c].active /\ (past'[c].managed \/ u = call[c].user)
      BY <1>t, <2>2, RunningLearns DEF Seen, Grows
    <3>4. open \subseteq past'[c].open
      BY <1>t, <2>1, RunningLearns
    <3> QED BY <1>b, <2>3, <3>1, <3>2, <3>3, <3>4 DEF Seen, Managing
  <2> QED BY <1>l, <2>2, <2>3, QuerySeen
<1> QED BY <1>1, <1>2, <1>3

LEMMA ListsSeen ==
  ASSUME HInv, HistoryNext, NEW c \in Calls,
         LoadAssignees(c) \/ ListFeedbacks(c) \/ ReadSessions(c) \/ getMyGroups(c)
  PROVE  Seen(c)'
<1>t. /\ TypeOK /\ past \in [Calls -> Pasts] /\ Seen(c) /\ InList(c) /\ pc[c] \notin Free
      /\ UNCHANGED tables
  BY DEF HInv, IInv, InHandler, LoadAssignees, ListFeedbacks, ReadSessions, getMyGroups, List, Free,
         Answer, tables
<1>g. Grows(c) /\ (IsActive(call[c].user) => past'[c].belonged)
  BY <1>t, RunningLearns
<1>1. ASSUME NEW items, NEW label, List(c, label, items)
      PROVE  call' = call /\ pc[c] = label /\ pc'[c] = "done" /\ answer'[c].code = 200
             /\ answer'[c].items = items
  BY <1>t, <1>1 DEF List, Answer, TypeOK
<1>2. CASE LoadAssignees(c)
  <2>1. PICK items : /\ List(c, "loading", items)
                     /\ items = {[goal |-> g, mine |-> isAssignedToMe(g, call[c].user)] :
                                 g \in mem[c].rows}
    BY <1>2 DEF LoadAssignees
  <2>2. /\ call'[c].kind = "goals" /\ pc[c] = "loading" /\ pc'[c] = "done"
        /\ answer'[c].code = 200 /\ answer'[c].items = items
    BY <1>1, <1>t, <2>1 DEF InList
  <2>3. \A i \in items : i.goal \in Goals /\ goals'[i.goal] = "ours"
    BY <1>t, <2>1, <2>2 DEF Seen, InList, tables
  <2>4. past'[c].belonged
    BY <1>t, <1>g, <2>2 DEF Seen, Grows, Reading
  <2>5. RoleAllowed(c)' /\ CountsShared(c)'
    BY <2>2, <2>3, <2>4 DEF RoleAllowed, CountsShared
  <2> QED BY <2>2, <2>3, <2>5 DEF Seen, Managing, Reading
<1>3. CASE ListFeedbacks(c)
  <2>1. PICK items :
          /\ List(c, "listing", items)
          /\ items = {[feedback |-> f] : f \in {f \in Feedbacks :
                        feedbacks[f].group = "ours" /\ Shown(c, feedbacks[f].target)}}
    BY <1>3 DEF ListFeedbacks
  <2>2. /\ call' = call /\ call[c].kind = "feedbacks" /\ pc[c] = "listing" /\ pc'[c] = "done"
        /\ answer'[c].code = 200 /\ answer'[c].items = items
    BY <1>1, <1>t, <2>1 DEF InList
  <2>3. mem[c].manager => past'[c].managed
    BY <1>t, <1>g, <2>2 DEF Seen, Grows
  <2>4. ASSUME NEW i \in items
        PROVE  /\ i.feedback \in Feedbacks /\ feedbacks'[i.feedback].group = "ours"
               /\ past'[c].managed \/ feedbacks'[i.feedback].target = call[c].user
    <3>1. PICK f \in Feedbacks :
            i.feedback = f /\ feedbacks[f].group = "ours" /\ Shown(c, feedbacks[f].target)
      BY <2>1
    <3> QED BY <1>t, <2>3, <3>1 DEF Shown, tables
  <2>5. past'[c].belonged
    BY <1>t, <1>g, <2>2 DEF Seen, Grows, Reading
  <2>6. RoleAllowed(c)' /\ CountsShared(c)'
    BY <2>2, <2>4, <2>5 DEF RoleAllowed, CountsShared
  <2> QED BY <2>2, <2>4, <2>6 DEF Seen, Managing, Reading
<1>4. CASE ReadSessions(c)
  <2>1. PICK items : /\ List(c, "sessions", items)
                     /\ items = {[user |-> u, stats |-> sharingUserIds(c, u)] : u \in mem[c].rows}
    BY <1>4 DEF ReadSessions
  <2>2. /\ call' = call /\ call[c].kind = "dashboard" /\ pc[c] = "sessions" /\ pc'[c] = "done"
        /\ answer'[c].code = 200 /\ answer'[c].items = items
    BY <1>1, <1>t, <2>1 DEF InList
  <2>3. ASSUME NEW i \in items
        PROVE  /\ i.user \in past'[c].active /\ (past'[c].managed \/ i.user = call[c].user)
               /\ i.stats => i.user \in past'[c].open
    <3>1. PICK u \in mem[c].rows : i = [user |-> u, stats |-> sharingUserIds(c, u)]
      BY <2>1
    <3>2. i.user = u /\ (i.stats => u \in mem[c].open)
      BY <3>1 DEF sharingUserIds
    <3> QED BY <1>t, <1>g, <2>2, <3>2 DEF Seen, Grows
  <2>4. past'[c].belonged
    BY <1>t, <1>g, <2>2 DEF Seen, Grows, Reading
  <2>5. RoleAllowed(c)' /\ CountsShared(c)'
    BY <2>2, <2>3, <2>4 DEF RoleAllowed, CountsShared
  <2> QED BY <2>2, <2>5 DEF Seen, Managing, Reading
<1>5. CASE getMyGroups(c)
  <2>1. PICK items :
          /\ List(c, "groups", items)
          /\ items = {[role |-> members[u].role] : u \in {u \in {call[c].user} : IsActive(u)}}
    BY <1>5 DEF getMyGroups
  <2>2. call' = call /\ pc[c] = "groups" /\ pc'[c] = "done" /\ answer'[c].code = 200
        /\ answer'[c].items = items
    BY <1>1, <2>1
  <2>3. items # {} => past'[c].belonged
    BY <1>g, <2>1
  <2>4. call[c].kind = "groups"
    BY <2>2, <1>t DEF HInv, IInv, InHandler, InList
  <2>5. RoleAllowed(c)' /\ CountsShared(c)'
    BY <2>2, <2>3, <2>4 DEF RoleAllowed, CountsShared
  <2> QED BY <2>2, <2>4, <2>5 DEF Seen, Managing, Reading
<1> QED BY <1>2, <1>3, <1>4, <1>5

(* The view of one group, and a query that fails. *)
LEMMA LastSeen ==
  ASSUME HInv, NEW c \in Calls, getGroup(c) \/ Fail(c)
  PROVE  Seen(c)'
<1>1. PICK code \in {200, 403, 404, 500} : Answer(c, code, {})
  <2>1. CASE getGroup(c)
    <3>1. PICK refused \in {0, 403, 404} : Answer(c, IF refused = 0 THEN 200 ELSE refused, {})
      BY <2>1, RefusalType, RolesType DEF getGroup
    <3>2. (IF refused = 0 THEN 200 ELSE refused) \in {200, 403, 404}
      OBVIOUS
    <3> QED BY <3>1, <3>2
  <2>2. CASE Fail(c)
    BY <2>2 DEF Fail
  <2> QED BY <2>1, <2>2
<1> QED BY <1>1, PlainSeen DEF HInv, IInv

-------------------------------------------------------------------------------
(* The slots but c stay as they are, and rows stay what they are *)

Apart(c) == \A d \in Calls \ {c} : /\ call'[d] = call[d] /\ pc'[d] = pc[d]
                                   /\ mem'[d] = mem[d] /\ answer'[d] = answer[d]

LEMMA ActionApart == ASSUME TypeOK, NEW c \in Calls, Requests(c) \/ Handle(c) PROVE Apart(c)
<1>1. ASSUME NEW code, NEW items, Answer(c, code, items) PROVE Apart(c)
  BY <1>1 DEF Answer, Apart, TypeOK
<1>2. ASSUME NEW label, NEW code, NEW next, NEW memory, Query(c, label, code, next, memory)
      PROVE  Apart(c)
  BY <1>1, <1>2 DEF Query, Apart, TypeOK
<1>3. ASSUME NEW label, NEW items, List(c, label, items) PROVE Apart(c)
  BY <1>1, <1>3 DEF List
<1>4. ASSUME NEW new, NEW label, Receive(c, new, label) PROVE Apart(c)
  BY <1>4 DEF Receive, Apart, TypeOK
<1>5. Requests(c) => Apart(c)
  BY <1>4 DEF Requests, ReceiveCreate, ReceiveAssign, ReceiveGoals, ReceiveGive, ReceiveFeedbacks,
              ReceiveDashboard, ReceiveView
<1>6. \/ CheckCreator(c) \/ CheckAssigner(c) \/ CheckGoalReader(c) \/ CheckAuthor(c)
      \/ CheckRecipient(c) \/ CheckViewer(c)
      => Apart(c)
  BY <1>2 DEF CheckCreator, CheckAssigner, CheckGoalReader, CheckAuthor, CheckRecipient, CheckViewer
<1>7. FindGoal(c) \/ FindAssignees(c) \/ FindExisting(c) \/ FindTarget(c) \/ FindSession(c) => Apart(c)
  BY <1>2 DEF FindGoal, FindAssignees, FindExisting, FindTarget, FindSession
<1>8. PageOfGoals(c) \/ PageOfMembers(c) \/ ReadSettings(c) => Apart(c)
  BY <1>2 DEF PageOfGoals, PageOfMembers, ReadSettings
<1>9. LoadAssignees(c) \/ ListFeedbacks(c) \/ ReadSessions(c) \/ getMyGroups(c) => Apart(c)
  BY <1>3 DEF LoadAssignees, ListFeedbacks, ReadSessions, getMyGroups
<1>10. \/ CreateGoal(c) \/ ClearGoal(c) \/ AnswerAssigned(c) \/ GiveFeedback(c) \/ getGroup(c)
       \/ Fail(c)
       => Apart(c)
  BY <1>1 DEF CreateGoal, ClearGoal, AnswerAssigned, GiveFeedback, getGroup, Fail
<1>11. InsertAssignees(c) => Apart(c)
  BY <1>1 DEF InsertAssignees, Apart, TypeOK
<1> QED BY <1>5, <1>6, <1>7, <1>8, <1>9, <1>10, <1>11 DEF Handle

(* Only four actions of a handler write to the tables. *)
LEMMA Writers ==
  ASSUME NEW c \in Calls, Requests(c) \/ Handle(c)
  PROVE  /\ UNCHANGED goals \/ CreateGoal(c)
         /\ UNCHANGED feedbacks \/ GiveFeedback(c)
         /\ UNCHANGED assigned \/ ClearGoal(c) \/ InsertAssignees(c)
<1>1. Requests(c) => UNCHANGED <<goals, assigned, feedbacks>>
  BY DEF Requests, ReceiveCreate, ReceiveAssign, ReceiveGoals, ReceiveGive, ReceiveFeedbacks,
         ReceiveDashboard, ReceiveView, Receive
<1>2. \/ CheckCreator(c) \/ CheckAssigner(c) \/ CheckGoalReader(c) \/ CheckAuthor(c)
      \/ CheckRecipient(c) \/ CheckViewer(c)
      => UNCHANGED <<goals, assigned, feedbacks>>
  BY DEF CheckCreator, CheckAssigner, CheckGoalReader, CheckAuthor, CheckRecipient, CheckViewer, Query
<1>3. FindGoal(c) \/ FindAssignees(c) \/ FindExisting(c) \/ FindTarget(c) \/ FindSession(c)
      => UNCHANGED <<goals, assigned, feedbacks>>
  BY DEF FindGoal, FindAssignees, FindExisting, FindTarget, FindSession, Query
<1>4. PageOfGoals(c) \/ PageOfMembers(c) \/ ReadSettings(c) => UNCHANGED <<goals, assigned, feedbacks>>
  BY DEF PageOfGoals, PageOfMembers, ReadSettings, Query
<1>5. \/ LoadAssignees(c) \/ ListFeedbacks(c) \/ ReadSessions(c) \/ getMyGroups(c) \/ getGroup(c)
      \/ Fail(c) \/ AnswerAssigned(c)
      => UNCHANGED <<goals, assigned, feedbacks>>
  BY DEF LoadAssignees, ListFeedbacks, ReadSessions, getMyGroups, getGroup, Fail, AnswerAssigned, List
<1>6. /\ CreateGoal(c) => UNCHANGED <<assigned, feedbacks>>
      /\ GiveFeedback(c) => UNCHANGED <<goals, assigned>>
      /\ ClearGoal(c) \/ InsertAssignees(c) => UNCHANGED <<goals, feedbacks>>
  BY DEF CreateGoal, GiveFeedback, ClearGoal, InsertAssignees
<1> QED BY <1>1, <1>2, <1>3, <1>4, <1>5, <1>6 DEF Handle

LEMMA StepRowsKept == ASSUME TypeOK, Next PROVE RowsKept
<1>1. ASSUME NEW c \in Calls, CreateGoal(c)
      PROVE  \A g \in Goals : goals[g] = "ours" => goals'[g] = "ours"
  BY <1>1 DEF CreateGoal, TypeOK
<1>2. ASSUME NEW f \in Feedbacks, feedbacks[f] = NoFeedback, NEW row,
             feedbacks' = [feedbacks EXCEPT ![f] = row]
      PROVE  \A h \in Feedbacks : feedbacks[h].group = "ours" => feedbacks'[h] = feedbacks[h]
  <2>1. feedbacks[f].group = "none"
    BY <1>2 DEF NoFeedback
  <2> QED BY <1>2, <2>1 DEF TypeOK
<1>3. ASSUME NEW c \in Calls, GiveFeedback(c)
      PROVE  \A h \in Feedbacks : feedbacks[h].group = "ours" => feedbacks'[h] = feedbacks[h]
  BY <1>2, <1>3 DEF GiveFeedback
<1>4. ASSUME NEW c \in Calls, Requests(c) \/ Handle(c) PROVE RowsKept
  BY <1>1, <1>3, <1>4, Writers DEF RowsKept
<1>5. CASE Elsewhere
  <2>1. ASSUME NEW g \in Goals, GoalOfOthers(g) PROVE RowsKept
    BY <2>1 DEF GoalOfOthers, RowsKept, TypeOK
  <2>2. ASSUME NEW f \in Feedbacks, FeedbackOfOthers(f) PROVE RowsKept
    BY <1>2, <2>2 DEF FeedbackOfOthers, RowsKept
  <2>3. UNCHANGED <<goals, feedbacks>> => RowsKept
    BY DEF RowsKept
  <2> QED BY <1>5, <2>1, <2>2, <2>3 DEF Elsewhere, ChangeMember, SetSharing, StartSession
<1> QED BY <1>4, <1>5 DEF Next

LEMMA ElsewhereSlots == ASSUME Elsewhere PROVE UNCHANGED slots /\ UNCHANGED assigned
BY DEF Elsewhere, ChangeMember, SetSharing, StartSession, GoalOfOthers, FeedbackOfOthers

LEMMA StepSeen == ASSUME HInv, HistoryNext PROVE \A d \in Calls : Seen(d)'
<1>t. TypeOK /\ past \in [Calls -> Pasts] /\ Next /\ RowsKept
  BY StepRowsKept DEF HInv, IInv, HistoryNext
<1>1. ASSUME NEW d \in Calls, call'[d] = call[d], pc'[d] = pc[d], mem'[d] = mem[d],
             answer'[d] = answer[d]
      PROVE  Seen(d)'
  <2>1. InHandler(d) /\ Seen(d) /\ Grows(d)
    BY <1>t, <1>1, RestingKnows DEF HInv, IInv
  <2> QED BY <1>t, <1>1, <2>1, SeenLasts
<1>2. ASSUME NEW c \in Calls, Requests(c) \/ Handle(c) PROVE \A d \in Calls : Seen(d)'
  <2>1. Seen(c)'
    BY <1>2, RequestSeen, ChecksSeen, ManagingSeen, WritesSeen, PagesSeen, ListsSeen, LastSeen
       DEF Handle
  <2>2. Apart(c)
    BY <1>t, <1>2, ActionApart
  <2> QED BY <1>1, <2>1, <2>2 DEF Apart
<1>3. CASE Elsewhere
  BY <1>1, <1>3, ElsewhereSlots DEF slots
<1> QED BY <1>t, <1>2, <1>3 DEF Next

-------------------------------------------------------------------------------
(* Who has inserted his rows, and who has them still *)

(* An action by which c can come to have inserted, or to clear. *)
LEMMA InsertedBy ==
  ASSUME TypeOK, NEW c \in Calls, InHandler(c), Requests(c) \/ Handle(c),
         Inserted(c)' \/ pc'[c] = "clear"
  PROVE  /\ pc[c] \notin Free /\ call' = call
         /\ \/ AnswerAssigned(c) \/ ClearGoal(c)
            \/ InsertAssignees(c) /\ IndexAllows(call[c].goal, To(c))
            \/ FindGoal(c) /\ To(c) = {}
<1>1. ~ Requests(c)
  <2>1. ASSUME Requests(c) PROVE pc'[c] \notin {"assigned", "clear", "done"}
    <3>1. PICK new, label : Receive(c, new, label) /\ Starts(label, new.kind)
      BY <2>1, RequestStarts
    <3>2. label \notin {"assigned", "clear", "done"}
      BY <3>1 DEF Starts
    <3> QED BY <3>1, <3>2 DEF Receive, TypeOK
  <2> QED BY <2>1 DEF Inserted, Assigns
<1>2. ASSUME NEW label, NEW code, code # 201, NEW next,
             next \notin {"assigned", "clear", "done"}, NEW memory, Query(c, label, code, next, memory)
      PROVE  FALSE
  <2>1. CASE code # 0
    BY <1>2, <2>1 DEF Query, Answer, TypeOK, Inserted, Assigns
  <2>2. CASE code = 0
    BY <1>2, <2>2 DEF Query, TypeOK, Inserted, Assigns
  <2> QED BY <2>1, <2>2
<1>3. ASSUME NEW code, code # 201, NEW items, Answer(c, code, items) PROVE FALSE
  BY <1>3 DEF Answer, TypeOK, Inserted, Assigns
<1>4. \/ CheckCreator(c) \/ CheckAssigner(c) \/ CheckGoalReader(c) \/ CheckAuthor(c)
      \/ CheckRecipient(c) \/ CheckViewer(c)
      => FALSE
  <2>1. CheckCreator(c) => FALSE
    <3>1. CheckCreator(c) => \E code \in {0, 400, 403, 404} : Query(c, "creator", code, "create", Nothing)
      BY RefusalType, RolesType DEF CheckCreator
    <3> QED BY <1>2, <3>1
  <2>2. CheckAssigner(c) => FALSE
    <3>1. CheckAssigner(c) => \E code \in {0, 403, 404} : Query(c, "assigner", code, "goal", Nothing)
      BY RefusalType, RolesType DEF CheckAssigner
    <3> QED BY <1>2, <3>1
  <2>3. CheckGoalReader(c) => FALSE
    <3>1. CheckGoalReader(c) => \E code \in {0, 403, 404} : Query(c, "member", code, "goals", Nothing)
      BY RefusalType, RolesType DEF CheckGoalReader
    <3> QED BY <1>2, <3>1
  <2>4. CheckAuthor(c) => FALSE
    <3>1. CheckAuthor(c) => \E code \in {0, 403, 404} : Query(c, "author", code, "target", Nothing)
      BY RefusalType, RolesType DEF CheckAuthor
    <3> QED BY <1>2, <3>1
  <2>5. CheckRecipient(c) => FALSE
    <3>1. CheckRecipient(c) => \E allowed \in BOOLEAN : \E m :
            Query(c, "recipient", Refusal(allowed), "listing", m)
      BY RolesType DEF CheckRecipient
    <3> QED BY <1>2, <3>1, RefusalType
  <2>6. CheckViewer(c) => FALSE
    <3>1. CheckViewer(c) => \E code \in {0, 403, 404} : \E m : Query(c, "viewer", code, "page", m)
      BY RefusalType, RolesType DEF CheckViewer
    <3> QED BY <1>2, <3>1
  <2> QED BY <2>1, <2>2, <2>3, <2>4, <2>5, <2>6
<1>5. FindAssignees(c) \/ FindExisting(c) \/ FindTarget(c) \/ FindSession(c) => FALSE
  <2>1. FindAssignees(c) => \E code \in {0, 400} : Query(c, "assignees", code, "existing", Nothing)
    BY DEF FindAssignees
  <2>2. FindExisting(c) => \E code \in {0, 409} : Query(c, "existing", code, "insert", Nothing)
    BY DEF FindExisting
  <2>3. FindTarget(c) => \E code \in {0, 403}, next \in {"write", "session"} :
          Query(c, "target", code, next, Nothing)
    BY DEF FindTarget
  <2>4. FindSession(c) => \E code \in {0, 403, 404} : Query(c, "session", code, "write", Nothing)
    BY DEF FindSession
  <2> QED BY <1>2, <2>1, <2>2, <2>3, <2>4
<1>6. PageOfGoals(c) \/ PageOfMembers(c) \/ ReadSettings(c) => FALSE
  <2>1. PageOfGoals(c) => \E m : Query(c, "goals", 0, "loading", m)
    BY DEF PageOfGoals
  <2>2. PageOfMembers(c) => \E m : Query(c, "page", 0, "settings", m)
    BY DEF PageOfMembers
  <2>3. ReadSettings(c) => \E m : Query(c, "settings", 0, "sessions", m)
    BY DEF ReadSettings
  <2> QED BY <1>2, <2>1, <2>2, <2>3
<1>7. \/ LoadAssignees(c) \/ ListFeedbacks(c) \/ ReadSessions(c) \/ getMyGroups(c) \/ Fail(c)
      => FALSE
  <2>1. LoadAssignees(c) \/ ListFeedbacks(c) \/ ReadSessions(c) \/ getMyGroups(c) =>
          \E items : Answer(c, 200, items)
    BY DEF LoadAssignees, ListFeedbacks, ReadSessions, getMyGroups, List
  <2>2. Fail(c) => Answer(c, 500, {})
    BY DEF Fail
  <2> QED BY <1>3, <2>1, <2>2
<1>8. getGroup(c) => FALSE
  <2>1. getGroup(c) => \E code \in {200, 403, 404} : Answer(c, code, {})
    <3>1. getGroup(c) => \E refused \in {0, 403, 404} :
            Answer(c, IF refused = 0 THEN 200 ELSE refused, {})
      BY RefusalType, RolesType DEF getGroup
    <3>2. \A refused \in {0, 403, 404} : (IF refused = 0 THEN 200 ELSE refused) \in {200, 403, 404}
      OBVIOUS
    <3> QED BY <3>1, <3>2
  <2> QED BY <1>3, <2>1
<1>9. CreateGoal(c) \/ GiveFeedback(c) => FALSE
  <2>1. ASSUME CreateGoal(c) \/ GiveFeedback(c)
        PROVE  pc'[c] = "done" /\ call' = call /\ call[c].kind \in {"create", "give"}
    BY <2>1 DEF CreateGoal, GiveFeedback, Answer, TypeOK, InHandler, InList, InGive
  <2> QED BY <2>1 DEF Inserted, Assigns
<1>10. InsertAssignees(c) => IndexAllows(call[c].goal, To(c))
  BY <1>3 DEF InsertAssignees
<1>11. FindGoal(c) => To(c) = {}
  <2>1. FindGoal(c) /\ To(c) # {} =>
          \E code \in {0, 400, 404} : Query(c, "goal", code, "assignees", Nothing)
    BY DEF FindGoal
  <2> QED BY <1>2, <2>1
<1>12. AnswerAssigned(c) \/ ClearGoal(c) \/ InsertAssignees(c) \/ FindGoal(c)
  BY <1>1, <1>4, <1>5, <1>6, <1>7, <1>8, <1>9 DEF Handle
<1>13. pc[c] \notin Free /\ call' = call
  BY <1>12 DEF AnswerAssigned, ClearGoal, InsertAssignees, FindGoal, Query, Answer, Free
<1> QED BY <1>10, <1>11, <1>12, <1>13

(* Rows go only when their goal is cleared. *)
LEMMA RowsStay ==
  ASSUME TypeOK, NEW c \in Calls, Requests(c) \/ Handle(c), NEW g \in Goals, NEW m \in MemberIds,
         assigned[g][m] > 0
  PROVE  assigned'[g][m] > 0 \/ (ClearGoal(c) /\ call[c].goal = g)
<1>1. assigned[g][m] \in Nat
  BY DEF TypeOK
<1>2. CASE ClearGoal(c)
  BY <1>2 DEF ClearGoal, TypeOK
<1>3. CASE InsertAssignees(c)
  BY <1>1, <1>3 DEF InsertAssignees
<1> QED BY <1>2, <1>3, Writers

LEMMA ClearTells ==
  ASSUME TypeOK, NEW c \in Calls, ClearGoal(c), NEW d \in Calls, call[d].kind = "assign",
         call[d].goal = call[c].goal
  PROVE  Cleared(d)
<1>1. pc[c] = "clear" /\ Answer(c, 201, {})
  BY DEF ClearGoal
<1>2. answer'[c].code = 201
  BY <1>1 DEF Answer, TypeOK
<1> QED BY <1>1, <1>2 DEF Cleared

LEMMA ToSame ==
  ASSUME NEW d, call'[d] = call[d]
  PROVE  To(d)' = To(d) /\ call'[d].goal = call[d].goal
BY DEF To

(* The slot d, when c moves. *)
LEMMA StepInserted ==
  ASSUME HInv, HistoryNext, NEW c \in Calls, Requests(c) \/ Handle(c), NEW d \in Calls, Inserted(d)'
  PROVE  /\ call'[d] = call[d]
         /\ \/ Inserted(d) /\ (past[d].cleared \/ Cleared(d) => past'[d].cleared)
            \/ To(d) = {}
            \/ d = c /\ ~ Inserted(c) /\ InsertAssignees(c) /\ IndexAllows(call[c].goal, To(c))
<1>t. TypeOK /\ InHandler(c) /\ Apart(c) /\ past \in [Calls -> Pasts]
  BY ActionApart DEF HInv, IInv
<1>1. CASE d # c
  <2>1. call'[d] = call[d] /\ pc'[d] = pc[d] /\ Inserted(d)
    BY <1>t, <1>1 DEF Apart, Inserted, Assigns
  <2> QED BY <1>t, <1>1, <2>1, ClearedLasts
<1>2. CASE d = c
  <2>1. /\ pc[c] \notin Free /\ call' = call
        /\ \/ AnswerAssigned(c) \/ ClearGoal(c)
           \/ InsertAssignees(c) /\ IndexAllows(call[c].goal, To(c))
           \/ FindGoal(c) /\ To(c) = {}
    BY <1>t, <1>2, InsertedBy
  <2>2. ClearGoal(c) => To(c) = {}
    BY DEF HInv, Held, ClearGoal
  <2>3. /\ AnswerAssigned(c) => Inserted(c)
        /\ InsertAssignees(c) => ~ Inserted(c)
    BY <1>t DEF AnswerAssigned, InsertAssignees, Inserted, Assigns, InHandler, InAssign
  <2> QED BY <1>t, <1>2, <2>1, <2>2, <2>3, ClearedLasts
<1> QED BY <1>1, <1>2

LEMMA StepHeld ==
  ASSUME HInv, HistoryNext, NEW c \in Calls, Requests(c) \/ Handle(c), NEW d \in Calls
  PROVE  Held(d)'
<1>t. TypeOK /\ InHandler(c) /\ Apart(c) /\ past \in [Calls -> Pasts] /\ Held(d)
  BY ActionApart DEF HInv, IInv
<1>1. ASSUME pc'[d] = "clear" PROVE To(d)' = {}
  <2>1. CASE d # c
    <3>1. call'[d] = call[d] /\ pc'[d] = pc[d]
      BY <1>t, <2>1 DEF Apart
    <3> QED BY <1>t, <1>1, <3>1, ToSame DEF Held
  <2>2. CASE d = c
    <3>1. call' = call /\ (ClearGoal(c) \/ AnswerAssigned(c) \/ InsertAssignees(c) \/ To(c) = {})
      BY <1>t, <1>1, <2>2, InsertedBy
    <3>2. ~ (ClearGoal(c) \/ AnswerAssigned(c) \/ InsertAssignees(c))
      BY <1>t, <1>1, <2>2 DEF ClearGoal, AnswerAssigned, InsertAssignees, Answer, TypeOK
    <3> QED BY <2>2, <3>1, <3>2 DEF To
  <2> QED BY <2>1, <2>2
<1>2. ASSUME Inserted(d)'
      PROVE  past'[d].cleared \/ \A m \in To(d)' : assigned'[call'[d].goal][m] > 0
  <2>1. /\ call'[d] = call[d] /\ To(d)' = To(d) /\ call[d].goal \in Goals /\ To(d) \subseteq MemberIds
        /\ call[d].kind = "assign"
    <3>1. call'[d] = call[d]
      BY <1>2, StepInserted
    <3>2. call[d].kind = "assign"
      BY <1>2, <3>1 DEF Inserted
    <3> QED BY <1>t, <3>1, <3>2, ToSame, CallType
  <2>2. CASE To(d) = {}
    BY <2>1, <2>2
  <2>3. CASE d = c /\ InsertAssignees(c) /\ IndexAllows(call[c].goal, To(c))
    <3>1. \A m \in To(d) : assigned'[call[d].goal][m] = assigned[call[d].goal][m] + 1
      BY <2>1, <2>3 DEF InsertAssignees
    <3>2. \A m \in To(d) : assigned[call[d].goal][m] \in Nat
      BY <1>t, <2>1 DEF TypeOK
    <3> QED BY <2>1, <3>1, <3>2
  <2>4. CASE Inserted(d) /\ (past[d].cleared \/ Cleared(d) => past'[d].cleared)
    <3>1. CASE past[d].cleared
      BY <2>4, <3>1
    <3>2. CASE \A m \in To(d) : assigned[call[d].goal][m] > 0
      <4>1. CASE ClearGoal(c) /\ call[c].goal = call[d].goal
        BY <1>t, <2>1, <2>4, <4>1, ClearTells
      <4>2. CASE ~ (ClearGoal(c) /\ call[c].goal = call[d].goal)
        BY <1>t, <2>1, <3>2, <4>2, RowsStay
      <4> QED BY <4>1, <4>2
    <3> QED BY <1>t, <2>4, <3>1, <3>2 DEF Held
  <2> QED BY <1>2, <2>2, <2>3, <2>4, StepInserted
<1> QED BY <1>1, <1>2 DEF Held

(* Two slots that have inserted for one member: the second found no rows   *)
(* of the first.                                                           *)
LEMMA StepOneHolder ==
  ASSUME HInv, HistoryNext, NEW c \in Calls, Requests(c) \/ Handle(c)
  PROVE  OneHolder'
<1>t. TypeOK /\ Apart(c) /\ OneHolder
  BY ActionApart DEF HInv, IInv
<1>1. ASSUME NEW d \in Calls, d # c, Inserted(d), Inserted(d)',
             IndexAllows(call[c].goal, To(c)), call[c].goal = call[d].goal,
             To(c) \cap To(d) # {}
      PROVE  past[d].cleared
  <2>1. PICK m : m \in To(c) /\ m \in To(d)
    BY <1>1
  <2>2. assigned[call[d].goal][m] = 0
    BY <1>1, <2>1 DEF IndexAllows, NoneAssigned
  <2>3. Held(d)
    BY DEF HInv
  <2> QED BY <1>1, <2>1, <2>2, <2>3 DEF Held
<1>2. ASSUME NEW a \in Calls, NEW b \in Calls, a # b, Inserted(a)', Inserted(b)',
             call'[a].goal = call'[b].goal, To(a)' \cap To(b)' # {}
      PROVE  past'[a].cleared \/ past'[b].cleared
  <2>1. /\ call'[a] = call[a] /\ call'[b] = call[b] /\ To(a)' = To(a) /\ To(b)' = To(b)
        /\ To(a) # {} /\ To(b) # {} /\ call[a].goal = call[b].goal /\ To(a) \cap To(b) # {}
    <3>1. call'[a] = call[a] /\ call'[b] = call[b]
      BY <1>2, StepInserted
    <3>2. To(a)' = To(a) /\ To(b)' = To(b)
      BY <3>1, ToSame
    <3> QED BY <1>2, <3>1, <3>2
  <2>2. CASE Inserted(a) /\ Inserted(b)
    <3>1. past[a].cleared \/ past[b].cleared
      BY <1>t, <1>2, <2>1, <2>2 DEF OneHolder
    <3> QED BY <1>2, <2>1, <2>2, <3>1, StepInserted
  <2>3. CASE ~ Inserted(a)
    <3>1. a = c /\ IndexAllows(call[c].goal, To(c))
      BY <1>2, <2>1, <2>3, StepInserted
    <3>2. Inserted(b) /\ (past[b].cleared => past'[b].cleared)
      BY <1>2, <2>1, <3>1, StepInserted
    <3> QED BY <1>1, <1>2, <2>1, <3>1, <3>2
  <2>4. CASE ~ Inserted(b)
    <3>1. b = c /\ IndexAllows(call[c].goal, To(c))
      BY <1>2, <2>1, <2>4, StepInserted
    <3>2. Inserted(a) /\ (past[a].cleared => past'[a].cleared)
      BY <1>2, <2>1, <3>1, StepInserted
    <3> QED BY <1>1, <1>2, <2>1, <3>1, <3>2
  <2> QED BY <2>2, <2>3, <2>4
<1> QED BY <1>2 DEF OneHolder

LEMMA RestHolds ==
  ASSUME HInv, HistoryNext, UNCHANGED <<slots, assigned>>
  PROVE  (\A d \in Calls : Held(d)) /\ OneHolder
         => (\A d \in Calls : Held(d)') /\ OneHolder'
<1>t. past \in [Calls -> Pasts] /\ TypeOK
  BY DEF HInv, IInv
<1>1. \A d \in Calls : call'[d] = call[d] /\ pc'[d] = pc[d] /\ answer'[d] = answer[d]
  BY DEF slots
<1>2. \A d \in Calls : past[d].cleared => past'[d].cleared
  BY <1>t, <1>1, ClearedLasts
<1>3. \A d \in Calls : To(d)' = To(d) /\ Inserted(d)' = Inserted(d)
  BY <1>1, ToSame DEF Inserted, Assigns
<1>4. (\A d \in Calls : Held(d)) => (\A d \in Calls : Held(d)')
  BY <1>1, <1>2, <1>3 DEF Held
<1>5. OneHolder => OneHolder'
  BY <1>1, <1>2, <1>3 DEF OneHolder
<1> QED BY <1>4, <1>5

LEMMA StepHInv == HInv /\ [HistoryNext]_<<vars, past>> => HInv'
<1> SUFFICES ASSUME HInv, [HistoryNext]_<<vars, past>> PROVE HInv'
  OBVIOUS
<1>t. IInv /\ TypeOK /\ past \in [Calls -> Pasts]
  BY DEF HInv, IInv
<1>1. CASE HistoryNext
  <2>1. IInv' /\ past' \in [Calls -> Pasts] /\ (\A d \in Calls : Seen(d)')
    BY <1>t, <1>1, StepIInv, PastType, StepSeen DEF HistoryNext
  <2>2. ASSUME NEW c \in Calls, Requests(c) \/ Handle(c)
        PROVE  (\A d \in Calls : Held(d)') /\ OneHolder'
    BY <1>1, <2>2, StepHeld, StepOneHolder
  <2>3. ASSUME Elsewhere PROVE (\A d \in Calls : Held(d)') /\ OneHolder'
    BY <1>1, <2>3, ElsewhereSlots, RestHolds DEF HInv
  <2> QED BY <1>1, <2>1, <2>2, <2>3 DEF HInv, HistoryNext, Next
<1>2. CASE UNCHANGED <<vars, past>>
  <2>1. IInv'
    BY <1>t, <1>2, StepIInv
  <2>2. \A d \in Calls : To(d)' = To(d)
    BY <1>2, ToSame DEF vars
  <2>3. \A d \in Calls : Inserted(d)' = Inserted(d)
    BY <1>2 DEF Inserted, Assigns, vars
  <2>4. \A d \in Calls : Held(d)'
    BY <1>2, <2>2, <2>3 DEF HInv, Held, vars
  <2>5. OneHolder'
    BY <1>2, <2>2, <2>3 DEF HInv, OneHolder, vars
  <2>6. ASSUME NEW d \in Calls PROVE Seen(d)'
    <3>1. Grows(d) /\ RowsKept /\ InHandler(d) /\ Seen(d)
      BY <1>t, <1>2 DEF Grows, RowsKept, vars, HInv, IInv
    <3>2. call'[d] = call[d] /\ pc'[d] = pc[d] /\ mem'[d] = mem[d] /\ answer'[d] = answer[d]
      BY <1>2 DEF vars
    <3> QED BY <1>t, <3>1, <3>2, SeenLasts
  <2> QED BY <1>t, <1>2, <2>1, <2>4, <2>5, <2>6 DEF HInv
<1> QED BY <1>1, <1>2

LEMMA InitHInv == HistoryInit => HInv
<1> SUFFICES ASSUME HistoryInit PROVE HInv
  OBVIOUS
<1>1. IInv /\ \A c \in Calls : pc[c] = "idle"
  BY InitIInv DEF HistoryInit, Init
<1>2. past \in [Calls -> Pasts]
  BY DEF HistoryInit, Unknown, Pasts
<1>3. \A c \in Calls : ~ Inserted(c)
  BY <1>1 DEF Inserted, Assigns
<1>4. \A c \in Calls : Seen(c) /\ Held(c)
  BY <1>1, <1>3 DEF Seen, Held, Managing, Reading
<1>5. OneHolder
  BY <1>3 DEF OneHolder
<1> QED BY <1>1, <1>2, <1>4, <1>5 DEF HInv

(* What the handlers have seen of roles, settings and goals while they ran *)
(* is inductive with the invariant above.                                  *)
THEOREM HistoryInvariant == HistorySpec => []HInv
BY InitHInv, StepHInv, PTL DEF HistorySpec

(* Roles and memberships may change while a handler runs: it writes and    *)
(* shows only what they allowed at some moment of the call.                *)
THEOREM RoleHeld == HistorySpec => []RolesInForce
<1>1. HInv => RolesInForce
  BY DEF HInv, Seen, RolesInForce
<1> QED BY <1>1, HistoryInvariant, PTL

(* A dashboard counts nobody's sessions who did not share them meanwhile.  *)
THEOREM Shared == HistorySpec => []StatsShared
<1>1. HInv => StatsShared
  BY DEF HInv, Seen, StatsShared
<1> QED BY <1>1, HistoryInvariant, PTL

(* Of the calls that give one member one goal, one is answered 201, unless *)
(* the goal is made one of the whole group in between.                     *)
THEOREM Winner == HistorySpec => []OneWinner
<1>1. HInv => OneWinner
  <2>1. \A c \in Calls : Assigns(c) => Inserted(c)
    BY DEF Assigns, Inserted
  <2>2. OneHolder => OneWinner
    BY <2>1 DEF OneHolder, OneWinner
  <2> QED BY <2>2 DEF HInv
<1> QED BY <1>1, HistoryInvariant, PTL
==============================================================================
