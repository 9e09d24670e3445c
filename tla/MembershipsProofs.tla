-------------------------- MODULE MembershipsProofs --------------------------
(* Proofs about Memberships, for any number of users, invitations, calls.   *)
EXTENDS MembershipProperties, TLAPS

USE MembershipsAssumption

(* A step of slot c leaves the other slots alone. *)
StepOf(c) == \A d \in Calls \ {c} : call'[d] = call[d] /\ pc'[d] = pc[d] /\ seen'[d] = seen[d]

(* A stored invitation stays stored and keeps its addressees. *)
InvitationsKept ==
  \A i \in InvitationIds : invitations[i].status # "NONE" =>
    /\ invitations'[i].status # "NONE"
    /\ \/ invitations'[i].user = invitations[i].user
       \/ Addressed(invitations'[i].user, invitations[i])
    /\ invitations'[i].email = invitations[i].email

LEMMA MemoryType == Nothing \in Memory /\ NoMember \in Member /\ \A r \in Roles : Joined(r) \in Member
BY DEF Nothing, Memory, Roles, NoMember, Member, Joined

LEMMA InitIInv == Init => IInv
<1> SUFFICES ASSUME Init PROVE IInv
  OBVIOUS
<1>1. TypeOK
  BY MemoryType DEF Init, TypeOK, NoInvitation, Invitation, NoCall, Labels, Codes
<1>2. \A i \in InvitationIds : invitations[i].status = "NONE"
  BY DEF Init, NoInvitation
<1>3. AtMostOneOwner
  BY DEF Init, AtMostOneOwner, Owners, HasRole, IsActive, NoMember
<1>4. OnePendingPerTarget
  BY <1>2 DEF OnePendingPerTarget
<1>5. \A c \in Calls : InHandler(c)
  BY DEF Init, InHandler, NoCall
<1> QED BY <1>1, <1>2, <1>3, <1>4, <1>5 DEF IInv, Targeted

-------------------------------------------------------------------------------
(* The shared forms of a step *)

LEMMA AnswerStep ==
  ASSUME IInv, NEW c \in Calls, NEW code \in Codes, Answer(c, code)
  PROVE  /\ call' = call /\ clock' = clock
         /\ pc' \in [Calls -> Labels]
         /\ seen' \in [Calls -> Memory]
         /\ answer' \in [Calls -> Codes]
         /\ StepOf(c) /\ pc'[c] = "done"
         /\ InHandler(c)'
<1>1. /\ call' = call /\ clock' = clock /\ StepOf(c) /\ pc'[c] = "done"
      /\ pc' \in [Calls -> Labels] /\ seen' \in [Calls -> Memory] /\ answer' \in [Calls -> Codes]
  BY MemoryType DEF Answer, IInv, TypeOK, Labels, Codes, Memory, StepOf
<1> QED BY <1>1 DEF InHandler

LEMMA OthersStay ==
  ASSUME IInv, NEW c \in Calls, StepOf(c), InHandler(c)', TypeOK', AtMostOneOwner',
         invitations' = invitations
  PROVE  IInv'
<1>1. \A d \in Calls : InHandler(d)'
  <2>1. ASSUME NEW d \in Calls, d # c PROVE InHandler(d)'
    BY <2>1 DEF StepOf, InHandler, IInv
  <2> QED BY <2>1
<1>2. OnePendingPerTarget'
  BY DEF OnePendingPerTarget, SameTarget, IInv
<1>3. IInv' <=> /\ TypeOK' /\ AtMostOneOwner' /\ OnePendingPerTarget'
                /\ (\A d \in Calls : InHandler(d)') /\ Targeted'
  BY DEF IInv, Targeted
<1>4. Targeted'
  BY DEF Targeted, IInv
<1> QED BY <1>1, <1>2, <1>3, <1>4

LEMMA SameOwners ==
  ASSUME members' = members, AtMostOneOwner
  PROVE  AtMostOneOwner'
BY DEF AtMostOneOwner, Owners, HasRole, IsActive

(* The steps that end the handler and write nothing. *)
LEMMA AnswersIInv ==
  ASSUME IInv, NEW c \in Calls, NEW code \in Codes, Answer(c, code),
         UNCHANGED <<registered, invitations, members>>
  PROVE  IInv'
<1>1. /\ call' = call /\ clock' = clock /\ pc' \in [Calls -> Labels]
      /\ seen' \in [Calls -> Memory] /\ answer' \in [Calls -> Codes]
      /\ StepOf(c) /\ InHandler(c)'
  BY AnswerStep
<1>2. TypeOK'
  BY <1>1 DEF IInv, TypeOK
<1>3. AtMostOneOwner'
  BY SameOwners DEF IInv
<1> QED BY <1>1, <1>2, <1>3, OthersStay

(* The steps that read, then answer or go on. *)
LEMMA QueryIInv ==
  ASSUME IInv, NEW c \in Calls, NEW label, NEW code \in Codes, NEW next \in Labels,
         NEW memory \in Memory, Query(c, label, code, next, memory),
         pc'[c] = next => InHandler(c)'
  PROVE  IInv'
<1>1. /\ registered' = registered /\ members' = members /\ invitations' = invitations
  BY DEF Query, tables
<1>2. CASE code # 0
  <2>1. Answer(c, code)
    BY <1>2 DEF Query
  <2>2. /\ call' = call /\ clock' = clock /\ pc' \in [Calls -> Labels]
        /\ seen' \in [Calls -> Memory] /\ answer' \in [Calls -> Codes]
        /\ StepOf(c) /\ InHandler(c)'
    BY <2>1, AnswerStep
  <2>3. TypeOK' /\ StepOf(c) /\ InHandler(c)'
    BY <1>1, <2>2 DEF IInv, TypeOK
  <2>4. AtMostOneOwner'
    BY <1>1, SameOwners DEF IInv
  <2> QED BY <1>1, <2>3, <2>4, OthersStay
<1>3. CASE code = 0
  <2>1. /\ pc' = [pc EXCEPT ![c] = next] /\ seen' = [seen EXCEPT ![c] = memory]
        /\ UNCHANGED <<call, answer, clock>>
    BY <1>3 DEF Query
  <2>2. pc' \in [Calls -> Labels] /\ seen' \in [Calls -> Memory]
    BY <2>1 DEF IInv, TypeOK, Memory
  <2>3. TypeOK'
    BY <1>1, <2>1, <2>2 DEF IInv, TypeOK, Memory
  <2>4. StepOf(c) /\ pc'[c] = next
    BY <2>1 DEF IInv, TypeOK, StepOf
  <2>5. InHandler(c)'
    BY <2>4
  <2>6. AtMostOneOwner'
    BY <1>1, SameOwners DEF IInv
  <2> QED BY <1>1, <2>3, <2>4, <2>5, <2>6, OthersStay
<1> QED BY <1>2, <1>3

(* The steps that write members, whatever they write. *)
LEMMA WriteIInv ==
  ASSUME IInv, NEW c \in Calls, NEW new \in [Users -> Member], NEW code \in {200, 201},
         WriteMembers(c, new, code)
  PROVE  IInv'
<1>1. registered' = registered /\ invitations' = invitations
  BY DEF WriteMembers
<1>2. (members' = new /\ OwnerIndexAllows(new) /\ Answer(c, code))
        \/ (members' = members /\ Answer(c, 409))
  BY DEF WriteMembers
<1>3. TypeOK' /\ StepOf(c) /\ InHandler(c)'
  <2>1. code \in Codes /\ 409 \in Codes
    BY DEF Codes
  <2>2. members' \in [Users -> Member]
    BY <1>2 DEF IInv, TypeOK
  <2>3. \E k \in Codes : Answer(c, k)
    BY <1>2, <2>1
  <2>4. PICK k \in Codes : Answer(c, k)
    BY <2>3
  <2>5. StepOf(c) /\ InHandler(c)' /\ clock' = clock /\ call' = call
    BY <2>4, AnswerStep
  <2>6. pc' \in [Calls -> Labels] /\ seen' \in [Calls -> Memory] /\ answer' \in [Calls -> Codes]
    BY <2>4, AnswerStep
  <2>7. TypeOK'
    BY <1>1, <2>2, <2>5, <2>6 DEF IInv, TypeOK, Codes, Memory
  <2> QED BY <2>5, <2>7
<1>4. AtMostOneOwner'
  <2>1. CASE members' = new /\ OwnerIndexAllows(new)
    <3>1. \A u \in Users : members'[u].status = "ACTIVE" /\ members'[u].role \in {"OWNER"}
                             => members'[u] = Joined("OWNER")
      BY <2>1 DEF Member, Joined
    <3>2. Owners' = {u \in Users : members'[u].status = "ACTIVE" /\ members'[u].role \in {"OWNER"}}
      BY DEF Owners, HasRole, IsActive
    <3> QED BY <2>1, <3>1, <3>2 DEF AtMostOneOwner, OwnerIndexAllows
  <2> QED BY <1>2, <2>1, SameOwners DEF IInv
<1> QED BY <1>1, <1>3, <1>4, OthersStay

-------------------------------------------------------------------------------
(* The actions of a slot *)

(* What the actions that read have in common: the call stays as it is. *)
LEMMA QueryKeepsCall ==
  ASSUME NEW c \in Calls, NEW label, NEW code, NEW next, NEW memory,
         Query(c, label, code, next, memory)
  PROVE  call' = call /\ invitations' = invitations /\ pc[c] = label
BY DEF Query, Answer, tables

LEMMA MemoryUpdates ==
  ASSUME TypeOK, NEW c \in Calls, NEW b \in BOOLEAN
  PROVE  /\ seen[c] \in Memory /\ clock \in Nat
         /\ [seen[c] EXCEPT !.now = clock] \in Memory
         /\ [Nothing EXCEPT !.now = clock] \in Memory
         /\ [Nothing EXCEPT !.found = b, !.now = clock] \in Memory
         /\ members[call[c].user].role \in Roles =>
              [Nothing EXCEPT !.role = members[call[c].user].role] \in Memory
BY DEF TypeOK, Memory, Nothing, Roles

(* The caller and the target of a call are users. *)
LEMMA CallType ==
  ASSUME NEW c \in Calls, TypeOK, InHandler(c)
  PROVE  /\ pc[c] \in Labels \ Free => call[c] \in Call /\ call[c].user \in Users
         /\ call[c].kind \in {"invite", "role", "remove"} => call[c].target \in Users
         /\ call[c].kind = "role" => call[c].role \in Roles
         /\ call[c].kind = "invite" => call[c].by \in {"id", "email"}
         /\ call[c].kind = "join" => call[c].invitation \in InvitationIds
<1>1. call[c] \in Call \cup {NoCall} /\ pc[c] \in Labels
  BY DEF TypeOK
<1>2. pc[c] \notin Free => call[c].kind \in {"create", "invite", "join", "role", "remove"}
  BY <1>1 DEF InHandler, Labels, Free
<1>3. call[c].kind # "none" => call[c] \in Call
  BY <1>1 DEF NoCall
<1>4. call[c] \in Call => call[c].user \in Users
  BY DEF Call
<1>5. call[c] \in Call =>
        /\ call[c].kind \in {"invite", "role", "remove"} => call[c].target \in Users
        /\ call[c].kind = "role" => call[c].role \in Roles
        /\ call[c].kind = "invite" => call[c].by \in {"id", "email"}
        /\ call[c].kind = "join" => call[c].invitation \in InvitationIds
  BY DEF Call
<1> QED BY <1>2, <1>3, <1>4, <1>5

LEMMA NextLabels == {"invitee", "pending", "insert", "claim", "target", "write", "victim", "remove"} \subseteq Labels
BY DEF Labels

LEMMA InviteReads ==
  ASSUME IInv, NEW c \in Calls,
         CheckInviter(c) \/ FindInvitee(c) \/ CheckMembership(c) \/ FindPending(c)
  PROVE  IInv'
<1>t. TypeOK /\ InHandler(c)
  BY DEF IInv
<1>n. Nothing \in Memory
  BY MemoryType
<1>1. CASE CheckInviter(c)
  <2> DEFINE code == IF ~ Exists THEN 404
                     ELSE IF ~ HasRole(call[c].user, {"OWNER", "MANAGER"}) THEN 403 ELSE 0
  <2>1. Query(c, "inviter", code, "invitee", Nothing) /\ code \in Codes
    BY <1>1 DEF CheckInviter, Codes
  <2> HIDE DEF code
  <2>2. pc'[c] = "invitee" => InHandler(c)'
    BY <1>t, <2>1, QueryKeepsCall DEF InHandler
  <2> QED BY <1>n, <2>1, <2>2, NextLabels, QueryIInv
<1>2. CASE FindInvitee(c)
  <2> DEFINE found == call[c].target \in registered
             code == IF call[c].by = "id" /\ ~ found THEN 404 ELSE 0
             next == IF found THEN "membership" ELSE "pending"
             memory == [Nothing EXCEPT !.found = found, !.now = clock]
  <2>1. Query(c, "invitee", code, next, memory) /\ code \in Codes /\ next \in {"membership", "pending"}
    BY <1>2 DEF FindInvitee, Codes
  <2>2. memory \in Memory
    <3>1. found \in BOOLEAN
      OBVIOUS
    <3> QED BY <1>t, <3>1, MemoryUpdates
  <2>f. call[c].by = "id" /\ code = 0 => memory.found
    <3>1. memory.found = found
      BY DEF Nothing
    <3>2. call[c].by = "id" /\ code = 0 => found
      OBVIOUS
    <3> QED BY <3>1, <3>2
  <2> HIDE DEF code, next, memory
  <2>g. /\ call' = call /\ pc[c] = "invitee"
        /\ code = 0 => seen'[c] = memory
        /\ code # 0 => pc'[c] = "done"
    BY <1>t, <2>1, QueryKeepsCall DEF Query, Answer, TypeOK
  <2>3. pc'[c] = next => InHandler(c)'
    BY <1>t, <2>1, <2>f, <2>g DEF InHandler
  <2>4. next \in Labels
    BY <2>1 DEF Labels
  <2> QED BY <2>1, <2>2, <2>3, <2>4, NextLabels, QueryIInv
<1>3. CASE CheckMembership(c)
  <2> DEFINE code == IF IsActive(call[c].target) THEN 409 ELSE 0
             memory == [seen[c] EXCEPT !.now = clock]
  <2>1. Query(c, "membership", code, "pending", memory) /\ code \in Codes
    BY <1>3 DEF CheckMembership, Codes
  <2>2. memory \in Memory
    BY <1>t, MemoryUpdates
  <2>f. memory.found = seen[c].found
    BY <1>t DEF TypeOK, Memory
  <2> HIDE DEF code, memory
  <2>g. /\ call' = call /\ pc[c] = "membership"
        /\ code = 0 => seen'[c] = memory
        /\ code # 0 => pc'[c] = "done"
    BY <1>t, <2>1, QueryKeepsCall DEF Query, Answer, TypeOK
  <2>3. pc'[c] = "pending" => InHandler(c)'
    BY <1>t, <2>1, <2>f, <2>g DEF InHandler
  <2> QED BY <2>1, <2>2, <2>3, NextLabels, QueryIInv
<1>4. CASE FindPending(c)
  <2> DEFINE code == IF \E i \in Rivals(c) : invitations[i].expires > seen[c].now THEN 409 ELSE 0
  <2>1. Query(c, "pending", code, "insert", seen[c]) /\ code \in Codes
    BY <1>4 DEF FindPending, Codes
  <2>2. seen[c] \in Memory
    BY <1>t, MemoryUpdates
  <2> HIDE DEF code
  <2>g. /\ call' = call /\ pc[c] = "pending"
        /\ code = 0 => seen'[c] = seen[c]
        /\ code # 0 => pc'[c] = "done"
    BY <1>t, <2>1, QueryKeepsCall DEF Query, Answer, TypeOK
  <2>3. pc'[c] = "insert" => InHandler(c)'
    BY <1>t, <2>1, <2>g DEF InHandler
  <2> QED BY <2>1, <2>2, <2>3, NextLabels, QueryIInv
<1> QED BY <1>1, <1>2, <1>3, <1>4

LEMMA JoinReads ==
  ASSUME IInv, NEW c \in Calls, FindInvitation(c) \/ CheckJoiner(c)
  PROVE  IInv'
<1>t. TypeOK /\ InHandler(c)
  BY DEF IInv
<1>n. Nothing \in Memory
  BY MemoryType
<1>1. CASE FindInvitation(c)
  <2> DEFINE inv == invitations[call[c].invitation]
             over == inv.expires <= clock
             code == IF inv.status = "NONE" THEN 404
                     ELSE IF inv.status # "PENDING" THEN 400
                     ELSE IF over THEN 0
                     ELSE IF ~ Addressed(call[c].user, inv) THEN 403 ELSE 0
             next == IF over THEN "expire" ELSE "joiner"
  <2>1. Query(c, "code", code, next, Nothing) /\ code \in Codes /\ next \in {"expire", "joiner"}
    BY <1>1 DEF FindInvitation, Codes
  <2>2. code = 0 => inv.status # "NONE" /\ (~ over => Addressed(call[c].user, inv))
    OBVIOUS
  <2>3. next = "joiner" => ~ over
    OBVIOUS
  <2>4. code # 0 => pc'[c] = "done"
    BY <1>t, <2>1 DEF Query, Answer, TypeOK
  <2> HIDE DEF code, next, over
  <2>5. pc'[c] = next => InHandler(c)'
    BY <1>t, <2>1, <2>2, <2>3, <2>4, QueryKeepsCall DEF InHandler, Addressed
  <2>6. next \in Labels
    BY <2>1 DEF Labels
  <2> QED BY <1>n, <2>1, <2>5, <2>6, NextLabels, QueryIInv
<1>2. CASE CheckJoiner(c)
  <2> DEFINE code == IF IsActive(call[c].user) THEN 409 ELSE 0
             memory == [Nothing EXCEPT !.now = clock]
  <2>1. Query(c, "joiner", code, "claim", memory) /\ code \in Codes
    BY <1>2 DEF CheckJoiner, Codes
  <2>2. memory \in Memory
    BY <1>t, MemoryUpdates
  <2> HIDE DEF code, memory
  <2>3. pc'[c] = "claim" => InHandler(c)'
    BY <1>t, <2>1, QueryKeepsCall DEF InHandler, Addressed
  <2> QED BY <2>1, <2>2, <2>3, NextLabels, QueryIInv
<1> QED BY <1>1, <1>2

LEMMA RoleReads ==
  ASSUME IInv, NEW c \in Calls,
         CheckOwner(c) \/ FindTarget(c) \/ CheckRemover(c) \/ FindVictim(c)
  PROVE  IInv'
<1>t. TypeOK /\ InHandler(c)
  BY DEF IInv
<1>n. Nothing \in Memory
  BY MemoryType
<1>1. CASE CheckOwner(c)
  <2> DEFINE code == IF ~ Exists THEN 404
                     ELSE IF ~ HasRole(call[c].user, {"OWNER"}) THEN 403 ELSE 0
  <2>1. Query(c, "owner", code, "target", Nothing) /\ code \in Codes
    BY <1>1 DEF CheckOwner, Codes
  <2> HIDE DEF code
  <2>2. pc'[c] = "target" => InHandler(c)'
    BY <1>t, <2>1, QueryKeepsCall DEF InHandler
  <2> QED BY <1>n, <2>1, <2>2, NextLabels, QueryIInv
<1>2. CASE FindTarget(c)
  <2> DEFINE code == IF ~ IsActive(call[c].target) THEN 404 ELSE IF OwnRole(c) THEN 403 ELSE 0
  <2>1. Query(c, "target", code, "write", Nothing) /\ code \in Codes
    BY <1>2 DEF FindTarget, Codes
  <2> HIDE DEF code
  <2>2. pc'[c] = "write" => InHandler(c)'
    BY <1>t, <2>1, QueryKeepsCall DEF InHandler
  <2> QED BY <1>n, <2>1, <2>2, NextLabels, QueryIInv
<1>3. CASE CheckRemover(c)
  <2> DEFINE code == IF ~ Exists THEN 404
                     ELSE IF ~ HasRole(call[c].user, {"OWNER", "MANAGER"}) THEN 403 ELSE 0
             memory == [Nothing EXCEPT !.role = members[call[c].user].role]
  <2>1. Query(c, "remover", code, "victim", memory) /\ code \in Codes
    BY <1>3 DEF CheckRemover, Codes
  <2>2. memory \in Memory
    <3>1. pc[c] = "remover"
      BY <2>1 DEF Query
    <3>2. call[c].user \in Users
      BY <1>t, <3>1, CallType DEF Free, Labels
    <3>3. members[call[c].user].role \in Roles
      BY <1>t, <3>2 DEF TypeOK, Member
    <3> QED BY <1>t, <3>3, MemoryUpdates
  <2> HIDE DEF code, memory
  <2>3. pc'[c] = "victim" => InHandler(c)'
    BY <1>t, <2>1, QueryKeepsCall DEF InHandler
  <2> QED BY <2>1, <2>2, <2>3, NextLabels, QueryIInv
<1>4. CASE FindVictim(c)
  <2> DEFINE code == IF ~ IsActive(call[c].target) THEN 404
                     ELSE IF IsOwner(c) THEN 400
                     ELSE IF AmongManagers(c) THEN 403 ELSE 0
  <2>1. Query(c, "victim", code, "remove", Nothing) /\ code \in Codes
    BY <1>4 DEF FindVictim, Codes
  <2> HIDE DEF code
  <2>2. pc'[c] = "remove" => InHandler(c)'
    BY <1>t, <2>1, QueryKeepsCall DEF InHandler
  <2> QED BY <1>n, <2>1, <2>2, NextLabels, QueryIInv
<1> QED BY <1>1, <1>2, <1>3, <1>4

LEMMA MemberWrites ==
  ASSUME IInv, NEW c \in Calls, CreateGroup(c) \/ WriteRole(c) \/ RemoveMember(c)
  PROVE  IInv'
<1>t. TypeOK /\ InHandler(c)
  BY DEF IInv
<1>j. \A r \in Roles : Joined(r) \in Member
  BY MemoryType
<1>1. CASE CreateGroup(c)
  <2> DEFINE new == [members EXCEPT ![call[c].user] = Joined("OWNER")]
  <2>1. new \in [Users -> Member]
    BY <1>t, <1>j DEF TypeOK, Roles
  <2>2. WriteMembers(c, new, 201)
    BY <1>1 DEF CreateGroup
  <2> HIDE DEF new
  <2> QED BY <2>1, <2>2, WriteIInv
<1>2. CASE RemoveMember(c)
  <2> DEFINE new == [members EXCEPT ![call[c].target].status = "REMOVED"]
  <2>1. new \in [Users -> Member]
    BY <1>t DEF TypeOK, Member
  <2>2. WriteMembers(c, new, 200)
    BY <1>2 DEF RemoveMember
  <2> HIDE DEF new
  <2> QED BY <2>1, <2>2, WriteIInv
<1>3. CASE WriteRole(c)
  <2> DEFINE me == call[c].user
             target == call[c].target
             role == call[c].role
             both == [members EXCEPT ![me].role = "MANAGER", ![target].role = "OWNER"]
             one == [members EXCEPT ![target].role = role]
             new == IF role = "OWNER" /\ target # me THEN both ELSE one
  <2>1. role \in Roles
    BY <1>3, <1>t, CallType DEF InHandler, WriteRole
  <2>2. one \in [Users -> Member]
    BY <1>t, <2>1 DEF TypeOK, Member
  <2>3. both \in [Users -> Member]
    <3> DEFINE half == [members EXCEPT ![me].role = "MANAGER"]
    <3>1. half \in [Users -> Member]
      BY <1>t DEF TypeOK, Member, Roles
    <3>2. [half EXCEPT ![target].role = "OWNER"] \in [Users -> Member]
      BY <3>1 DEF Member, Roles
    <3>3. both = [half EXCEPT ![target].role = "OWNER"]
      OBVIOUS
    <3> QED BY <3>2, <3>3
  <2>4. WriteMembers(c, new, 200)
    BY <1>3 DEF WriteRole
  <2>5. new \in [Users -> Member]
    BY <2>2, <2>3
  <2> HIDE DEF new
  <2> QED BY <2>4, <2>5, WriteIInv
<1> QED BY <1>1, <1>2, <1>3

(* The steps that end the handler by writing invitations. *)
LEMMA SettleIInv ==
  ASSUME IInv, NEW c \in Calls, NEW code \in Codes, Answer(c, code),
         registered' = registered, members' \in [Users -> Member], AtMostOneOwner',
         invitations' \in [InvitationIds -> Invitation],
         InvitationsKept, OnePendingPerTarget', Targeted'
  PROVE  IInv'
<1>1. /\ call' = call /\ clock' = clock /\ pc' \in [Calls -> Labels]
      /\ seen' \in [Calls -> Memory] /\ answer' \in [Calls -> Codes]
      /\ StepOf(c) /\ InHandler(c)'
  BY AnswerStep
<1>2. TypeOK'
  BY <1>1 DEF IInv, TypeOK
<1>3. ASSUME NEW d \in Calls, d # c PROVE InHandler(d)'
  <2>1. InHandler(d) /\ TypeOK
    BY DEF IInv
  <2>2. call'[d] = call[d] /\ pc'[d] = pc[d] /\ seen'[d] = seen[d]
    BY <1>1, <1>3 DEF StepOf
  <2>3. pc[d] \in {"joiner", "claim", "expire"} => call[d].invitation \in InvitationIds
    BY <2>1, CallType DEF InHandler
  <2>4. pc[d] \in {"joiner", "claim"} => Addressed(call'[d].user, invitations'[call'[d].invitation])
    <3> SUFFICES ASSUME pc[d] \in {"joiner", "claim"}
                 PROVE  Addressed(call'[d].user, invitations'[call'[d].invitation])
      OBVIOUS
    <3> DEFINE i == call[d].invitation
    <3>1. /\ i \in InvitationIds /\ invitations[i].status # "NONE"
          /\ Addressed(call[d].user, invitations[i])
      BY <2>1, <2>3 DEF InHandler
    <3>2. invitations[i].user # NULL \/ invitations[i].email # NULL
      BY <3>1 DEF IInv, Targeted
    <3>3. /\ invitations'[i].email = invitations[i].email
          /\ \/ invitations'[i].user = invitations[i].user
             \/ Addressed(invitations'[i].user, invitations[i])
      BY <3>1 DEF InvitationsKept
    <3> QED BY <2>2, <3>1, <3>2, <3>3 DEF Addressed
  <2> QED BY <2>1, <2>2, <2>3, <2>4 DEF InHandler, InvitationsKept
<1> QED BY <1>1, <1>2, <1>3 DEF IInv

LEMMA InsertIInv ==
  ASSUME IInv, NEW c \in Calls, InsertInvitation(c)
  PROVE  IInv'
<1>t. TypeOK /\ InHandler(c)
  BY DEF IInv
<1>1. registered' = registered /\ members' = members
  BY DEF InsertInvitation
<1>2. CASE TargetIndexAllows(c) /\ Answer(c, 201)
           /\ \E i \in InvitationIds :
                /\ invitations[i].status = "NONE"
                /\ invitations' = [j \in InvitationIds |->
                     IF j = i THEN Invited(c)
                     ELSE IF j \in Expired(c) THEN [invitations[j] EXCEPT !.status = "EXPIRED"]
                     ELSE invitations[j]]
  <2>1. PICK i \in InvitationIds :
          /\ invitations[i].status = "NONE"
          /\ invitations' = [j \in InvitationIds |->
               IF j = i THEN Invited(c)
               ELSE IF j \in Expired(c) THEN [invitations[j] EXCEPT !.status = "EXPIRED"]
               ELSE invitations[j]]
    BY <1>2
  <2>2. PICK new : new = Invited(c)
    OBVIOUS
  <2>3. call[c].by \in {"id", "email"} /\ call[c].target \in Users
        /\ (call[c].by = "id" => seen[c].found)
    BY <1>t, CallType DEF InsertInvitation, InHandler
  <2>4. seen[c].now + Validity \in Nat
    <3>1. seen[c].now \in Nat
      BY <1>t DEF TypeOK, Memory
    <3> QED BY <3>1 DEF MembershipsAssumption
  <2>5. /\ new \in Invitation /\ new.status = "PENDING"
        /\ new.user # NULL \/ new.email # NULL
    BY <2>2, <2>3, <2>4 DEF Invited, Invitation, MembershipsAssumption
  <2>6. \A j \in InvitationIds : j # i =>
          /\ invitations'[j].user = invitations[j].user
          /\ invitations'[j].email = invitations[j].email
          /\ invitations'[j].status =
               IF j \in Expired(c) THEN "EXPIRED" ELSE invitations[j].status
    BY <2>1, <1>t DEF TypeOK, Invitation
  <2>7. invitations'[i] = new
    BY <2>1, <2>2
  <2>8. invitations' \in [InvitationIds -> Invitation]
    <3>1. \A j \in InvitationIds : invitations[j] \in Invitation
      BY <1>t DEF TypeOK
    <3>2. \A j \in InvitationIds : [invitations[j] EXCEPT !.status = "EXPIRED"] \in Invitation
      BY <3>1 DEF Invitation
    <3> QED BY <2>1, <2>2, <2>5, <3>1, <3>2
  <2>9. InvitationsKept
    BY <2>1, <2>6 DEF InvitationsKept
  <2>10. Targeted'
    BY <2>1, <2>5, <2>6, <2>7 DEF IInv, Targeted, Expired, Rivals
  <2>11. \A j \in InvitationIds : j # i /\ invitations'[j].status = "PENDING" =>
           /\ invitations[j].status = "PENDING" /\ ~ SameTarget(new, invitations[j])
    BY <1>2, <2>2, <2>6 DEF TargetIndexAllows, Rivals
  <2>12. OnePendingPerTarget'
    <3> SUFFICES ASSUME NEW j \in InvitationIds, NEW k \in InvitationIds,
                        invitations'[j].status = "PENDING", invitations'[k].status = "PENDING",
                        SameTarget(invitations'[j], invitations'[k])
                 PROVE  j = k
      BY DEF OnePendingPerTarget, SameTarget
    <3>1. CASE j = i /\ k # i
      BY <3>1, <2>6, <2>7, <2>11 DEF SameTarget
    <3>2. CASE k = i /\ j # i
      BY <3>2, <2>6, <2>7, <2>11 DEF SameTarget
    <3>3. CASE j # i /\ k # i
      BY <3>3, <2>6, <2>11 DEF SameTarget, OnePendingPerTarget, IInv
    <3> QED BY <3>1, <3>2, <3>3
  <2>13. members' \in [Users -> Member] /\ AtMostOneOwner'
    BY <1>1, <1>t, SameOwners DEF IInv, TypeOK
  <2>14. Answer(c, 201) /\ 201 \in Codes
    BY <1>2 DEF Codes
  <2> QED BY <1>1, <2>8, <2>9, <2>10, <2>12, <2>13, <2>14, SettleIInv
<1>3. CASE Answer(c, 409) /\ UNCHANGED invitations
  <2>1. 409 \in Codes
    BY DEF Codes
  <2> QED BY <1>1, <1>3, <2>1, AnswersIInv
<1> QED BY <1>2, <1>3 DEF InsertInvitation

LEMMA SettlesIInv ==
  ASSUME IInv, NEW c \in Calls, ExpireInvitation(c) \/ ClaimInvitation(c)
  PROVE  IInv'
<1>t. TypeOK /\ InHandler(c)
  BY DEF IInv
<1>i. PICK i : i = call[c].invitation
  OBVIOUS
<1>1. i \in InvitationIds /\ invitations[i].status # "NONE"
  BY <1>t, <1>i, CallType DEF InHandler, ExpireInvitation, ClaimInvitation
<1>k. registered' = registered /\ 200 \in Codes /\ 400 \in Codes
  BY DEF ExpireInvitation, ClaimInvitation, Codes
<1>2. CASE ExpireInvitation(c)
  <2>1. /\ members' = members /\ Answer(c, 400)
        /\ invitations' = [invitations EXCEPT ![i].status = "EXPIRED"]
    BY <1>2, <1>i DEF ExpireInvitation
  <2>2. invitations' \in [InvitationIds -> Invitation]
    BY <1>1, <1>t, <2>1 DEF TypeOK, Invitation
  <2>3. \A j \in InvitationIds :
          /\ invitations'[j].user = invitations[j].user
          /\ invitations'[j].email = invitations[j].email
          /\ invitations'[j].status = IF j = i THEN "EXPIRED" ELSE invitations[j].status
    BY <1>1, <1>t, <2>1 DEF TypeOK, Invitation
  <2>4. InvitationsKept
    BY <2>3 DEF InvitationsKept
  <2>5. Targeted'
    BY <1>1, <2>3 DEF IInv, Targeted
  <2>6. OnePendingPerTarget'
    BY <2>3 DEF IInv, OnePendingPerTarget, SameTarget
  <2>7. members' \in [Users -> Member] /\ AtMostOneOwner'
    BY <1>t, <2>1, SameOwners DEF IInv, TypeOK
  <2> QED BY <1>k, <2>1, <2>2, <2>4, <2>5, <2>6, <2>7, SettleIInv
<1>3. CASE ClaimInvitation(c) /\ StillOpen(c, invitations[i])
  <2> DEFINE u == call[c].user
  <2>1. /\ members' = [members EXCEPT ![u] = Joined("MEMBER")] /\ Answer(c, 200)
        /\ invitations' = [invitations EXCEPT ![i].status = "ACCEPTED", ![i].user = u]
    BY <1>3, <1>i DEF ClaimInvitation
  <2>2. u \in Users /\ Addressed(u, invitations[i])
    BY <1>3, <1>i, <1>t, CallType DEF ClaimInvitation, InHandler, Labels, Free
  <2> HIDE DEF u
  <2>3. \A j \in InvitationIds :
          /\ invitations'[j].user = IF j = i THEN u ELSE invitations[j].user
          /\ invitations'[j].email = invitations[j].email
          /\ invitations'[j].expires = invitations[j].expires
          /\ invitations'[j].status = IF j = i THEN "ACCEPTED" ELSE invitations[j].status
    BY <1>1, <1>t, <2>1 DEF TypeOK, Invitation
  <2>4. invitations' \in [InvitationIds -> Invitation]
    <3> DEFINE half == [invitations EXCEPT ![i].status = "ACCEPTED"]
    <3>1. half \in [InvitationIds -> Invitation]
      BY <1>1, <1>t DEF TypeOK, Invitation
    <3>2. invitations' = [half EXCEPT ![i].user = u]
      BY <2>1
    <3> HIDE DEF half
    <3> QED BY <1>1, <2>2, <3>1, <3>2 DEF Invitation
  <2>5. InvitationsKept
    BY <2>2, <2>3 DEF InvitationsKept
  <2>6. Targeted'
    BY <1>1, <2>2, <2>3 DEF IInv, Targeted, MembershipsAssumption
  <2>7. OnePendingPerTarget'
    BY <2>3 DEF IInv, OnePendingPerTarget, SameTarget
  <2>8. members' \in [Users -> Member]
    BY <1>t, <2>1, MemoryType DEF TypeOK, Roles
  <2>9. AtMostOneOwner'
    <3>1. \A v \in Users : members'[v].status = "ACTIVE" /\ members'[v].role \in {"OWNER"}
                           => members'[v] = members[v]
      BY <1>t, <2>1 DEF TypeOK, Joined
    <3>2. Owners' = {v \in Users : members'[v].status = "ACTIVE" /\ members'[v].role \in {"OWNER"}}
      BY DEF Owners, HasRole, IsActive
    <3> QED BY <3>1, <3>2 DEF IInv, AtMostOneOwner, Owners, HasRole, IsActive
  <2> QED BY <1>k, <2>1, <2>4, <2>5, <2>6, <2>7, <2>8, <2>9, SettleIInv
<1>4. CASE ClaimInvitation(c) /\ ~ StillOpen(c, invitations[i])
  <2>1. Answer(c, 400) /\ UNCHANGED <<registered, invitations, members>>
    BY <1>4, <1>i DEF ClaimInvitation
  <2> QED BY <1>k, <2>1, AnswersIInv
<1> QED BY <1>2, <1>3, <1>4

LEMMA ReceiveIInv ==
  ASSUME IInv, NEW c \in Calls, Receive(c)
  PROVE  IInv'
<1>t. TypeOK /\ InHandler(c)
  BY DEF IInv
<1>1. PICK new \in Call, label \in Labels :
        /\ Issue(c, new, label)
        /\ \/ label = "create" /\ new.kind = "create"
           \/ label = "inviter" /\ new.kind = "invite"
           \/ label = "code" /\ new.kind = "join"
           \/ label = "owner" /\ new.kind = "role"
           \/ label = "remover" /\ new.kind = "remove"
  <2>1. CASE ReceiveCreate(c)
    BY <2>1 DEF ReceiveCreate, Call, Labels
  <2>2. CASE ReceiveInvite(c)
    BY <2>2 DEF ReceiveInvite, Call, Labels
  <2>3. CASE ReceiveJoin(c)
    BY <2>3 DEF ReceiveJoin, Call, Labels
  <2>4. CASE ReceiveRole(c)
    BY <2>4 DEF ReceiveRole, Call, Labels
  <2>5. CASE ReceiveRemove(c)
    BY <2>5 DEF ReceiveRemove, Call, Labels
  <2> QED BY <2>1, <2>2, <2>3, <2>4, <2>5 DEF Receive
<1>2. UNCHANGED <<registered, members, invitations, clock, seen>>
  BY <1>1 DEF Issue, tables
<1>3. TypeOK'
  BY <1>t, <1>1, <1>2 DEF Issue, TypeOK, Codes
<1>4. StepOf(c)
  BY <1>t, <1>1, <1>2 DEF Issue, TypeOK, StepOf
<1>5. InHandler(c)'
  <2>1. call'[c] = new /\ pc'[c] = label
    BY <1>t, <1>1 DEF Issue, TypeOK
  <2> QED BY <1>1, <2>1 DEF InHandler
<1>6. AtMostOneOwner'
  BY <1>2, SameOwners DEF IInv
<1> QED BY <1>2, <1>3, <1>4, <1>5, <1>6, OthersStay

LEMMA StepIInv == IInv /\ [Next]_vars => IInv'
<1> SUFFICES ASSUME IInv, [Next]_vars PROVE IInv'
  OBVIOUS
<1>1. ASSUME NEW c \in Calls, Handle(c) PROVE IInv'
  <2>1. CASE CreateGroup(c) \/ WriteRole(c) \/ RemoveMember(c)
    BY <2>1, MemberWrites
  <2>2. CASE CheckInviter(c) \/ FindInvitee(c) \/ CheckMembership(c) \/ FindPending(c)
    BY <2>2, InviteReads
  <2>3. CASE FindInvitation(c) \/ CheckJoiner(c)
    BY <2>3, JoinReads
  <2>4. CASE CheckOwner(c) \/ FindTarget(c) \/ CheckRemover(c) \/ FindVictim(c)
    BY <2>4, RoleReads
  <2>5. CASE InsertInvitation(c)
    BY <2>5, InsertIInv
  <2>6. CASE ExpireInvitation(c) \/ ClaimInvitation(c)
    BY <2>6, SettlesIInv
  <2>7. CASE Fail(c)
    <3>1. Answer(c, 500) /\ 500 \in Codes /\ UNCHANGED <<registered, invitations, members>>
      BY <2>7 DEF Fail, Codes, tables
    <3> QED BY <3>1, AnswersIInv
  <2> QED BY <1>1, <2>1, <2>2, <2>3, <2>4, <2>5, <2>6, <2>7 DEF Handle
<1>2. CASE Tick \/ (\E u \in Users : Register(u)) \/ UNCHANGED vars
  <2>1. UNCHANGED <<members, invitations, call, pc, seen, answer>>
    BY <1>2 DEF Tick, Register, slots, tables, vars
  <2>2. registered' \subseteq Users /\ clock' \in Nat
    BY <1>2 DEF Tick, Register, tables, vars, IInv, TypeOK
  <2>3. TypeOK'
    BY <2>1, <2>2 DEF IInv, TypeOK
  <2>4. AtMostOneOwner'
    BY <2>1, SameOwners DEF IInv
  <2>5. OnePendingPerTarget' /\ Targeted'
    BY <2>1 DEF IInv, OnePendingPerTarget, SameTarget, Targeted
  <2>6. \A c \in Calls : InHandler(c)'
    BY <2>1 DEF IInv, InHandler, Addressed
  <2> QED BY <2>3, <2>4, <2>5, <2>6 DEF IInv
<1> QED BY <1>1, <1>2, ReceiveIInv DEF Next

-------------------------------------------------------------------------------
(* The inductive invariant: who is in the group, what is pending, and that *)
(* each handler still works on the call and the invitation it checked.     *)
THEOREM Invariant == Spec => []IInv
BY InitIInv, StepIInv, PTL DEF Spec

(* Racing transfers of ownership leave at most one active owner. *)
THEOREM OneOwner == Spec => []AtMostOneOwner
<1>1. IInv => AtMostOneOwner
  BY DEF IInv
<1> QED BY <1>1, Invariant, PTL

(* Racing invitations leave at most one pending for an account or address. *)
THEOREM OnePendingTarget == Spec => []OnePendingPerTarget
<1>1. IInv => OnePendingPerTarget
  BY DEF IInv
<1> QED BY <1>1, Invariant, PTL
-------------------------------------------------------------------------------
(* What the action properties need besides: Founded, Timed, Sequential     *)

LEMMA AnswerSlots ==
  ASSUME TypeOK, NEW c \in Calls, NEW code, Answer(c, code)
  PROVE  /\ call' = call /\ clock' = clock /\ StepOf(c)
         /\ pc'[c] = "done" /\ seen'[c] = Nothing /\ answer'[c] = code
         /\ \A d \in Calls \ {c} : answer'[d] = answer[d]
BY DEF Answer, TypeOK, StepOf

LEMMA QuerySlots ==
  ASSUME TypeOK, NEW c \in Calls, NEW label, NEW code, NEW next, NEW memory,
         Query(c, label, code, next, memory)
  PROVE  /\ pc[c] = label /\ call' = call /\ clock' = clock /\ StepOf(c)
         /\ registered' = registered /\ members' = members /\ invitations' = invitations
         /\ \/ code = 0 /\ pc'[c] = next /\ seen'[c] = memory /\ answer' = answer
            \/ /\ code # 0 /\ pc'[c] = "done" /\ seen'[c] = Nothing /\ answer'[c] = code
               /\ \A d \in Calls \ {c} : answer'[d] = answer[d]
<1>1. pc[c] = label /\ registered' = registered /\ members' = members /\ invitations' = invitations
  BY DEF Query, tables
<1>2. CASE code # 0
  <2>1. Answer(c, code)
    BY <1>2 DEF Query
  <2> QED BY <1>1, <1>2, <2>1, AnswerSlots
<1>3. CASE code = 0
  BY <1>1, <1>3 DEF Query, TypeOK, StepOf
<1> QED BY <1>2, <1>3

Reading(c) ==
  \/ CheckInviter(c) \/ FindInvitee(c) \/ CheckMembership(c) \/ FindPending(c)
  \/ FindInvitation(c) \/ CheckJoiner(c) \/ CheckOwner(c) \/ FindTarget(c)
  \/ CheckRemover(c) \/ FindVictim(c)

(* The labels a read leads to. *)
Outcomes == {"done", "invitee", "membership", "pending", "insert", "expire", "joiner", "claim",
             "target", "write", "victim", "remove"}

(* A read changes nothing but its slot, answers no success and leaves its  *)
(* handler with what it has just checked.                                  *)
LEMMA ReadEffect ==
  ASSUME SInv, NEW c \in Calls, Reading(c)
  PROVE  /\ call' = call /\ clock' = clock /\ StepOf(c)
         /\ registered' = registered /\ members' = members /\ invitations' = invitations
         /\ pc[c] \notin Free /\ pc'[c] \in Outcomes
         /\ pc'[c] \in Inside => Exists
         /\ seen'[c].now <= clock
         /\ pc'[c] = "expire" => invitations[call[c].invitation].expires <= clock
         /\ Checked(c) => Checked(c)'
         /\ \A d \in Calls : answer'[d] = answer[d] \/ answer'[d] \notin {200, 201}
<1>t. TypeOK /\ InHandler(c) /\ seen[c].now <= clock /\ (pc[c] \in Inside => Exists)
  BY DEF SInv, IInv, Timed, Founded
<1>n. Nothing.now <= clock /\ clock \in Nat /\ seen[c] \in Memory
  BY <1>t DEF Nothing, TypeOK
<1> USE DEF Outcomes
<1>1. CASE CheckInviter(c)
  <2> DEFINE code == IF ~ Exists THEN 404
                     ELSE IF ~ HasRole(call[c].user, {"OWNER", "MANAGER"}) THEN 403 ELSE 0
  <2>1. Query(c, "inviter", code, "invitee", Nothing)
    BY <1>1 DEF CheckInviter
  <2>2. code \notin {200, 201} /\ (code = 0 => Exists /\ HasRole(call[c].user, {"OWNER", "MANAGER"}))
    OBVIOUS
  <2> HIDE DEF code
  <2> QED BY <1>t, <1>n, <2>1, <2>2, QuerySlots DEF Checked, HasRole, IsActive, Inside, Free
<1>2. CASE FindInvitee(c)
  <2> DEFINE found == call[c].target \in registered
             code == IF call[c].by = "id" /\ ~ found THEN 404 ELSE 0
             next == IF found THEN "membership" ELSE "pending"
             memory == [Nothing EXCEPT !.found = found, !.now = clock]
  <2>1. Query(c, "invitee", code, next, memory)
    BY <1>2 DEF FindInvitee
  <2>2. code \notin {200, 201} /\ next \in {"membership", "pending"}
    OBVIOUS
  <2>3. memory.now = clock
    BY DEF Nothing
  <2> HIDE DEF code, next, memory
  <2> QED BY <1>t, <1>n, <2>1, <2>2, <2>3, QuerySlots DEF Checked, HasRole, IsActive, Inside, Free
<1>3. CASE CheckMembership(c)
  <2> DEFINE code == IF IsActive(call[c].target) THEN 409 ELSE 0
             memory == [seen[c] EXCEPT !.now = clock]
  <2>1. Query(c, "membership", code, "pending", memory)
    BY <1>3 DEF CheckMembership
  <2>2. code \notin {200, 201}
    OBVIOUS
  <2>3. memory.now = clock
    BY <1>n DEF Memory
  <2> HIDE DEF code, memory
  <2> QED BY <1>t, <1>n, <2>1, <2>2, <2>3, QuerySlots DEF Checked, HasRole, IsActive, Inside, Free
<1>4. CASE FindPending(c)
  <2> DEFINE code == IF \E i \in Rivals(c) : invitations[i].expires > seen[c].now THEN 409 ELSE 0
  <2>1. Query(c, "pending", code, "insert", seen[c])
    BY <1>4 DEF FindPending
  <2>2. code \notin {200, 201}
    OBVIOUS
  <2> HIDE DEF code
  <2> QED BY <1>t, <1>n, <2>1, <2>2, QuerySlots DEF Checked, HasRole, IsActive, Inside, Free
<1>5. CASE FindInvitation(c)
  <2> DEFINE inv == invitations[call[c].invitation]
             over == inv.expires <= clock
             code == IF inv.status = "NONE" THEN 404
                     ELSE IF inv.status # "PENDING" THEN 400
                     ELSE IF over THEN 0
                     ELSE IF ~ Addressed(call[c].user, inv) THEN 403 ELSE 0
             next == IF over THEN "expire" ELSE "joiner"
  <2>1. Query(c, "code", code, next, Nothing)
    BY <1>5 DEF FindInvitation
  <2>2. code \notin {200, 201}
    OBVIOUS
  <2>3. next \in {"joiner", "expire"} /\ (next = "expire" => over)
    OBVIOUS
  <2> HIDE DEF code, next
  <2> QED BY <1>t, <1>n, <2>1, <2>2, <2>3, QuerySlots DEF Checked, Inside, Free
<1>6. CASE CheckJoiner(c)
  <2> DEFINE code == IF IsActive(call[c].user) THEN 409 ELSE 0
             memory == [Nothing EXCEPT !.now = clock]
  <2>1. Query(c, "joiner", code, "claim", memory)
    BY <1>6 DEF CheckJoiner
  <2>2. code \notin {200, 201} /\ (code = 0 => ~ IsActive(call[c].user))
    OBVIOUS
  <2>3. memory.now = clock
    BY DEF Nothing
  <2> HIDE DEF code, memory
  <2> QED BY <1>t, <1>n, <2>1, <2>2, <2>3, QuerySlots DEF Checked, IsActive, Inside, Free
<1>7. CASE CheckOwner(c)
  <2> DEFINE code == IF ~ Exists THEN 404
                     ELSE IF ~ HasRole(call[c].user, {"OWNER"}) THEN 403 ELSE 0
  <2>1. Query(c, "owner", code, "target", Nothing)
    BY <1>7 DEF CheckOwner
  <2>2. code \notin {200, 201} /\ (code = 0 => Exists /\ HasRole(call[c].user, {"OWNER"}))
    OBVIOUS
  <2>3. call[c].user \in Users
    BY <1>t, <2>1, CallType DEF Query, Labels, Free
  <2> HIDE DEF code
  <2> QED BY <1>t, <1>n, <2>1, <2>2, <2>3, QuerySlots
          DEF Checked, Owners, HasRole, IsActive, Inside, Free
<1>8. CASE FindTarget(c)
  <2> DEFINE code == IF ~ IsActive(call[c].target) THEN 404 ELSE IF OwnRole(c) THEN 403 ELSE 0
  <2>1. Query(c, "target", code, "write", Nothing)
    BY <1>8 DEF FindTarget
  <2>2. code \notin {200, 201} /\ (code = 0 => IsActive(call[c].target) /\ ~ OwnRole(c))
    OBVIOUS
  <2> HIDE DEF code
  <2> QED BY <1>t, <1>n, <2>1, <2>2, QuerySlots
          DEF Checked, Owners, HasRole, IsActive, OwnRole, Inside, Free
<1>9. CASE CheckRemover(c)
  <2> DEFINE code == IF ~ Exists THEN 404
                     ELSE IF ~ HasRole(call[c].user, {"OWNER", "MANAGER"}) THEN 403 ELSE 0
             memory == [Nothing EXCEPT !.role = members[call[c].user].role]
  <2>1. Query(c, "remover", code, "victim", memory)
    BY <1>9 DEF CheckRemover
  <2>2. code \notin {200, 201} /\ (code = 0 => Exists /\ HasRole(call[c].user, {"OWNER", "MANAGER"}))
    OBVIOUS
  <2>3. memory.now = Nothing.now /\ memory.role = members[call[c].user].role
    BY DEF Nothing
  <2> HIDE DEF code, memory
  <2> QED BY <1>t, <1>n, <2>1, <2>2, <2>3, QuerySlots DEF Checked, HasRole, IsActive, Inside, Free
<1>10. CASE FindVictim(c)
  <2> DEFINE code == IF ~ IsActive(call[c].target) THEN 404
                     ELSE IF IsOwner(c) THEN 400
                     ELSE IF AmongManagers(c) THEN 403 ELSE 0
  <2>1. Query(c, "victim", code, "remove", Nothing)
    BY <1>10 DEF FindVictim
  <2>2. /\ code \notin {200, 201}
        /\ code = 0 => IsActive(call[c].target) /\ ~ IsOwner(c) /\ ~ AmongManagers(c)
    OBVIOUS
  <2>3. call[c].target \in Users
    BY <1>t, <2>1, CallType DEF Query, InHandler
  <2>4. members[call[c].target].role \in Roles
    BY <1>t, <2>3 DEF TypeOK, Member
  <2>5. pc'[c] = "remove" => /\ IsActive(call[c].target) /\ ~ IsOwner(c) /\ ~ AmongManagers(c)
    BY <1>t, <2>1, <2>2, QuerySlots
  <2>6. Checked(c) /\ pc'[c] = "remove" => Checked(c)'
    <3> SUFFICES ASSUME Checked(c), pc'[c] = "remove" PROVE Checked(c)'
      OBVIOUS
    <3>1. pc[c] = "victim" /\ call' = call /\ members' = members
      BY <1>t, <2>1, QuerySlots
    <3>2. /\ HasRole(call[c].user, {"OWNER", "MANAGER"})
          /\ seen[c].role = members[call[c].user].role
      BY <3>1 DEF Checked
    <3>3. call[c].user # call[c].target =>
            HasRole(call[c].user, {"OWNER"}) \/ HasRole(call[c].target, {"MEMBER"})
      BY <2>4, <2>5, <3>2 DEF AmongManagers, IsOwner, HasRole, IsActive, Roles
    <3> QED BY <2>5, <3>1, <3>2, <3>3 DEF Checked, HasRole, IsActive, IsOwner
  <2> HIDE DEF code
  <2>7. Checked(c) => Checked(c)'
    BY <1>t, <2>1, <2>6, QuerySlots DEF Checked
  <2> QED BY <1>t, <1>n, <2>1, <2>2, <2>7, QuerySlots DEF Inside, Free
<1> QED BY <1>1, <1>2, <1>3, <1>4, <1>5, <1>6, <1>7, <1>8, <1>9, <1>10 DEF Reading

(* The steps that end a handler, whether or not they write. *)
Ending(c) == \/ CreateGroup(c) \/ WriteRole(c) \/ RemoveMember(c) \/ InsertInvitation(c)
             \/ ExpireInvitation(c) \/ ClaimInvitation(c) \/ Fail(c)

LEMMA EndingSlots ==
  ASSUME TypeOK, NEW c \in Calls, Ending(c)
  PROVE  /\ call' = call /\ clock' = clock /\ StepOf(c)
         /\ pc[c] \notin Free /\ pc'[c] = "done" /\ seen'[c] = Nothing
         /\ \A d \in Calls \ {c} : answer'[d] = answer[d]
<1>1. \E code \in {200, 201, 400, 409, 500} : Answer(c, code)
  BY DEF Ending, CreateGroup, WriteRole, RemoveMember, InsertInvitation, ExpireInvitation,
         ClaimInvitation, Fail, WriteMembers
<1>2. pc[c] \notin Free
  BY DEF Ending, CreateGroup, WriteRole, RemoveMember, InsertInvitation, ExpireInvitation,
         ClaimInvitation, Fail, Free
<1> QED BY <1>1, <1>2, AnswerSlots

(* What they do to the members. *)
Founds(c) ==
  /\ pc[c] = "create" /\ call[c].user \in Users /\ answer'[c] = 201
  /\ members' = [members EXCEPT ![call[c].user] = Joined("OWNER")]

Promotes(c) ==
  /\ pc[c] = "write" /\ call[c].user \in Users /\ call[c].target \in Users
  /\ call[c].role \in Roles /\ answer'[c] = 200
  /\ members' = IF call[c].role = "OWNER" /\ call[c].target # call[c].user
                THEN [members EXCEPT ![call[c].user].role = "MANAGER",
                                     ![call[c].target].role = "OWNER"]
                ELSE [members EXCEPT ![call[c].target].role = call[c].role]

Removes(c) ==
  /\ pc[c] = "remove" /\ call[c].target \in Users /\ answer'[c] = 200
  /\ members' = [members EXCEPT ![call[c].target].status = "REMOVED"]

Admits(c) ==
  /\ pc[c] = "claim" /\ call[c].user \in Users /\ call[c].invitation \in InvitationIds
  /\ members' = [members EXCEPT ![call[c].user] = Joined("MEMBER")]
  /\ StillOpen(c, invitations[call[c].invitation])
  /\ invitations' = [invitations EXCEPT ![call[c].invitation].status = "ACCEPTED",
                                        ![call[c].invitation].user = call[c].user]

LEMMA MembersEffect ==
  ASSUME IInv, NEW c \in Calls, Ending(c), members' # members
  PROVE  Founds(c) \/ Promotes(c) \/ Removes(c) \/ Admits(c)
<1>t. TypeOK /\ InHandler(c)
  BY DEF IInv
<1>1. CASE CreateGroup(c)
  <2>1. call[c].user \in Users
    BY <1>1, <1>t, CallType DEF CreateGroup, Labels, Free
  <2>2. /\ pc[c] = "create" /\ Answer(c, 201)
        /\ members' = [members EXCEPT ![call[c].user] = Joined("OWNER")]
    BY <1>1 DEF CreateGroup, WriteMembers
  <2> QED BY <1>t, <2>1, <2>2, AnswerSlots DEF Founds
<1>2. CASE WriteRole(c)
  <2> DEFINE u == call[c].user
             target == call[c].target
             role == call[c].role
             new == IF role = "OWNER" /\ target # u
                    THEN [members EXCEPT ![u].role = "MANAGER", ![target].role = "OWNER"]
                    ELSE [members EXCEPT ![target].role = role]
  <2>1. u \in Users /\ target \in Users /\ role \in Roles
    BY <1>2, <1>t, CallType DEF WriteRole, InHandler, Labels, Free
  <2>2. pc[c] = "write" /\ WriteMembers(c, new, 200)
    BY <1>2 DEF WriteRole
  <2>3. members' = new /\ Answer(c, 200)
    BY <2>2 DEF WriteMembers
  <2>4. answer'[c] = 200
    BY <1>t, <2>3, AnswerSlots
  <2> QED BY <2>1, <2>2, <2>3, <2>4 DEF Promotes
<1>3. CASE RemoveMember(c)
  <2>1. call[c].target \in Users
    BY <1>3, <1>t, CallType DEF RemoveMember, InHandler
  <2>2. /\ pc[c] = "remove" /\ Answer(c, 200)
        /\ members' = [members EXCEPT ![call[c].target].status = "REMOVED"]
    BY <1>3 DEF RemoveMember, WriteMembers
  <2> QED BY <1>t, <2>1, <2>2, AnswerSlots DEF Removes
<1>4. CASE ClaimInvitation(c)
  <2>1. call[c].user \in Users /\ call[c].invitation \in InvitationIds
    BY <1>4, <1>t, CallType DEF ClaimInvitation, InHandler, Labels, Free
  <2>2. /\ pc[c] = "claim" /\ StillOpen(c, invitations[call[c].invitation])
        /\ members' = [members EXCEPT ![call[c].user] = Joined("MEMBER")]
        /\ invitations' = [invitations EXCEPT ![call[c].invitation].status = "ACCEPTED",
                                              ![call[c].invitation].user = call[c].user]
    BY <1>4 DEF ClaimInvitation
  <2> QED BY <2>1, <2>2 DEF Admits
<1> QED BY <1>1, <1>2, <1>3, <1>4
        DEF Ending, InsertInvitation, ExpireInvitation, Fail, tables

(* What they do to the invitations: AdmittedByInvitation and               *)
(* InvitationsSettle look at one of them at a time.                        *)
LEMMA InvitationsEffect ==
  ASSUME IInv, Timed, NEW c \in Calls, Ending(c), NEW i \in InvitationIds,
         invitations'[i] # invitations[i]
  PROVE  \/ /\ invitations[i].status = "NONE" /\ invitations'[i].status = "PENDING"
            /\ pc[c] = "insert"
         \/ /\ pc[c] = "claim" /\ invitations'[i].status = "ACCEPTED"
            /\ invitations[i].status = "PENDING"
            /\ invitations[i].user \in {NULL, invitations'[i].user}
            /\ invitations'[i].expires = invitations[i].expires
         \/ /\ pc[c] \in {"insert", "expire"} /\ invitations[i].status # "NONE"
            /\ invitations'[i] = [invitations[i] EXCEPT !.status = "EXPIRED"]
            /\ invitations[i].expires <= clock
<1>t. TypeOK /\ InHandler(c) /\ seen[c].now <= clock
  BY DEF IInv, Timed
<1>n. /\ seen[c].now \in Nat /\ clock \in Nat /\ invitations[i] \in Invitation
      /\ invitations[i].expires \in Nat
  BY <1>t DEF TypeOK, Memory, Invitation
<1>1. CASE InsertInvitation(c)
  <2>1. pc[c] = "insert"
    BY <1>1 DEF InsertInvitation
  <2>2. PICK j \in InvitationIds :
          /\ invitations[j].status = "NONE"
          /\ invitations' = [k \in InvitationIds |->
               IF k = j THEN Invited(c)
               ELSE IF k \in Expired(c) THEN [invitations[k] EXCEPT !.status = "EXPIRED"]
               ELSE invitations[k]]
    BY <1>1 DEF InsertInvitation
  <2>3. CASE i = j
    BY <2>1, <2>2, <2>3 DEF Invited
  <2>4. CASE i # j
    <3>1. i \in Expired(c) /\ invitations'[i] = [invitations[i] EXCEPT !.status = "EXPIRED"]
      BY <2>2, <2>4
    <3>2. invitations[i].status = "PENDING" /\ invitations[i].expires <= seen[c].now
      BY <3>1 DEF Expired, Rivals
    <3> QED BY <1>t, <1>n, <2>1, <3>1, <3>2
  <2> QED BY <2>3, <2>4
<1>2. CASE ExpireInvitation(c)
  <2>1. i = call[c].invitation
    BY <1>t, <1>2 DEF ExpireInvitation, TypeOK
  <2> QED BY <1>t, <1>2, <2>1 DEF ExpireInvitation, InHandler, Timed, TypeOK
<1>3. CASE ClaimInvitation(c)
  <2>1. i = call[c].invitation /\ pc[c] = "claim"
    BY <1>t, <1>3 DEF ClaimInvitation, TypeOK
  <2>2. /\ StillOpen(c, invitations[i])
        /\ invitations' = [invitations EXCEPT ![i].status = "ACCEPTED", ![i].user = call[c].user]
    BY <1>3, <2>1 DEF ClaimInvitation
  <2>3. /\ invitations'[i].status = "ACCEPTED" /\ invitations'[i].user = call[c].user
        /\ invitations'[i].expires = invitations[i].expires
    BY <1>t, <1>n, <2>2 DEF TypeOK, Invitation
  <2>4. Addressed(call[c].user, invitations[i])
    BY <1>t, <2>1 DEF InHandler
  <2> QED BY <2>1, <2>2, <2>3, <2>4 DEF StillOpen, Addressed
<1> QED BY <1>1, <1>2, <1>3
        DEF Ending, CreateGroup, WriteRole, RemoveMember, WriteMembers, Fail, tables

LEMMA ReceiveSlots ==
  ASSUME TypeOK, NEW c \in Calls, Receive(c)
  PROVE  /\ registered' = registered /\ members' = members /\ invitations' = invitations
         /\ clock' = clock /\ seen' = seen /\ StepOf(c)
         /\ pc'[c] \in {"create", "inviter", "code", "owner", "remover"}
         /\ pc'[c] = "create" => ~ Exists /\ \A d \in Calls : pc[d] # "create"
         /\ \A d \in Calls : answer'[d] = answer[d] \/ answer'[d] = 0
<1>1. PICK new, label :
        /\ Issue(c, new, label)
        /\ label \in {"create", "inviter", "code", "owner", "remover"}
        /\ label = "create" => ~ Exists /\ \A d \in Calls : pc[d] # "create"
  <2>1. CASE ReceiveCreate(c)
    BY <2>1 DEF ReceiveCreate
  <2>2. CASE ReceiveInvite(c)
    BY <2>2 DEF ReceiveInvite
  <2>3. CASE ReceiveJoin(c)
    BY <2>3 DEF ReceiveJoin
  <2>4. CASE ReceiveRole(c)
    BY <2>4 DEF ReceiveRole
  <2>5. CASE ReceiveRemove(c)
    BY <2>5 DEF ReceiveRemove
  <2> QED BY <2>1, <2>2, <2>3, <2>4, <2>5 DEF Receive
<1> QED BY <1>1 DEF Issue, TypeOK, StepOf, tables

(* A row of the members never goes away. *)
LEMMA MembersStay ==
  ASSUME IInv, NEW c \in Calls, Ending(c), Exists
  PROVE  Exists'
<1>1. PICK v \in Users : members[v].status # "NONE"
  BY DEF Exists
<1>2. CASE members' = members
  BY <1>1, <1>2 DEF Exists
<1>3. CASE members' # members
  <2>m. members \in [Users -> Member]
    BY DEF IInv, TypeOK
  <2>1. CASE Founds(c)
    BY <1>1, <2>m, <2>1 DEF Founds, Exists, Joined
  <2>2. CASE Admits(c)
    BY <1>1, <2>m, <2>2 DEF Admits, Exists, Joined
  <2>3. CASE Removes(c)
    BY <1>1, <2>m, <2>3 DEF Removes, Exists, Member
  <2>4. CASE Promotes(c)
    <3>1. members'[v].status = members[v].status
      BY <2>m, <2>4 DEF Promotes, Member
    <3> QED BY <1>1, <3>1 DEF Exists
  <2> QED BY <1>3, <2>1, <2>2, <2>3, <2>4, MembersEffect
<1> QED BY <1>2, <1>3

(* Only the founder's call makes a group that was not there. *)
LEMMA EndingFounds ==
  ASSUME IInv, Founded, NEW c \in Calls, Ending(c), Exists', ~ Exists
  PROVE  pc[c] = "create"
<1>1. members' # members
  BY DEF Exists
<1>2. pc[c] \notin {"write", "remove"}
  BY DEF Founded, Inside
<1>3. pc[c] # "claim"
  <2> SUFFICES ASSUME pc[c] = "claim" PROVE FALSE
    OBVIOUS
  <2>1. InHandler(c) /\ TypeOK
    BY DEF IInv
  <2>2. call[c].invitation \in InvitationIds /\ invitations[call[c].invitation].status # "NONE"
    BY <2>1, CallType DEF InHandler
  <2> QED BY <2>2 DEF Founded
<1> QED BY <1>1, <1>2, <1>3, MembersEffect DEF Founds, Promotes, Removes, Admits

LEMMA Alone ==
  ASSUME NEW c \in Calls, StepOf(c), pc'[c] # "idle", OneAtATime'
  PROVE  OneAtATime /\ \A d \in Calls \ {c} : pc[d] = "idle" /\ pc'[d] = "idle"
BY DEF StepOf, OneAtATime

LEMMA SequentialStep ==
  ASSUME Sequential, NEW c \in Calls, StepOf(c), pc'[c] # "idle",
         OneAtATime /\ Checked(c) => Checked(c)'
  PROVE  Sequential'
<1> SUFFICES ASSUME OneAtATime' PROVE \A d \in Calls : Checked(d)'
  BY DEF Sequential
<1>1. OneAtATime /\ \A d \in Calls \ {c} : pc[d] = "idle" /\ pc'[d] = "idle"
  BY Alone
<1>2. Checked(c)'
  BY <1>1 DEF Sequential
<1>3. ASSUME NEW d \in Calls \ {c} PROVE Checked(d)'
  BY <1>1 DEF Checked
<1> QED BY <1>2, <1>3

LEMMA InitSInv == Init => SInv
<1> SUFFICES ASSUME Init PROVE SInv
  OBVIOUS
<1>1. Founded
  BY DEF Init, Founded, NoInvitation, Inside
<1>2. Timed
  BY DEF Init, Timed, Nothing
<1>3. Sequential
  BY DEF Init, Sequential, Checked
<1> QED BY <1>1, <1>2, <1>3, InitIInv DEF SInv

LEMMA StepFounded ==
  ASSUME SInv, NEW c \in Calls, Reading(c) \/ Ending(c) \/ Receive(c)
  PROVE  Founded'
<1>t. IInv /\ TypeOK /\ Founded /\ Timed /\ clock \in Nat
  BY DEF SInv, IInv, TypeOK
<1>1. CASE Reading(c)
  <2>1. /\ StepOf(c) /\ members' = members /\ invitations' = invitations
        /\ pc'[c] \in Outcomes /\ (pc'[c] \in Inside => Exists)
    BY <1>1, ReadEffect
  <2>2. Exists' <=> Exists
    BY <2>1 DEF Exists
  <2> QED BY <1>t, <2>1, <2>2 DEF Founded, StepOf, Outcomes
<1>2. CASE Receive(c)
  <2>1. /\ StepOf(c) /\ members' = members /\ invitations' = invitations
        /\ pc'[c] \in {"create", "inviter", "code", "owner", "remover"}
        /\ pc'[c] = "create" => ~ Exists /\ \A d \in Calls : pc[d] # "create"
    BY <1>t, <1>2, ReceiveSlots
  <2>2. Exists' <=> Exists
    BY <2>1 DEF Exists
  <2> QED BY <1>t, <2>1, <2>2 DEF Founded, StepOf, Inside
<1>3. CASE Ending(c)
  <2>1. StepOf(c) /\ pc'[c] = "done"
    BY <1>t, <1>3, EndingSlots
  <2>2. Exists => Exists'
    BY <1>t, <1>3, MembersStay
  <2>3. Exists' => Exists \/ pc[c] = "create"
    BY <1>t, <1>3, EndingFounds
  <2>4. ASSUME NEW i \in InvitationIds, invitations'[i].status # "NONE" PROVE Exists'
    <3>1. CASE invitations[i].status # "NONE"
      BY <1>t, <2>2, <3>1 DEF Founded
    <3>2. CASE invitations[i].status = "NONE"
      <4>1. pc[c] = "insert"
        BY <1>t, <1>3, <2>4, <3>2, InvitationsEffect
      <4> QED BY <1>t, <2>2, <4>1 DEF Founded, Inside
    <3> QED BY <3>1, <3>2
  <2>5. ASSUME NEW d \in Calls PROVE /\ pc'[d] \in Inside => Exists'
                                     /\ pc'[d] = "create" => ~ Exists'
    BY <1>t, <2>1, <2>2, <2>3 DEF Founded, StepOf, Inside
  <2>6. \A d, e \in Calls : pc'[d] = "create" /\ pc'[e] = "create" => d = e
    BY <1>t, <2>1 DEF Founded, StepOf
  <2> QED BY <2>4, <2>5, <2>6 DEF Founded
<1> QED BY <1>1, <1>2, <1>3

LEMMA StepTimed ==
  ASSUME SInv, NEW c \in Calls, Reading(c) \/ Ending(c) \/ Receive(c)
  PROVE  Timed'
<1>t. IInv /\ TypeOK /\ Founded /\ Timed /\ clock \in Nat
  BY DEF SInv, IInv, TypeOK
<1>1. /\ StepOf(c) /\ clock' = clock /\ seen'[c].now <= clock
      /\ pc'[c] = "expire" => /\ call'[c] = call[c] /\ invitations' = invitations
                              /\ invitations[call[c].invitation].expires <= clock
  <2>1. CASE Reading(c)
    BY <2>1, ReadEffect
  <2>2. CASE Receive(c)
    BY <1>t, <2>2, ReceiveSlots DEF Timed
  <2>3. CASE Ending(c)
    BY <1>t, <2>3, EndingSlots DEF Nothing
  <2> QED BY <2>1, <2>2, <2>3
<1>2. ASSUME NEW d \in Calls, d # c, pc'[d] = "expire"
      PROVE  invitations'[call'[d].invitation].expires <= clock
  <2> DEFINE i == call[d].invitation
  <2>1. pc[d] = "expire" /\ call'[d] = call[d]
    BY <1>1, <1>2 DEF StepOf
  <2>2. invitations[i].expires <= clock
    BY <1>t, <2>1 DEF Timed
  <2>3. i \in InvitationIds /\ invitations[i].status # "NONE"
    <3>1. InHandler(d)
      BY <1>t DEF IInv
    <3> QED BY <1>t, <2>1, <3>1, CallType DEF InHandler
  <2>4. CASE invitations'[i] = invitations[i]
    BY <2>1, <2>2, <2>4
  <2>5. CASE invitations'[i] # invitations[i]
    <3>1. Ending(c)
      BY <1>t, <2>5, ReadEffect, ReceiveSlots
    <3>2. invitations[i] \in Invitation
      BY <1>t, <2>3 DEF TypeOK
    <3>3. \/ invitations'[i].expires = invitations[i].expires
          \/ invitations'[i] = [invitations[i] EXCEPT !.status = "EXPIRED"]
      BY <1>t, <2>3, <2>5, <3>1, InvitationsEffect
    <3>4. invitations'[i].expires = invitations[i].expires
      BY <3>2, <3>3 DEF Invitation
    <3> QED BY <2>1, <2>2, <3>4
  <2> QED BY <2>4, <2>5
<1>3. ASSUME NEW d \in Calls PROVE seen'[d].now <= clock
  BY <1>t, <1>1 DEF Timed, StepOf
<1> QED BY <1>1, <1>2, <1>3 DEF Timed

LEMMA StepSequential ==
  ASSUME SInv, NEW c \in Calls, Reading(c) \/ Ending(c) \/ Receive(c)
  PROVE  Sequential'
<1>t. TypeOK /\ Sequential
  BY DEF SInv, IInv
<1>1. CASE Reading(c)
  BY <1>t, <1>1, ReadEffect, SequentialStep DEF Outcomes
<1>2. CASE Receive(c)
  <2>1. StepOf(c) /\ pc'[c] \in {"create", "inviter", "code", "owner", "remover"}
    BY <1>t, <1>2, ReceiveSlots
  <2>2. Checked(c)'
    BY <2>1 DEF Checked
  <2> QED BY <1>t, <2>1, <2>2, SequentialStep
<1>3. CASE Ending(c)
  <2>1. StepOf(c) /\ pc'[c] = "done"
    BY <1>t, <1>3, EndingSlots
  <2>2. Checked(c)'
    BY <2>1 DEF Checked
  <2> QED BY <1>t, <2>1, <2>2, SequentialStep
<1> QED BY <1>1, <1>2, <1>3

LEMMA StepSInv == SInv /\ [Next]_vars => SInv'
<1> SUFFICES ASSUME SInv, [Next]_vars PROVE SInv'
  OBVIOUS
<1>1. IInv'
  BY StepIInv DEF SInv
<1>2. ASSUME NEW c \in Calls, Receive(c) \/ Handle(c) PROVE SInv'
  <2>1. Reading(c) \/ Ending(c) \/ Receive(c)
    BY <1>2 DEF Handle, Reading, Ending
  <2> QED BY <1>1, <2>1, StepFounded, StepTimed, StepSequential DEF SInv
<1>3. CASE Tick \/ (\E u \in Users : Register(u)) \/ UNCHANGED vars
  <2>1. UNCHANGED <<members, invitations, call, pc, seen>>
    BY <1>3 DEF Tick, Register, slots, tables, vars
  <2>2. clock' = clock \/ clock' = clock + 1
    BY <1>3 DEF Tick, Register, slots, tables, vars
  <2>3. Founded'
    BY <2>1 DEF SInv, Founded, Exists
  <2>4. Timed'
    <3>1. ASSUME NEW x \in Int, x <= clock PROVE x <= clock'
      <4>1. clock \in Nat
        BY DEF SInv, IInv, TypeOK
      <4> QED BY <2>2, <3>1, <4>1
    <3>2. \A c \in Calls : seen[c].now \in Int
      BY DEF SInv, IInv, TypeOK, Memory
    <3>3. ASSUME NEW c \in Calls, pc[c] = "expire"
          PROVE  invitations[call[c].invitation].expires \in Int
      <4>1. TypeOK /\ InHandler(c)
        BY DEF SInv, IInv
      <4>2. call[c].invitation \in InvitationIds
        BY <3>3, <4>1, CallType DEF InHandler
      <4> QED BY <4>1, <4>2 DEF TypeOK, Invitation
    <3> QED BY <2>1, <3>1, <3>2, <3>3 DEF SInv, Timed
  <2>5. Sequential'
    <3>1. ASSUME NEW c \in Calls, Checked(c) PROVE Checked(c)'
      BY <2>1, <3>1 DEF Checked, Owners, HasRole, IsActive, OwnRole, IsOwner
    <3> QED BY <2>1, <3>1 DEF SInv, Sequential, OneAtATime
  <2> QED BY <1>1, <2>3, <2>4, <2>5 DEF SInv
<1> QED BY <1>2, <1>3 DEF Next

-------------------------------------------------------------------------------
(* The action properties and the refinement                                *)

(* Nothing of the group precedes its founding, no handler remembers a      *)
(* future instant, and what one has checked stands while it is alone.      *)
THEOREM StrongInvariant == Spec => []SInv
BY InitSInv, StepSInv, PTL DEF Spec

(* The steps that change the tables or answer a success end a handler.     *)
LEMMA OnlyEndings ==
  ASSUME SInv, [Next]_vars,
         \/ members' # members \/ invitations' # invitations
         \/ \E c \in Calls : answer[c] = 0 /\ answer'[c] \in {200, 201}
  PROVE  \E c \in Calls : Ending(c)
<1>t. TypeOK
  BY DEF SInv, IInv
<1>1. CASE \E c \in Calls : Reading(c)
  BY <1>1, ReadEffect
<1>2. CASE \E c \in Calls : Receive(c)
  BY <1>t, <1>2, ReceiveSlots
<1>3. CASE Tick \/ (\E u \in Users : Register(u)) \/ UNCHANGED vars
  BY <1>3 DEF Tick, Register, slots, tables, vars
<1> QED BY <1>1, <1>2, <1>3 DEF Next, Handle, Reading, Ending

LEMMA StepAdmits ==
  ASSUME SInv, [Next]_vars, NEW v \in Users, ~ IsActive(v), IsActive(v)'
  PROVE  /\ Exists =>
              \E i \in InvitationIds :
                /\ invitations[i].status = "PENDING"
                /\ invitations[i].user \in {NULL, v} /\ invitations[i].email \in {NULL, v}
                /\ invitations'[i] = [invitations[i] EXCEPT !.status = "ACCEPTED", !.user = v]
         /\ members'[v].role = IF Exists THEN "MEMBER" ELSE "OWNER"
<1>t. IInv /\ TypeOK /\ Founded /\ members \in [Users -> Member]
  BY DEF SInv, IInv, TypeOK
<1>1. members' # members
  BY DEF IsActive
<1>2. PICK c \in Calls : Ending(c)
  BY <1>1, OnlyEndings
<1> DEFINE u == call[c].user
           i == call[c].invitation
<1>3. CASE Founds(c)
  <2>1. ~ Exists
    BY <1>t, <1>3 DEF Founds, Founded
  <2>2. u = v
    BY <1>t, <1>3 DEF Founds, IsActive
  <2>3. members'[v] = Joined("OWNER")
    BY <1>t, <1>3, <2>2 DEF Founds
  <2>4. members'[v].role = "OWNER"
    BY <2>3 DEF Joined
  <2> QED BY <2>1, <2>4
<1>4. CASE Promotes(c)
  <2>1. members'[v].status = members[v].status
    BY <1>t, <1>4 DEF Promotes, Member
  <2> QED BY <2>1 DEF IsActive
<1>5. CASE Removes(c)
  <2>1. members'[v].status = IF v = call[c].target THEN "REMOVED" ELSE members[v].status
    BY <1>t, <1>5 DEF Removes, Member
  <2> QED BY <2>1 DEF IsActive
<1>6. CASE Admits(c)
  <2>1. u = v
    BY <1>t, <1>6 DEF Admits, IsActive
  <2>2. /\ Addressed(u, invitations[i]) /\ invitations[i].status = "PENDING"
        /\ i \in InvitationIds
    BY <1>t, <1>6 DEF Admits, IInv, InHandler, StillOpen
  <2>3. Exists
    BY <1>t, <2>2 DEF Founded
  <2>4. invitations'[i] = [invitations[i] EXCEPT !.status = "ACCEPTED", !.user = v]
    BY <1>t, <1>6, <2>1 DEF Admits, TypeOK
  <2>5. members'[v].role = "MEMBER"
    BY <1>t, <1>6, <2>1 DEF Admits, Joined
  <2> HIDE DEF u, i
  <2>6. \E j \in InvitationIds :
          /\ invitations[j].status = "PENDING"
          /\ invitations[j].user \in {NULL, v} /\ invitations[j].email \in {NULL, v}
          /\ invitations'[j] = [invitations[j] EXCEPT !.status = "ACCEPTED", !.user = v]
    BY <2>1, <2>2, <2>4 DEF Addressed
  <2> QED BY <2>3, <2>5, <2>6
<1> QED BY <1>t, <1>1, <1>2, <1>3, <1>4, <1>5, <1>6, MembersEffect

(* Nobody becomes active but the founder, and those who use up in the same *)
(* step a pending invitation addressed to them, whatever else is going on. *)
THEOREM Admission == Spec => AdmittedByInvitation
<1>1. SInv /\ [Next]_vars =>
        [\A u \in Users : ~ IsActive(u) /\ IsActive(u)' =>
           /\ Exists =>
                \E i \in InvitationIds :
                  /\ invitations[i].status = "PENDING"
                  /\ invitations[i].user \in {NULL, u} /\ invitations[i].email \in {NULL, u}
                  /\ invitations'[i] = [invitations[i] EXCEPT !.status = "ACCEPTED", !.user = u]
           /\ members'[u].role = IF Exists THEN "MEMBER" ELSE "OWNER"]_vars
  BY StepAdmits
<1> QED BY <1>1, StrongInvariant, PTL DEF Spec, AdmittedByInvitation

(* An invitation is settled once, and ends by time only when it is over;   *)
(* joinGroup's late EXPIRED is the only change to a settled one.           *)
THEOREM InvitationsSettled == Spec => InvitationsSettle
<1>1. SInv /\ [Next]_vars =>
        [\A i \in InvitationIds : invitations'[i] # invitations[i] =>
           \/ invitations[i].status = "NONE" /\ invitations'[i].status = "PENDING"
           \/ /\ invitations'[i].status = "ACCEPTED"
              /\ invitations[i].status = "PENDING"
              /\ invitations[i].user \in {NULL, invitations'[i].user}
           \/ /\ invitations'[i] = [invitations[i] EXCEPT !.status = "EXPIRED"]
              /\ invitations[i].expires <= clock]_vars
  <2> SUFFICES ASSUME SInv, [Next]_vars, NEW i \in InvitationIds,
                      invitations'[i] # invitations[i]
               PROVE  \/ invitations[i].status = "NONE" /\ invitations'[i].status = "PENDING"
                      \/ /\ invitations'[i].status = "ACCEPTED"
                         /\ invitations[i].status = "PENDING"
                         /\ invitations[i].user \in {NULL, invitations'[i].user}
                      \/ /\ invitations'[i] = [invitations[i] EXCEPT !.status = "EXPIRED"]
                         /\ invitations[i].expires <= clock
    OBVIOUS
  <2>1. PICK c \in Calls : Ending(c)
    BY OnlyEndings
  <2> QED BY <2>1, InvitationsEffect DEF SInv
<1> QED BY <1>1, StrongInvariant, PTL DEF Spec, InvitationsSettle

(* A step that ends a handler when no other slot was ever used.            *)
LEMMA EndingChecked ==
  ASSUME SInv, NEW c \in Calls, Ending(c), OneAtATime'
  PROVE  Checked(c)
<1>1. StepOf(c) /\ pc'[c] = "done"
  BY EndingSlots DEF SInv, IInv
<1>2. OneAtATime
  BY <1>1, Alone
<1> QED BY <1>2 DEF SInv, Sequential

LEMMA StepRoster ==
  ASSUME SInv, [Next]_vars, OneAtATime', members' # members
  PROVE  Promised!RosterNext
<1>t. IInv /\ TypeOK /\ Founded /\ AtMostOneOwner /\ members \in [Users -> Member]
  BY DEF SInv, IInv, TypeOK
<1>1. PICK c \in Calls : Ending(c)
  BY OnlyEndings
<1>2. Checked(c)
  BY <1>1, EndingChecked
<1> DEFINE u == call[c].user
           target == call[c].target
           role == call[c].role
<1>3. CASE Founds(c)
  <2>1. ~ Exists
    BY <1>t, <1>3 DEF Founds, Founded
  <2>2. Promised!Found(u)
    BY <1>3, <2>1 DEF Founds, Promised!Found, Promised!Exists, Promised!Joined, Exists, Joined
  <2> QED BY <1>3, <2>2 DEF Founds, Promised!RosterNext
<1>4. CASE Promotes(c)
  <2>w. /\ pc[c] = "write" /\ u \in Users /\ target \in Users /\ role \in Roles
        /\ members' = IF role = "OWNER" /\ target # u
                      THEN [members EXCEPT ![u].role = "MANAGER", ![target].role = "OWNER"]
                      ELSE [members EXCEPT ![target].role = role]
    BY <1>4 DEF Promotes
  <2>1. u \in Owners /\ IsActive(target) /\ ~ OwnRole(c)
    BY <1>2, <2>w DEF Checked
  <2>2. members[u] \in Member /\ members[target] \in Member
    BY <1>t, <2>w
  <2>3. /\ members[u].status = "ACTIVE" /\ members[u].role = "OWNER"
        /\ members[target].status = "ACTIVE"
    BY <2>1 DEF Owners, HasRole, IsActive
  <2>4. CASE role = "OWNER" /\ target # u
    <3>1. members' = [members EXCEPT ![u] = Joined("MANAGER"), ![target] = Joined("OWNER")]
      <4>1. [members[u] EXCEPT !.role = "MANAGER"] = Joined("MANAGER")
        BY <2>2, <2>3 DEF Member, Joined
      <4>2. [members[target] EXCEPT !.role = "OWNER"] = Joined("OWNER")
        BY <2>2, <2>3 DEF Member, Joined
      <4>3. members' = [members EXCEPT ![u].role = "MANAGER", ![target].role = "OWNER"]
        BY <2>w, <2>4
      <4> QED BY <1>t, <2>w, <2>4, <4>1, <4>2, <4>3
    <3>2. u \in Promised!Owners /\ Promised!IsActive(target)
      BY <2>w, <2>3 DEF Promised!Owners, Promised!HasRole, Promised!IsActive
    <3>3. Promised!HandOver(u, target)
      BY <2>4, <3>1, <3>2 DEF Promised!HandOver, Promised!Joined, Joined
    <3> QED BY <2>w, <3>3 DEF Promised!RosterNext
  <2>5. CASE role = "OWNER" /\ target = u
    BY <1>t, <2>w, <2>2, <2>3, <2>5 DEF Member
  <2>6. CASE role # "OWNER"
    <3>1. target # u
      BY <2>1, <2>6 DEF OwnRole
    <3>2. target \notin Promised!Owners /\ Promised!IsActive(target)
      BY <1>t, <2>w, <2>1, <2>3, <3>1
      DEF Promised!Owners, Promised!HasRole, Promised!IsActive, AtMostOneOwner, Owners, HasRole, IsActive
    <3>3. members' = [members EXCEPT ![target] = Joined(role)]
      <4>1. [members[target] EXCEPT !.role = role] = Joined(role)
        BY <2>2, <2>3 DEF Member, Joined
      <4> QED BY <1>t, <2>w, <2>6, <4>1
    <3>4. Promised!Appoint(target, role) /\ role \in {"MANAGER", "MEMBER"}
      BY <2>w, <2>6, <3>2, <3>3 DEF Promised!Appoint, Promised!Joined, Joined, Roles
    <3> QED BY <2>w, <3>4 DEF Promised!RosterNext
  <2> QED BY <2>4, <2>5, <2>6
<1>5. CASE Removes(c)
  <2>1. IsActive(target) /\ ~ IsOwner(c)
    BY <1>2, <1>5 DEF Removes, Checked
  <2>2. Promised!Expel(target)
    BY <1>5, <2>1 DEF Removes, Promised!Expel, Promised!IsActive, Promised!Owners, Promised!HasRole,
                      IsActive, IsOwner
  <2> QED BY <1>5, <2>2 DEF Removes, Promised!RosterNext
<1>6. CASE Admits(c)
  <2>1. ~ IsActive(u)
    BY <1>2, <1>6 DEF Admits, Checked
  <2>2. Exists
    BY <1>t, <1>6 DEF Admits, Founded, StillOpen
  <2>3. Promised!Admit(u)
    BY <1>6, <2>1, <2>2
    DEF Admits, Promised!Admit, Promised!Exists, Promised!IsActive, Promised!Joined, Exists, IsActive, Joined
  <2> QED BY <1>6, <2>3 DEF Admits, Promised!RosterNext
<1> QED BY <1>t, <1>1, <1>3, <1>4, <1>5, <1>6, MembersEffect

(* Handled one after the other, calls change the members only as Roster    *)
(* promises: one owner, who hands over what he has, and no other way in.   *)
THEOREM RosterKept == Spec => ImplementsRoster
<1>1. Init => Promised!RosterInit
  BY DEF Init, Promised!RosterInit, NoMember, Promised!NoMember
<1>2. SInv /\ [Next]_vars => [OneAtATime' => Promised!RosterNext]_members
  BY StepRoster
<1> QED BY <1>1, <1>2, StrongInvariant, PTL DEF Spec, ImplementsRoster

LEMMA StepRank ==
  ASSUME SInv, [Next]_vars, OneAtATime', NEW c \in Calls,
         answer[c] = 0, answer'[c] \in {200, 201}
  PROVE  LET u == call[c].user
             target == call[c].target
         IN  /\ call[c].kind = "invite" => HasRole(u, {"OWNER", "MANAGER"})
             /\ call[c].kind = "role" => u \in Owners
             /\ call[c].kind = "remove" =>
                  \/ u \in Owners /\ target # u
                  \/ HasRole(u, {"MANAGER"}) /\ (target = u \/ HasRole(target, {"MEMBER"}))
<1>t. IInv /\ TypeOK /\ InHandler(c)
  BY DEF SInv, IInv
<1>1. PICK d \in Calls : Ending(d)
  BY OnlyEndings
<1>2. d = c
  BY <1>t, <1>1, EndingSlots
<1>3. Checked(c)
  BY <1>1, <1>2, EndingChecked
<1>4. CASE InsertInvitation(c)
  BY <1>t, <1>3, <1>4 DEF InsertInvitation, InHandler, Checked
<1>5. CASE CreateGroup(c) \/ ClaimInvitation(c)
  BY <1>t, <1>5 DEF CreateGroup, ClaimInvitation, InHandler
<1>6. CASE WriteRole(c)
  BY <1>t, <1>3, <1>6 DEF WriteRole, InHandler, Checked
<1>7. CASE RemoveMember(c)
  <2> DEFINE u == call[c].user
             target == call[c].target
  <2>1. pc[c] = "remove" /\ call[c].kind = "remove" /\ u \in Users
    BY <1>t, <1>7, CallType DEF RemoveMember, InHandler, Labels, Free
  <2>2. /\ HasRole(u, {"OWNER", "MANAGER"}) /\ IsActive(target) /\ ~ IsOwner(c)
        /\ u # target => HasRole(u, {"OWNER"}) \/ HasRole(target, {"MEMBER"})
    BY <1>3, <2>1 DEF Checked
  <2>3. \/ u \in Owners /\ target # u
        \/ HasRole(u, {"MANAGER"}) /\ (target = u \/ HasRole(target, {"MEMBER"}))
    BY <2>1, <2>2 DEF HasRole, IsActive, IsOwner, Owners
  <2> QED BY <2>1, <2>3
<1>8. CASE ExpireInvitation(c) \/ Fail(c)
  <2>1. \E code \in {400, 500} : Answer(c, code)
    BY <1>8 DEF ExpireInvitation, Fail
  <2> QED BY <1>t, <2>1, AnswerSlots
<1> QED BY <1>1, <1>2, <1>4, <1>5, <1>6, <1>7, <1>8 DEF Ending

(* Handled one after the other, a call succeeds only for one whose rank    *)
(* allows it when it takes effect.                                         *)
THEOREM RanksRespected == Spec => RankRespected
<1>1. SInv /\ [Next]_vars =>
        [OneAtATime' => \A c \in Calls : answer[c] = 0 /\ answer'[c] \in {200, 201} =>
           LET u == call[c].user
               target == call[c].target
           IN  /\ call[c].kind = "invite" => HasRole(u, {"OWNER", "MANAGER"})
               /\ call[c].kind = "role" => u \in Owners
               /\ call[c].kind = "remove" =>
                    \/ u \in Owners /\ target # u
                    \/ HasRole(u, {"MANAGER"}) /\ (target = u \/ HasRole(target, {"MEMBER"}))]_vars
  BY StepRank
<1> QED BY <1>1, StrongInvariant, PTL DEF Spec, RankRespected
==============================================================================
