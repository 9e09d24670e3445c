---------------------------- MODULE Memberships ------------------------------
(***************************************************************************)
(* The handlers of controllers/groupsController.js that found a group,     *)
(* invite to it, join it, change roles in it and remove from it, over the  *)
(* tables group_members and group_invitations.                             *)
(*                                                                         *)
(* One group is modelled: the rows of different groups are related by no   *)
(* query and no index, and a member of another group is, to all of these   *)
(* queries, a member that is not found.  A slot of Calls runs one handler  *)
(* at a time, one database round trip per step; requireGroup, whose row    *)
(* never changes, goes with the read that follows it.                      *)
(***************************************************************************)
EXTENDS Integers

CONSTANTS Users,
          InvitationIds, \* bound: the invitations an instance can store
          Calls,         \* slots for concurrent calls of the API
          Kinds,         \* the endpoints this instance serves
          Validity,      \* expires_in_days, in ticks
          MaxClock,      \* bound: the clock stops here
          NULL

ASSUME MembershipsAssumption == /\ NULL \notin Users
                                /\ Kinds \subseteq {"create", "invite", "join", "role", "remove"}
                                /\ Validity \in Nat \ {0}
                                /\ MaxClock \in Nat

VARIABLES
  registered,    \* users with an active account
  members,       \* group_members of the group, by user
  invitations,   \* group_invitations of the group
  clock,         \* new Date()
  call,          \* the call a slot serves or has served
  pc,            \* what its handler does next
  seen,          \* what its handler remembers of its reads
  answer         \* the status of its response

INSTANCE Roster

tables == <<registered, members, invitations>>
slots == <<call, pc, seen, answer>>
vars == <<registered, members, invitations, clock, call, pc, seen, answer>>

(* An address is written as the user it belongs to. *)
NoInvitation == [status |-> "NONE", user |-> NULL, email |-> NULL, expires |-> 0]
Invitation == [status  : {"NONE", "PENDING", "ACCEPTED", "EXPIRED"},
               user    : Users \cup {NULL},
               email   : Users \cup {NULL},
               expires : Nat]

Call == [kind : {"create"}, user : Users]
        \cup [kind : {"invite"}, user : Users, target : Users, by : {"id", "email"}]
        \cup [kind : {"join"}, user : Users, invitation : InvitationIds]
        \cup [kind : {"role"}, user : Users, target : Users, role : Roles]
        \cup [kind : {"remove"}, user : Users, target : Users]
NoCall == [kind |-> "none"]

(* now: the instant a handler has fixed; found: the invitee has an account; *)
(* role: the caller's.                                                     *)
Nothing == [now |-> 0, found |-> FALSE, role |-> "MEMBER"]

Free == {"idle", "done"}

Init ==
  /\ registered \in SUBSET Users
  /\ members = [u \in Users |-> NoMember]
  /\ invitations = [i \in InvitationIds |-> NoInvitation]
  /\ clock = 0
  /\ call = [c \in Calls |-> NoCall]
  /\ pc = [c \in Calls |-> "idle"]
  /\ seen = [c \in Calls |-> Nothing]
  /\ answer = [c \in Calls |-> 0]

Issue(c, new, label) ==
  /\ pc[c] \in Free
  /\ new.kind \in Kinds
  /\ new.user \in registered
  /\ call' = [call EXCEPT ![c] = new]
  /\ pc' = [pc EXCEPT ![c] = label]
  /\ answer' = [answer EXCEPT ![c] = 0]
  /\ UNCHANGED <<tables, clock, seen>>

Answer(c, code) ==
  /\ pc' = [pc EXCEPT ![c] = "done"]
  /\ answer' = [answer EXCEPT ![c] = code]
  /\ seen' = [seen EXCEPT ![c] = Nothing]
  /\ UNCHANGED <<call, clock>>

(* A read at label that ends the handler with code, or lets it go on to    *)
(* next remembering memory.                                                *)
Query(c, label, code, next, memory) ==
  /\ pc[c] = label
  /\ UNCHANGED tables
  /\ IF code # 0 THEN Answer(c, code)
     ELSE /\ pc' = [pc EXCEPT ![c] = next]
          /\ seen' = [seen EXCEPT ![c] = memory]
          /\ UNCHANGED <<call, answer, clock>>

NoOwnerIndex(m) == TRUE                           \* mutant: index not created
(* The partial unique index group_members_one_active_owner_key. *)
OwnerIndexAllows(m) ==
  \A u, v \in Users : m[u] = Joined("OWNER") /\ m[v] = Joined("OWNER") => u = v

(* Ends a handler by writing new to the members, if the index allows it. *)
WriteMembers(c, new, code) ==
  /\ UNCHANGED <<registered, invitations>>
  /\ IF OwnerIndexAllows(new) THEN members' = new /\ Answer(c, code)
                              ELSE UNCHANGED members /\ Answer(c, 409)

-------------------------------------------------------------------------------
(* createGroup *)

ReceiveCreate(c) ==
  /\ ~ Exists /\ \A d \in Calls : pc[d] # "create"
  /\ \E u \in Users : Issue(c, [kind |-> "create", user |-> u], "create")

(* The nested create of a group and its owner is one statement to Prisma.  *)
CreateGroup(c) ==
  /\ pc[c] = "create"
  /\ WriteMembers(c, [members EXCEPT ![call[c].user] = Joined("OWNER")], 201)

-------------------------------------------------------------------------------
(* inviteMember *)

ReceiveInvite(c) ==
  \E u, v \in Users, by \in {"id", "email"} :
    Issue(c, [kind |-> "invite", user |-> u, target |-> v, by |-> by], "inviter")

CheckInviter(c) ==
  Query(c, "inviter", IF ~ Exists THEN 404
                      ELSE IF ~ HasRole(call[c].user, {"OWNER", "MANAGER"}) THEN 403
                      ELSE 0, "invitee", Nothing)

FindInvitee(c) ==
  LET found == call[c].target \in registered
  IN  Query(c, "invitee", IF call[c].by = "id" /\ ~ found THEN 404 ELSE 0,
            IF found THEN "membership" ELSE "pending",
            [Nothing EXCEPT !.found = found, !.now = clock])

CheckMembership(c) ==
  Query(c, "membership", IF IsActive(call[c].target) THEN 409 ELSE 0, "pending",
        [seen[c] EXCEPT !.now = clock])

(* What the invitation will say, and which ones targetFilters selects.     *)
Invited(c) ==
  [status  |-> "PENDING",
   user    |-> IF seen[c].found THEN call[c].target ELSE NULL,
   email   |-> IF call[c].by = "email" THEN call[c].target ELSE NULL,
   expires |-> seen[c].now + Validity]

SameTarget(x, y) == \/ x.user # NULL /\ x.user = y.user
                    \/ x.email # NULL /\ x.email = y.email

Rivals(c) == {i \in InvitationIds : /\ invitations[i].status = "PENDING"
                                    /\ SameTarget(Invited(c), invitations[i])}

FindPending(c) ==
  Query(c, "pending", IF \E i \in Rivals(c) : invitations[i].expires > seen[c].now
                      THEN 409 ELSE 0, "insert", seen[c])

(* The transaction ends what has expired and inserts; the rows it updates  *)
(* are locked since FindPending, so both take effect here.                 *)
Expired(c) == {i \in Rivals(c) : invitations[i].expires <= seen[c].now}

NoTargetIndex(c) == TRUE                          \* mutant: indexes not created
(* The partial unique indexes on the target of a pending invitation. *)
TargetIndexAllows(c) == Rivals(c) \subseteq Expired(c)

InsertInvitation(c) ==
  /\ pc[c] = "insert"
  /\ UNCHANGED <<registered, members>>
  /\ \/ /\ TargetIndexAllows(c)
        /\ \E i \in InvitationIds :
             /\ invitations[i].status = "NONE"
             /\ invitations' = [j \in InvitationIds |->
                  IF j = i THEN Invited(c)
                  ELSE IF j \in Expired(c) THEN [invitations[j] EXCEPT !.status = "EXPIRED"]
                  ELSE invitations[j]]
        /\ Answer(c, 201)
     \/ /\ ~ TargetIndexAllows(c)
        /\ Answer(c, 409)
        /\ UNCHANGED invitations

-------------------------------------------------------------------------------
(* joinGroup *)

ReceiveJoin(c) ==
  \E u \in Users, i \in InvitationIds :
    Issue(c, [kind |-> "join", user |-> u, invitation |-> i], "code")

(* Neither userIdMismatch nor emailMismatch. *)
Addressed(u, inv) == inv.user \in {NULL, u} /\ inv.email \in {NULL, u}

FindInvitation(c) ==
  LET inv == invitations[call[c].invitation]
      over == inv.expires <= clock
  IN  Query(c, "code", IF inv.status = "NONE" THEN 404
                       ELSE IF inv.status # "PENDING" THEN 400
                       ELSE IF over THEN 0
                       ELSE IF ~ Addressed(call[c].user, inv) THEN 403
                       ELSE 0,
            IF over THEN "expire" ELSE "joiner", Nothing)

(* The update names the invitation by its id alone. *)
ExpireInvitation(c) ==
  /\ pc[c] = "expire"
  /\ invitations' = [invitations EXCEPT ![call[c].invitation].status = "EXPIRED"]
  /\ Answer(c, 400)
  /\ UNCHANGED <<registered, members>>

CheckJoiner(c) ==
  Query(c, "joiner", IF IsActive(call[c].user) THEN 409 ELSE 0, "claim",
        [Nothing EXCEPT !.now = clock])

NotRechecked(c, inv) == TRUE                      \* mutant: where: { id } only
StillOpen(c, inv) == inv.status = "PENDING" /\ inv.expires > seen[c].now

ClaimInvitation(c) ==
  LET i == call[c].invitation
      u == call[c].user
  IN  /\ pc[c] = "claim"
      /\ UNCHANGED registered
      /\ \/ /\ StillOpen(c, invitations[i])
            /\ invitations' = [invitations EXCEPT ![i].status = "ACCEPTED", ![i].user = u]
            /\ members' = [members EXCEPT ![u] = Joined("MEMBER")]
            /\ Answer(c, 200)
         \/ /\ ~ StillOpen(c, invitations[i])
            /\ Answer(c, 400)
            /\ UNCHANGED <<invitations, members>>

-------------------------------------------------------------------------------
(* updateMemberRole *)

ReceiveRole(c) ==
  \E u, v \in Users, role \in Roles :
    Issue(c, [kind |-> "role", user |-> u, target |-> v, role |-> role], "owner")

CheckOwner(c) ==
  Query(c, "owner", IF ~ Exists THEN 404
                    ELSE IF ~ HasRole(call[c].user, {"OWNER"}) THEN 403 ELSE 0,
        "target", Nothing)

(* The owner may not change the role he has. *)
OwnRole(c) == call[c].target = call[c].user /\ call[c].role # "OWNER"

FindTarget(c) ==
  Query(c, "target", IF ~ IsActive(call[c].target) THEN 404
                     ELSE IF OwnRole(c) THEN 403 ELSE 0,
        "write", Nothing)

(* Neither update looks again at what it changes. *)
WriteRole(c) ==
  LET me == call[c].user
      target == call[c].target
      role == call[c].role
  IN  /\ pc[c] = "write"
      /\ WriteMembers(c, IF role = "OWNER" /\ target # me
                         THEN [members EXCEPT ![me].role = "MANAGER", ![target].role = "OWNER"]
                         ELSE [members EXCEPT ![target].role = role], 200)

-------------------------------------------------------------------------------
(* removeMember *)

ReceiveRemove(c) ==
  \E u, v \in Users : Issue(c, [kind |-> "remove", user |-> u, target |-> v], "remover")

CheckRemover(c) ==
  Query(c, "remover", IF ~ Exists THEN 404
                      ELSE IF ~ HasRole(call[c].user, {"OWNER", "MANAGER"}) THEN 403 ELSE 0,
        "victim", [Nothing EXCEPT !.role = members[call[c].user].role])

AnyVictim(c) == FALSE                             \* mutant: owner not protected
IsOwner(c) == members[call[c].target].role = "OWNER"

AnyManager(c) == FALSE                            \* mutant: managers not protected
(* A manager may remove members and himself, but no other manager. *)
AmongManagers(c) == /\ seen[c].role = "MANAGER"
                    /\ members[call[c].target].role = "MANAGER"
                    /\ call[c].target # call[c].user

FindVictim(c) ==
  Query(c, "victim", IF ~ IsActive(call[c].target) THEN 404
                     ELSE IF IsOwner(c) THEN 400
                     ELSE IF AmongManagers(c) THEN 403 ELSE 0,
        "remove", Nothing)

RemoveMember(c) ==
  /\ pc[c] = "remove"
  /\ WriteMembers(c, [members EXCEPT ![call[c].target].status = "REMOVED"], 200)

-------------------------------------------------------------------------------
(* Any query may fail; what it was part of is rolled back. *)
Fail(c) == pc[c] \notin Free /\ Answer(c, 500) /\ UNCHANGED tables

Register(u) == /\ u \notin registered
               /\ registered' = registered \cup {u}
               /\ UNCHANGED <<members, invitations, clock, slots>>

Tick == /\ clock < MaxClock
        /\ clock' = clock + 1
        /\ UNCHANGED <<tables, slots>>

Receive(c) == \/ ReceiveCreate(c) \/ ReceiveInvite(c) \/ ReceiveJoin(c)
              \/ ReceiveRole(c)   \/ ReceiveRemove(c)

Handle(c) ==
  \/ CreateGroup(c)
  \/ CheckInviter(c) \/ FindInvitee(c) \/ CheckMembership(c) \/ FindPending(c) \/ InsertInvitation(c)
  \/ FindInvitation(c) \/ ExpireInvitation(c) \/ CheckJoiner(c) \/ ClaimInvitation(c)
  \/ CheckOwner(c) \/ FindTarget(c) \/ WriteRole(c)
  \/ CheckRemover(c) \/ FindVictim(c) \/ RemoveMember(c)
  \/ Fail(c)

Next == \/ Tick
        \/ \E u \in Users : Register(u)
        \/ \E c \in Calls : Receive(c) \/ Handle(c)

Spec == Init /\ [][Next]_vars
==============================================================================
