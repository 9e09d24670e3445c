------------------------ MODULE MembershipProperties -------------------------
(* The correctness properties of the membership handlers. *)
EXTENDS Memberships

Labels == {"idle", "create", "inviter", "invitee", "membership", "pending", "insert",
           "code", "expire", "joiner", "claim", "owner", "target", "write",
           "remover", "victim", "remove", "done"}

Codes == {0, 200, 201, 400, 403, 404, 409, 500}
Memory == [now : Nat, found : BOOLEAN, role : Roles]

TypeOK ==
  /\ registered \subseteq Users
  /\ members \in [Users -> Member]
  /\ invitations \in [InvitationIds -> Invitation]
  /\ clock \in Nat
  /\ call \in [Calls -> Call \cup {NoCall}]
  /\ pc \in [Calls -> Labels]
  /\ seen \in [Calls -> Memory]
  /\ answer \in [Calls -> Codes]

(* Which handler a slot is in. *)
InHandler(c) ==
  /\ pc[c] = "create" => call[c].kind = "create"
  /\ pc[c] \in {"inviter", "invitee", "membership", "pending", "insert"} => call[c].kind = "invite"
  /\ pc[c] \in {"code", "expire", "joiner", "claim"} => call[c].kind = "join"
  /\ pc[c] \in {"owner", "target", "write"} => call[c].kind = "role"
  /\ pc[c] \in {"remover", "victim", "remove"} => call[c].kind = "remove"
  /\ pc[c] \in {"joiner", "claim"} => /\ invitations[call[c].invitation].status # "NONE"
                                      /\ Addressed(call[c].user, invitations[call[c].invitation])
  /\ pc[c] = "expire" => invitations[call[c].invitation].status # "NONE"
  /\ pc[c] \in {"membership", "pending", "insert"} /\ call[c].by = "id" => seen[c].found

(* However transfers of ownership race, at most one active member is the   *)
(* owner: the handlers write roles without looking again, the index looks. *)
AtMostOneOwner == \A u, v \in Owners : u = v

(* Two invitations that are pending never name the same account nor the    *)
(* same address: each call ends the expired ones and looks for others, the *)
(* indexes decide between calls that look at the same time.                *)
OnePendingPerTarget ==
  \A i, j \in InvitationIds :
    /\ invitations[i].status = "PENDING" /\ invitations[j].status = "PENDING"
    /\ SameTarget(invitations[i], invitations[j])
    => i = j

(* An invitation is addressed to somebody. *)
Targeted == \A i \in InvitationIds :
              invitations[i].status # "NONE" =>
                invitations[i].user # NULL \/ invitations[i].email # NULL

(* The inductive invariant. *)
IInv == /\ TypeOK
        /\ AtMostOneOwner
        /\ OnePendingPerTarget
        /\ \A c \in Calls : InHandler(c)
        /\ Targeted

(* The labels behind a check that the group exists. *)
Inside == {"invitee", "membership", "pending", "insert", "target", "write", "victim", "remove"}

(* Founding comes first: there are no invitations and no handler past its  *)
(* first check before it, and nobody is about to found a group that exists. *)
Founded ==
  /\ \A i \in InvitationIds : invitations[i].status # "NONE" => Exists
  /\ \A c \in Calls : pc[c] \in Inside => Exists
  /\ \A c, d \in Calls : pc[c] = "create" => ~ Exists /\ (pc[d] = "create" => c = d)

(* The instants that handlers remember are past.                           *)
Timed ==
  \A c \in Calls :
    /\ seen[c].now <= clock
    /\ pc[c] = "expire" => invitations[call[c].invitation].expires <= clock

(* Nobody becomes active but the founder and those who use up, in the same *)
(* step, a pending invitation that is addressed to them: a member who was  *)
(* removed does not come back by a code he has used, or one of another.    *)
AdmittedByInvitation ==
  [][\A u \in Users : ~ IsActive(u) /\ IsActive(u)' =>
       /\ Exists =>
            \E i \in InvitationIds :
              /\ invitations[i].status = "PENDING"
              /\ invitations[i].user \in {NULL, u} /\ invitations[i].email \in {NULL, u}
              /\ invitations'[i] = [invitations[i] EXCEPT !.status = "ACCEPTED", !.user = u]
       /\ members'[u].role = IF Exists THEN "MEMBER" ELSE "OWNER"]_vars

(* An invitation is not taken back and not readdressed, and once it is     *)
(* settled it stays so; the exception is ExpireInvitation, see             *)
(* JoinedInvitationsAccepted.                                              *)
InvitationsSettle ==
  [][\A i \in InvitationIds : invitations'[i] # invitations[i] =>
       \/ invitations[i].status = "NONE" /\ invitations'[i].status = "PENDING"
       \/ /\ invitations'[i].status = "ACCEPTED"
          /\ invitations[i].status = "PENDING"
          /\ invitations[i].user \in {NULL, invitations'[i].user}
       \/ /\ invitations'[i] = [invitations[i] EXCEPT !.status = "EXPIRED"]
          /\ invitations[i].expires <= clock]_vars

-------------------------------------------------------------------------------
(* What holds of calls that are handled one after the other: in one slot. *)
OneAtATime == \A c, d \in Calls : pc[c] # "idle" /\ pc[d] # "idle" => c = d

(* What handler c has checked and still holds when nobody interferes.      *)
Checked(c) ==
  LET u == call[c].user
      target == call[c].target
  IN  /\ pc[c] \in {"invitee", "membership", "pending", "insert"} => HasRole(u, {"OWNER", "MANAGER"})
      /\ pc[c] = "claim" => ~ IsActive(u)
      /\ pc[c] \in {"target", "write"} => u \in Owners
      /\ pc[c] = "write" => IsActive(target) /\ ~ OwnRole(c)
      /\ pc[c] \in {"victim", "remove"} => HasRole(u, {"OWNER", "MANAGER"})
      /\ pc[c] = "victim" => seen[c].role = members[u].role
      /\ pc[c] = "remove" =>
           /\ IsActive(target) /\ ~ IsOwner(c)
           /\ u # target => HasRole(u, {"OWNER"}) \/ HasRole(target, {"MEMBER"})

Sequential == OneAtATime => \A c \in Calls : Checked(c)

(* With it, IInv bears the action properties.                              *)
SInv == IInv /\ Founded /\ Timed /\ Sequential

Promised == INSTANCE Roster WITH members <- members

(* The members change only as Roster promises.                             *)
ImplementsRoster ==
  Promised!RosterInit /\ [][OneAtATime' => Promised!RosterNext]_members

(* A call takes effect only for one whose rank allows it when it does: an  *)
(* owner appoints, owner and managers invite, a manager removes nobody of  *)
(* his own rank but himself.                                               *)
RankRespected ==
  [][OneAtATime' => \A c \in Calls : answer[c] = 0 /\ answer'[c] \in {200, 201} =>
       LET u == call[c].user
           target == call[c].target
       IN  /\ call[c].kind = "invite" => HasRole(u, {"OWNER", "MANAGER"})
           /\ call[c].kind = "role" => u \in Owners
           /\ call[c].kind = "remove" =>
                \/ u \in Owners /\ target # u
                \/ HasRole(u, {"MANAGER"}) /\ (target = u \/ HasRole(target, {"MEMBER"}))]_vars

-------------------------------------------------------------------------------
(* What the documents say and concurrent calls break.                      *)

(* A group always has an owner: a demotion or removal that was checked     *)
(* while its target was a member takes effect after a transfer to him.     *)
OwnerExists == Exists => Owners # {}

(* docs/feature-spec.md 6.2: a join that is answered 200 leaves its        *)
(* invitation ACCEPTED.  joinGroup writes EXPIRED by id alone when it has  *)
(* read the invitation as pending and finds it over, whatever another call *)
(* has made of it since.                                                   *)
JoinedInvitationsAccepted ==
  \A c \in Calls : pc[c] = "done" /\ call[c].kind = "join" /\ answer[c] = 200 =>
    invitations[call[c].invitation].status = "ACCEPTED"
==============================================================================
