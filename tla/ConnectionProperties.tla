------------------------ MODULE ConnectionProperties -------------------------
(* The correctness properties of the connection handlers. *)
EXTENDS Connections

Labels == {"idle", "receiver", "connection", "pending", "insert", "find", "claim",
           "friends", "both", "from", "to", "done"}
Codes == {0, 200, 201, 400, 403, 404, 409, 500}

TypeOK ==
  /\ active \subseteq Users
  /\ requests \in [RequestIds -> Row]
  /\ connections \subseteq SUBSET Users
  /\ call \in [Calls -> Call \cup {NoCall}]
  /\ pc \in [Calls -> Labels]
  /\ answer \in [Calls -> [code : Codes, ids : SUBSET RequestIds, friends : SUBSET Users]]

(* Which handler a slot is in, and what it has found out so far about the  *)
(* parts of the row that never change.                                     *)
InHandler(c) ==
  /\ pc[c] \in {"receiver", "connection", "pending", "insert"} => call[c].kind = "send"
  /\ pc[c] \in {"connection", "pending", "insert"} => call[c].user # call[c].peer
  /\ pc[c] \in {"find", "claim"} => call[c].kind = "respond"
  /\ pc[c] = "claim" => /\ Exists(call[c].id)
                        /\ MayRespond(requests[call[c].id], call[c].user, call[c].status)
  /\ pc[c] \in {"friends", "both", "from", "to"} => call[c].kind = "list"
  /\ pc[c] # "done" => answer[c].code = 0
  /\ answer[c].code = 201 => call[c].kind = "send"
  /\ pc[c] \notin {"done", "both", "from", "to"} => answer[c] = Nothing

(* Two users who ask each other at the same moment, or one who asks twice, *)
(* leave one pending request: both of sendRequest's checks may pass, the   *)
(* index on the unordered pair decides.                                    *)
OnePendingPerPair ==
  \A i, j \in RequestIds :
    /\ requests[i].status = "PENDING" /\ requests[j].status = "PENDING"
    /\ PairOf(i) = PairOf(j)
    => i = j

(* The two tables agree: exactly the pairs with an accepted request are    *)
(* connected, whatever rejections and cancellations race with the accept,  *)
(* and nobody is connected to himself.                                     *)
FriendsByConsent ==
  /\ connections = {PairOf(i) : i \in {j \in RequestIds : requests[j].status = "ACCEPTED"}}
  /\ \A i \in RequestIds : Exists(i) => requests[i].from # requests[i].to

(* What a caller is told stays true: a 201 names a request of the caller   *)
(* to that receiver, at most one of the calls that race for a request is   *)
(* told 200 and the row holds the caller's word, and a list shows          *)
(* nobody's friends and requests but the caller's own.                     *)
Won(c, i) == /\ pc[c] = "done" /\ call[c].kind = "respond"
             /\ call[c].id = i /\ answer[c].code = 200

AnswersTrue(c) ==
  /\ pc[c] = "done" /\ answer[c].code = 201 =>
       \E i \in RequestIds : /\ answer[c].ids = {i}
                             /\ requests[i].from = call[c].user
                             /\ requests[i].to = call[c].peer
  /\ \A i \in RequestIds : Won(c, i) =>
       /\ requests[i].status = call[c].status
       /\ \A d \in Calls : Won(d, i) => d = c
  /\ call[c].kind = "list" =>
       /\ \A v \in answer[c].friends : {call[c].user, v} \in connections
       /\ \A i \in answer[c].ids : call[c].user \in PairOf(i)

AnswersTruthful == \A c \in Calls : AnswersTrue(c)

(* TypeOK, the tables and the handlers: the inductive invariant. *)
IInv == /\ TypeOK
        /\ OnePendingPerPair
        /\ FriendsByConsent
        /\ \A c \in Calls : InHandler(c)
        /\ AnswersTruthful

(* A request that was answered or withdrawn keeps its answer, a request    *)
(* never changes hands, and it is settled by the party entitled to it: the *)
(* status was checked in an earlier query than the update.                 *)
ResolvedOnce ==
  [][\A i \in RequestIds : Exists(i) /\ requests'[i] # requests[i] =>
       /\ requests[i].status = "PENDING"
       /\ requests'[i] = [requests[i] EXCEPT !.status = requests'[i].status]
       /\ \E c \in Calls :
            /\ pc[c] = "claim" /\ pc'[c] = "done"
            /\ requests'[i].status = call[c].status
            /\ call[c].user = IF call[c].status = "CANCELLED" THEN requests[i].from
                                                              ELSE requests[i].to]_vars

-------------------------------------------------------------------------------
(* The handlers as an implementation of the pairs of Friendship. *)

Asker(p) == IF PendingOf(p) = {} THEN NULL
            ELSE requests[CHOOSE i \in PendingOf(p) : TRUE].from

Pair == {p \in SUBSET Users : \E u, v \in p : u # v /\ p = {u, v}}

Abstract == INSTANCE Friendship
              WITH asking <- [p \in Pair |-> Asker(p)], friends <- connections

(* Every step of the handlers, seen pair by pair, is a step of Friendship  *)
(* or changes nothing: no two pending requests, no second answer, no       *)
(* friendship out of nothing.                                              *)
ImplementsFriendship == Abstract!Spec

-------------------------------------------------------------------------------
(* docs/feature-spec.md 4.1 demands of a friend request that there is no   *)
(* connection of the two yet.  sendRequest looks for a connection first    *)
(* and for a pending request afterwards, so that a request accepted in     *)
(* between is seen by neither.                                             *)
NoPendingBetweenFriends ==
  \A i \in RequestIds : requests[i].status = "PENDING" => PairOf(i) \notin connections
==============================================================================
