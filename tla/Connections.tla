---------------------------- MODULE Connections ------------------------------
(***************************************************************************)
(* controllers/connectionsController.js over the tables                    *)
(* user_connection_requests and user_connections.                          *)
(*                                                                         *)
(* A slot of Calls runs one handler at a time, one database round trip per *)
(* step.  The transaction of respondRequest is one step: its first         *)
(* statement locks the only row it depends on, and what it wrote shows     *)
(* when it commits.                                                        *)
(***************************************************************************)
CONSTANTS Users,
          RequestIds,   \* bound: the friend requests an instance can store
          Calls,        \* slots for concurrent calls of the API
          NULL

ASSUME ConnectionsAssumption == NULL \notin Users

VARIABLES
  active,       \* users with status ACTIVE that are not deleted
  requests,     \* user_connection_requests
  connections,  \* user_connections, a row as the set of its two users
  call,         \* the call a slot serves or has served
  pc,           \* what its handler does next
  answer        \* status, and what the response body tells

tables == <<active, requests, connections>>
vars == <<active, requests, connections, call, pc, answer>>

Statuses == {"PENDING", "ACCEPTED", "REJECTED", "CANCELLED"}
NoRow == [from |-> NULL, to |-> NULL, status |-> "NONE"]
Row == [from : Users, to : Users, status : Statuses] \cup {NoRow}

Exists(i) == requests[i].status # "NONE"
PairOf(i) == {requests[i].from, requests[i].to}
PendingOf(p) == {i \in RequestIds : requests[i].status = "PENDING" /\ PairOf(i) = p}

Call == [kind : {"send"}, user : Users, peer : Users]
        \cup [kind : {"respond"}, user : Users, id : RequestIds, status : Statuses \ {"PENDING"}]
        \cup [kind : {"list"}, user : Users, pending : BOOLEAN]
NoCall == [kind |-> "none"]

Free == {"idle", "done"}
Nothing == [code |-> 0, ids |-> {}, friends |-> {}]

Init ==
  /\ active = Users
  /\ requests = [i \in RequestIds |-> NoRow]
  /\ connections = {}
  /\ call = [c \in Calls |-> NoCall]
  /\ pc = [c \in Calls |-> "idle"]
  /\ answer = [c \in Calls |-> Nothing]

Issue(c, new, label) ==
  /\ pc[c] \in Free
  /\ call' = [call EXCEPT ![c] = new]
  /\ pc' = [pc EXCEPT ![c] = label]
  /\ answer' = [answer EXCEPT ![c] = Nothing]
  /\ UNCHANGED tables

Goto(c, label) == pc' = [pc EXCEPT ![c] = label] /\ UNCHANGED <<call, answer>>

Answer(c, code, ids) ==
  /\ pc' = [pc EXCEPT ![c] = "done"]
  /\ answer' = [answer EXCEPT ![c] = [code |-> code, ids |-> answer[c].ids \cup ids,
                                        friends |-> answer[c].friends]]
  /\ UNCHANGED call

(* The read that takes a handler on to its next step, or answers it.       *)
Query(c, label, code, next) ==
  /\ pc[c] = label
  /\ IF code = 0 THEN Goto(c, next) ELSE Answer(c, code, {})
  /\ UNCHANGED tables

-------------------------------------------------------------------------------
(* sendRequest *)

ReceiveSend(c) ==
  \E u, v \in Users : Issue(c, [kind |-> "send", user |-> u, peer |-> v], "receiver")

Asked(c) == {call[c].user, call[c].peer}

FindReceiver(c) ==
  Query(c, "receiver", IF call[c].user = call[c].peer THEN 400
                       ELSE IF call[c].peer \notin active THEN 404 ELSE 0, "connection")

FindConnection(c) ==
  Query(c, "connection", IF Asked(c) \in connections THEN 409 ELSE 0, "pending")

FindPending(c) ==
  Query(c, "pending", IF PendingOf(Asked(c)) # {} THEN 409 ELSE 0, "insert")

NoPairIndex(p) == TRUE                            \* mutant: index not created
(* The partial unique index on the unordered pair of a pending request. *)
PairIndexAllows(p) == PendingOf(p) = {}

InsertRequest(c) ==
  /\ pc[c] = "insert"
  /\ UNCHANGED <<active, connections>>
  /\ \/ /\ PairIndexAllows(Asked(c))
        /\ \E i \in RequestIds :
             /\ ~ Exists(i)
             /\ requests' = [requests EXCEPT ![i] =
                  [from |-> call[c].user, to |-> call[c].peer, status |-> "PENDING"]]
             /\ Answer(c, 201, {i})
     \/ /\ ~ PairIndexAllows(Asked(c))
        /\ Answer(c, 409, {})
        /\ UNCHANGED requests

-------------------------------------------------------------------------------
(* respondRequest *)

ReceiveRespond(c) ==
  \E u \in Users, i \in RequestIds, s \in Statuses \ {"PENDING"} :
    Issue(c, [kind |-> "respond", user |-> u, id |-> i, status |-> s], "find")

EitherParty(row, user, status) == user \in {row.from, row.to}   \* mutant: one test for both
MayRespond(row, user, status) ==
  IF status = "CANCELLED" THEN row.from = user ELSE row.to = user

FindRequest(c) ==
  LET row == requests[call[c].id]
  IN  Query(c, "find", IF row.status = "NONE" THEN 404
                       ELSE IF row.status # "PENDING" THEN 409
                       ELSE IF ~ MayRespond(row, call[c].user, call[c].status) THEN 403
                       ELSE 0, "claim")

NotRechecked(i) == TRUE                           \* mutant: where without the status
StillPending(i) == requests[i].status = "PENDING"

AnyResponse(status) == TRUE                       \* mutant: upsert outside its if
Connects(status) == status = "ACCEPTED"

ClaimRequest(c) ==
  LET i == call[c].id
      s == call[c].status
  IN  /\ pc[c] = "claim"
      /\ UNCHANGED active
      /\ \/ /\ StillPending(i)
            /\ requests' = [requests EXCEPT ![i].status = s]
            /\ connections' = IF Connects(s) THEN connections \cup {PairOf(i)} ELSE connections
            /\ Answer(c, 200, {i})
         \/ /\ ~ StillPending(i)
            /\ Answer(c, 409, {})
            /\ UNCHANGED <<requests, connections>>

-------------------------------------------------------------------------------
(* getConnections; the two lists of pending requests are separate queries  *)
(* of one Promise.all, in either order.                                    *)

ReceiveList(c) ==
  \E u \in Users, b \in BOOLEAN :
    Issue(c, [kind |-> "list", user |-> u, pending |-> b], "friends")

ListFriends(c) ==
  /\ pc[c] = "friends"
  /\ pc' = [pc EXCEPT ![c] = IF call[c].pending THEN "both" ELSE "done"]
  /\ answer' = [answer EXCEPT ![c] =
       [code |-> IF call[c].pending THEN 0 ELSE 200, ids |-> {},
        friends |-> {v \in Users : {call[c].user, v} \in connections}]]
  /\ UNCHANGED <<call, active, requests, connections>>

(* The pending requests that user has sent or received. *)
PendingSide(user, side) ==
  {i \in RequestIds : requests[i].status = "PENDING" /\ requests[i][side] = user}

ListPending(c) ==
  \E side \in {"from", "to"} :
    LET found == PendingSide(call[c].user, side)
    IN  /\ UNCHANGED tables
        /\ \/ /\ pc[c] = "both"
              /\ pc' = [pc EXCEPT ![c] = IF side = "from" THEN "to" ELSE "from"]
              /\ answer' = [answer EXCEPT ![c] = [code |-> 0, ids |-> answer[c].ids \cup found,
                                                  friends |-> answer[c].friends]]
              /\ UNCHANGED call
           \/ /\ pc[c] = side
              /\ Answer(c, 200, found)

-------------------------------------------------------------------------------
(* Any query may fail; what it was part of is rolled back. *)
Fail(c) == /\ pc[c] \notin Free
           /\ pc' = [pc EXCEPT ![c] = "done"]
           /\ answer' = [answer EXCEPT ![c] = [code |-> 500, ids |-> {}, friends |-> {}]]
           /\ UNCHANGED <<call, active, requests, connections>>

(* No endpoint deactivates a user; an operator may. *)
Deactivate(u) == /\ u \in active
                 /\ active' = active \ {u}
                 /\ UNCHANGED <<requests, connections, call, pc, answer>>

Receive(c) == ReceiveSend(c) \/ ReceiveRespond(c) \/ ReceiveList(c)

Handle(c) ==
  \/ FindReceiver(c) \/ FindConnection(c) \/ FindPending(c) \/ InsertRequest(c)
  \/ FindRequest(c)  \/ ClaimRequest(c)
  \/ ListFriends(c)  \/ ListPending(c)
  \/ Fail(c)

Next == \/ \E u \in Users : Deactivate(u)
        \/ \E c \in Calls : Receive(c) \/ Handle(c)

Spec == Init /\ [][Next]_vars
==============================================================================
