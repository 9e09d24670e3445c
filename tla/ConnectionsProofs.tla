-------------------------- MODULE ConnectionsProofs --------------------------
(* Proofs about Connections, for any number of users, requests and calls. *)
EXTENDS ConnectionProperties, TLAPS

USE ConnectionsAssumption

LEMMA InitIInv == Init => IInv
<1> SUFFICES ASSUME Init PROVE IInv
  OBVIOUS
<1>1. TypeOK
  BY DEF Init, TypeOK, NoRow, Row, NoCall, Nothing, Labels, Codes
<1>2. \A i \in RequestIds : requests[i].status = "NONE"
  BY DEF Init, NoRow
<1>3. OnePendingPerPair /\ FriendsByConsent
  BY <1>2 DEF Init, OnePendingPerPair, FriendsByConsent, Exists
<1>4. \A c \in Calls : InHandler(c)
  BY DEF Init, InHandler, NoCall, Nothing
<1>5. AnswersTruthful
  BY DEF Init, AnswersTruthful, AnswersTrue, Won, NoCall, Nothing
<1> QED BY <1>1, <1>3, <1>4, <1>5 DEF IInv

-------------------------------------------------------------------------------
(* What a step is to the tables, and what it is to its slot. *)

(* Rows are only added and settled, connections only added. *)
RowsKept ==
  /\ \A i \in RequestIds : Exists(i) =>
       /\ Exists(i)'
       /\ requests'[i].from = requests[i].from
       /\ requests'[i].to = requests[i].to
       /\ requests[i].status # "PENDING" => requests'[i] = requests[i]
  /\ connections \subseteq connections'

(* A step of slot c leaves the other slots alone. *)
StepOf(c) == \A d \in Calls \ {c} : /\ call'[d] = call[d]
                                    /\ pc'[d] = pc[d]
                                    /\ answer'[d] = answer[d]

Quiet == UNCHANGED <<requests, connections>>

LEMMA QuietTables ==
  ASSUME Quiet
  PROVE  /\ RowsKept
         /\ OnePendingPerPair => OnePendingPerPair'
         /\ FriendsByConsent => FriendsByConsent'
BY DEF Quiet, RowsKept, Exists, OnePendingPerPair, FriendsByConsent, PairOf

(* The steps that answer, or go on after, a query. *)
LEMMA QueryStep ==
  ASSUME IInv, NEW c \in Calls, NEW label, label \notin Free,
         NEW code \in Codes, NEW next \in Labels, Query(c, label, code, next)
  PROVE  /\ TypeOK' /\ Quiet /\ StepOf(c) /\ call' = call
         /\ code = 0 => pc'[c] = next /\ answer'[c] = answer[c]
         /\ code # 0 => /\ pc'[c] = "done"
                        /\ answer'[c] = [code |-> code, ids |-> answer[c].ids, friends |-> answer[c].friends]
<1>1. /\ "done" \in Labels
      /\ [code |-> code, ids |-> answer[c].ids, friends |-> answer[c].friends]
           \in [code : Codes, ids : SUBSET RequestIds, friends : SUBSET Users]
  BY DEF IInv, TypeOK, Labels
<1>2. CASE code = 0
  BY <1>1, <1>2 DEF Query, Goto, IInv, TypeOK, tables, Quiet, StepOf
<1>3. CASE code # 0
  BY <1>1, <1>3 DEF Query, Answer, IInv, TypeOK, tables, Quiet, StepOf
<1> QED BY <1>2, <1>3

(* A slot that a step of another one does not touch stays as it should be. *)
LEMMA Untouched ==
  ASSUME IInv, NEW c \in Calls, RowsKept,
         call'[c] = call[c], pc'[c] = pc[c], answer'[c] = answer[c]
  PROVE  InHandler(c)'
<1>1. /\ call'[c] = call[c] /\ pc'[c] = pc[c] /\ answer'[c] = answer[c]
      /\ InHandler(c)
  BY DEF IInv
<1>2. ASSUME pc[c] = "claim"
      PROVE  /\ Exists(call[c].id)'
             /\ MayRespond(requests[call[c].id], call[c].user, call[c].status)'
  <2>1. call[c].kind = "respond" /\ Exists(call[c].id)
    BY <1>1, <1>2 DEF InHandler
  <2>2. call[c].id \in RequestIds
    BY <2>1 DEF IInv, TypeOK, Call, NoCall
  <2> QED BY <1>1, <1>2, <2>1, <2>2 DEF RowsKept, MayRespond, InHandler
<1> QED BY <1>1, <1>2 DEF InHandler

LEMMA RowThere ==
  ASSUME TypeOK, NEW i \in RequestIds, NEW u \in Users, u \in PairOf(i)
  PROVE  Exists(i)
BY DEF TypeOK, Row, NoRow, PairOf, Exists, Statuses

(* Answers given stay true, as long as no other slot wins the same request. *)
LEMMA StaysTrue ==
  ASSUME IInv, NEW c \in Calls, RowsKept,
         call'[c] = call[c], pc'[c] = pc[c], answer'[c] = answer[c],
         \A i \in RequestIds, d \in Calls : Won(c, i) /\ Won(d, i)' => Won(d, i)
  PROVE  AnswersTrue(c)'
<1> USE DEF IInv, AnswersTruthful
<1>1. AnswersTrue(c)
  OBVIOUS
<1>2. pc[c] = "done" /\ answer[c].code = 201 =>
        \E i \in RequestIds : /\ answer[c].ids = {i}
                              /\ requests'[i].from = call[c].user
                              /\ requests'[i].to = call[c].peer
  <2> SUFFICES ASSUME pc[c] = "done" /\ answer[c].code = 201
               PROVE  \E i \in RequestIds : /\ answer[c].ids = {i}
                              /\ requests'[i].from = call[c].user
                              /\ requests'[i].to = call[c].peer
    OBVIOUS
  <2>1. PICK i \in RequestIds : /\ answer[c].ids = {i}
                               /\ requests[i].from = call[c].user
                               /\ requests[i].to = call[c].peer
    BY <1>1 DEF AnswersTrue
  <2>2. call[c].user \in Users
    BY DEF InHandler, TypeOK, Call, NoCall
  <2>3. Exists(i)
    BY <2>1, <2>2, RowThere DEF PairOf
  <2> QED BY <2>1, <2>3 DEF RowsKept
<1>3. \A i \in RequestIds : Won(c, i)' = Won(c, i)
  BY DEF Won
<1>4. ASSUME NEW i \in RequestIds, Won(c, i)
      PROVE  /\ requests'[i].status = call[c].status
             /\ \A d \in Calls : Won(d, i)' => d = c
  <2>1. requests[i].status = call[c].status /\ call[c].kind = "respond"
    BY <1>1, <1>4 DEF AnswersTrue, Won
  <2>2. call[c].status \in Statuses \ {"PENDING"}
    BY <2>1 DEF TypeOK, Call, NoCall
  <2> QED BY <1>1, <1>4, <2>1, <2>2 DEF AnswersTrue, RowsKept, Exists, Statuses
<1>5. call[c].kind = "list" =>
       /\ \A v \in answer[c].friends : {call[c].user, v} \in connections'
       /\ \A i \in answer[c].ids : call[c].user \in PairOf(i)'
  <2>1. \A i \in RequestIds : Exists(i) => PairOf(i)' = PairOf(i)
    BY DEF RowsKept, PairOf
  <2>2. SUFFICES ASSUME call[c].kind = "list"
                 PROVE  /\ \A v \in answer[c].friends : {call[c].user, v} \in connections'
                        /\ \A i \in answer[c].ids : call[c].user \in PairOf(i)'
    OBVIOUS
  <2>3. call[c].user \in Users /\ answer[c].ids \subseteq RequestIds
    BY <2>2 DEF TypeOK, Call, NoCall
  <2>4. \A i \in answer[c].ids : Exists(i)
    BY <1>1, <2>2, <2>3, RowThere DEF AnswersTrue
  <2> QED BY <1>1, <2>1, <2>2, <2>3, <2>4 DEF AnswersTrue, RowsKept
<1> QED BY <1>2, <1>3, <1>4, <1>5 DEF AnswersTrue

(* A step of one slot preserves the invariant if it keeps the tables and    *)
(* does right by its own slot.                                             *)
LEMMA Compose ==
  ASSUME IInv, NEW c \in Calls, RowsKept, StepOf(c), TypeOK',
         OnePendingPerPair', FriendsByConsent', InHandler(c)', AnswersTrue(c)',
         \A i \in RequestIds, d \in Calls : Won(c, i)' /\ Won(d, i) => d = c
  PROVE  IInv'
<1>1. ASSUME NEW d \in Calls, d # c
      PROVE  InHandler(d)' /\ AnswersTrue(d)'
  <2>1. call'[d] = call[d] /\ pc'[d] = pc[d] /\ answer'[d] = answer[d]
    BY <1>1 DEF StepOf
  <2>2. \A i \in RequestIds, e \in Calls : Won(d, i) /\ Won(e, i)' => Won(e, i)
    BY <1>1 DEF StepOf, Won
  <2> QED BY <2>1, <2>2, Untouched, StaysTrue
<1>2. (\A d \in Calls : InHandler(d))' /\ AnswersTruthful'
  BY <1>1 DEF AnswersTruthful
<1> QED BY <1>2 DEF IInv

(* A step that leaves both tables alone and does not answer 200 or 201.    *)
LEMMA QuietStep ==
  ASSUME IInv, NEW c \in Calls, Quiet, StepOf(c), TypeOK', InHandler(c)',
         answer'[c].code \notin {200, 201},
         call'[c].kind = "list" =>
           /\ \A v \in answer'[c].friends : {call'[c].user, v} \in connections
           /\ \A i \in answer'[c].ids : call'[c].user \in PairOf(i)
  PROVE  IInv'
<1>1. RowsKept /\ OnePendingPerPair' /\ FriendsByConsent'
  BY QuietTables DEF IInv
<1>2. ~ \E i \in RequestIds : Won(c, i)'
  BY DEF Won
<1>3. AnswersTrue(c)'
  BY <1>2 DEF AnswersTrue, Quiet, PairOf
<1> QED BY <1>1, <1>2, <1>3, Compose

LEMMA QueryIInv ==
  ASSUME IInv, NEW c \in Calls, NEW label \in Labels \ {"idle", "done", "both", "from", "to"},
         NEW code \in {0, 400, 403, 404, 409},
         NEW next \in {"connection", "pending", "insert", "claim"},
         Query(c, label, code, next),
         code = 0 => InHandler(c)'
  PROVE  IInv'
<1>1. /\ TypeOK' /\ Quiet /\ StepOf(c) /\ call' = call
      /\ code = 0 => pc'[c] = next /\ answer'[c] = answer[c]
      /\ code # 0 => /\ pc'[c] = "done"
                     /\ answer'[c] = [code |-> code, ids |-> answer[c].ids, friends |-> answer[c].friends]
  <2>1. label \notin Free /\ code \in Codes /\ next \in Labels
    BY DEF Labels, Codes, Free
  <2> QED BY <2>1, QueryStep
<1>2. answer[c] = Nothing
  BY DEF IInv, InHandler, Labels, Query
<1>3. answer'[c].code = code /\ answer'[c].ids = {} /\ answer'[c].friends = {}
  BY <1>1, <1>2 DEF Nothing
<1>4. InHandler(c)'
  BY <1>1, <1>3 DEF InHandler
<1> QED BY <1>1, <1>3, <1>4, QuietStep

LEMMA SendReads ==
  ASSUME IInv, NEW c \in Calls, FindReceiver(c) \/ FindConnection(c) \/ FindPending(c)
  PROVE  IInv'
<1>1. call[c].kind = "send" => call[c] \in Call
  BY DEF IInv, TypeOK, NoCall
<1>2. CASE FindReceiver(c)
  <2>1. InHandler(c) /\ answer[c].code = 0
    BY <1>2 DEF IInv, InHandler, FindReceiver, Query
  <2> DEFINE code == IF call[c].user = call[c].peer THEN 400
                     ELSE IF call[c].peer \notin active THEN 404 ELSE 0
  <2>2. Query(c, "receiver", code, "connection") /\ code \in {0, 400, 403, 404, 409}
    BY <1>2 DEF FindReceiver
  <2>3. code = 0 => call[c].user # call[c].peer
    OBVIOUS
  <2>4. code = 0 => InHandler(c)'
    BY <2>1, <2>2, <2>3 DEF InHandler, Query, Goto, IInv, TypeOK, tables
  <2> HIDE DEF code
  <2> QED BY <2>2, <2>4, QueryIInv DEF Labels
<1>3. CASE FindConnection(c)
  <2>1. InHandler(c) /\ answer[c].code = 0
    BY <1>3 DEF IInv, InHandler, FindConnection, Query
  <2> DEFINE code == IF Asked(c) \in connections THEN 409 ELSE 0
  <2>2. Query(c, "connection", code, "pending") /\ code \in {0, 400, 403, 404, 409}
    BY <1>3 DEF FindConnection
  <2>4. code = 0 => InHandler(c)'
    BY <2>1, <2>2 DEF InHandler, Query, Goto, IInv, TypeOK, tables
  <2> HIDE DEF code
  <2> QED BY <2>2, <2>4, QueryIInv DEF Labels
<1>4. CASE FindPending(c)
  <2>1. InHandler(c) /\ answer[c].code = 0
    BY <1>4 DEF IInv, InHandler, FindPending, Query
  <2> DEFINE code == IF PendingOf(Asked(c)) # {} THEN 409 ELSE 0
  <2>2. Query(c, "pending", code, "insert") /\ code \in {0, 400, 403, 404, 409}
    BY <1>4 DEF FindPending
  <2>4. code = 0 => InHandler(c)'
    BY <2>1, <2>2 DEF InHandler, Query, Goto, IInv, TypeOK, tables
  <2> HIDE DEF code
  <2> QED BY <2>2, <2>4, QueryIInv DEF Labels
<1> QED BY <1>2, <1>3, <1>4

LEMMA FindIInv ==
  ASSUME IInv, NEW c \in Calls, FindRequest(c)
  PROVE  IInv'
<1> DEFINE row == requests[call[c].id]
           code == IF row.status = "NONE" THEN 404
                   ELSE IF row.status # "PENDING" THEN 409
                   ELSE IF ~ MayRespond(row, call[c].user, call[c].status) THEN 403 ELSE 0
<1>1. InHandler(c) /\ answer[c].code = 0
  BY DEF IInv, InHandler, FindRequest, Query
<1>2. Query(c, "find", code, "claim") /\ code \in {0, 400, 403, 404, 409}
  BY DEF FindRequest
<1>3. code = 0 => /\ Exists(call[c].id)
                  /\ MayRespond(requests[call[c].id], call[c].user, call[c].status)
  BY DEF Exists
<1> HIDE DEF code
<1>4. ASSUME code = 0 PROVE InHandler(c)'
  <2>1. /\ pc' = [pc EXCEPT ![c] = "claim"] /\ pc[c] = "find"
        /\ UNCHANGED <<call, answer, requests>>
    BY <1>2, <1>4 DEF Query, Goto, tables
  <2>2. pc'[c] = "claim"
    BY <2>1 DEF IInv, TypeOK
  <2>3. /\ Exists(call[c].id)'
        /\ MayRespond(requests[call[c].id], call[c].user, call[c].status)'
    BY <1>3, <1>4, <2>1 DEF Exists, MayRespond
  <2> QED BY <1>1, <2>1, <2>2, <2>3 DEF InHandler
<1> QED BY <1>2, <1>4, QueryIInv DEF Labels

LEMMA InsertIInv ==
  ASSUME IInv, NEW c \in Calls, InsertRequest(c)
  PROVE  IInv'
<1>1. /\ call[c].kind = "send" /\ call[c] \in Call /\ call[c].user # call[c].peer
      /\ answer[c] = Nothing
  BY DEF InsertRequest, IInv, InHandler, TypeOK, NoCall
<1>2. call[c].user \in Users /\ call[c].peer \in Users
  BY <1>1 DEF Call
<1>3. /\ "done" \in Labels
      /\ [code |-> 409, ids |-> {}, friends |-> {}] \in [code : Codes, ids : SUBSET RequestIds, friends : SUBSET Users]
      /\ \A i \in RequestIds : [code |-> 201, ids |-> {i}, friends |-> {}] \in [code : Codes, ids : SUBSET RequestIds, friends : SUBSET Users]
  BY DEF Labels, Codes
<1>4. CASE Answer(c, 409, {}) /\ UNCHANGED requests
  <2>1. answer' = [answer EXCEPT ![c] = [code |-> 409, ids |-> {}, friends |-> {}]]
    BY <1>1, <1>4 DEF Answer, Nothing
  <2>5. UNCHANGED <<active, requests, connections, call>> /\ pc' = [pc EXCEPT ![c] = "done"]
    BY <1>4 DEF InsertRequest, Answer
  <2>2. TypeOK' /\ StepOf(c) /\ call' = call /\ pc'[c] = "done"
        /\ answer'[c] = [code |-> 409, ids |-> {}, friends |-> {}]
    BY <1>3, <2>5, <2>1 DEF IInv, TypeOK, StepOf
  <2>3. Quiet
    BY <1>4 DEF InsertRequest, Quiet
  <2>4. InHandler(c)'
    BY <1>1, <2>2 DEF InHandler
  <2> QED BY <1>1, <2>2, <2>3, <2>4, QuietStep
<1>5. ASSUME NEW i \in RequestIds, ~ Exists(i), PairIndexAllows(Asked(c)), Answer(c, 201, {i}),
             requests' = [requests EXCEPT ![i] =
                [from |-> call[c].user, to |-> call[c].peer, status |-> "PENDING"]]
      PROVE  IInv'
  <2> DEFINE new == [from |-> call[c].user, to |-> call[c].peer, status |-> "PENDING"]
  <2>1. /\ answer' = [answer EXCEPT ![c] = [code |-> 201, ids |-> {i}, friends |-> {}]]
        /\ UNCHANGED <<active, connections, call>> /\ pc' = [pc EXCEPT ![c] = "done"]
    BY <1>1, <1>5 DEF Answer, Nothing, InsertRequest
  <2>2. new \in Row
    BY <1>2 DEF Row, Statuses
  <2>3. TypeOK' /\ StepOf(c) /\ pc'[c] = "done"
        /\ answer'[c] = [code |-> 201, ids |-> {i}, friends |-> {}]
    BY <1>3, <1>5, <2>1, <2>2 DEF IInv, TypeOK, StepOf
  <2>4. requests'[i] = new /\ \A j \in RequestIds : j # i => requests'[j] = requests[j]
    BY <1>5 DEF IInv, TypeOK
  <2>5. RowsKept
    BY <1>5, <2>1, <2>4 DEF RowsKept, Exists
  <2>6. OnePendingPerPair'
    <3>1. \A j \in RequestIds : requests[j].status = "PENDING" => PairOf(j) # Asked(c)
      BY <1>5 DEF PairIndexAllows, PendingOf
    <3>2. PairOf(i)' = Asked(c) /\ \A j \in RequestIds : j # i => PairOf(j)' = PairOf(j)
      BY <2>4 DEF PairOf, Asked
    <3> QED BY <2>4, <3>1, <3>2 DEF OnePendingPerPair, IInv
  <2>7. FriendsByConsent'
    <3>1. \A j \in RequestIds : requests'[j].status = "ACCEPTED" <=> requests[j].status = "ACCEPTED"
      BY <1>5, <2>4 DEF Exists
    <3>2. \A j \in RequestIds : requests[j].status = "ACCEPTED" => PairOf(j)' = PairOf(j)
      BY <1>5, <2>4 DEF PairOf, Exists
    <3>3. \A j \in RequestIds : Exists(j)' => requests'[j].from # requests'[j].to
      BY <1>1, <2>4 DEF Exists, IInv, FriendsByConsent
    <3> QED BY <2>1, <3>1, <3>2, <3>3 DEF IInv, FriendsByConsent
  <2>8. InHandler(c)'
    BY <1>1, <2>1, <2>3 DEF InHandler
  <2>9. ~ \E j \in RequestIds : Won(c, j)'
    BY <2>3 DEF Won
  <2>10. AnswersTrue(c)'
    BY <1>1, <2>1, <2>3, <2>4, <2>9 DEF AnswersTrue
  <2> QED BY <2>3, <2>5, <2>6, <2>7, <2>8, <2>9, <2>10, Compose
<1> QED BY <1>4, <1>5 DEF InsertRequest

LEMMA ClaimIInv ==
  ASSUME IInv, NEW c \in Calls, ClaimRequest(c)
  PROVE  IInv'
<1> DEFINE i == call[c].id
           s == call[c].status
<1>1. /\ call[c].kind = "respond" /\ call[c] \in Call /\ Exists(i) /\ answer[c] = Nothing
      /\ i \in RequestIds /\ s \in Statuses \ {"PENDING"}
  BY DEF ClaimRequest, IInv, InHandler, TypeOK, NoCall, Call
<1>2. /\ "done" \in Labels
      /\ [code |-> 409, ids |-> {}, friends |-> {}] \in [code : Codes, ids : SUBSET RequestIds, friends : SUBSET Users]
      /\ [code |-> 200, ids |-> {i}, friends |-> {}] \in [code : Codes, ids : SUBSET RequestIds, friends : SUBSET Users]
  BY <1>1 DEF Labels, Codes
<1> HIDE DEF i, s
<1>3. CASE Answer(c, 409, {}) /\ UNCHANGED <<requests, connections>>
  <2>1. answer' = [answer EXCEPT ![c] = [code |-> 409, ids |-> {}, friends |-> {}]]
    BY <1>1, <1>3 DEF Answer, Nothing
  <2>4. UNCHANGED <<active, requests, connections, call>> /\ pc' = [pc EXCEPT ![c] = "done"]
    BY <1>3 DEF ClaimRequest, Answer
  <2>2. TypeOK' /\ StepOf(c) /\ call' = call /\ pc'[c] = "done"
        /\ answer'[c] = [code |-> 409, ids |-> {}, friends |-> {}]
    BY <1>2, <2>4, <2>1 DEF IInv, TypeOK, StepOf
  <2>3. InHandler(c)'
    BY <1>1, <2>2 DEF InHandler
  <2> QED BY <1>1, <1>3, <2>2, <2>3, QuietStep DEF Quiet
<1>4. ASSUME StillPending(i), Answer(c, 200, {i}), UNCHANGED active,
             requests' = [requests EXCEPT ![i].status = s],
             connections' = IF Connects(s) THEN connections \cup {PairOf(i)} ELSE connections
      PROVE  IInv'
  <2>1. /\ answer' = [answer EXCEPT ![c] = [code |-> 200, ids |-> {i}, friends |-> {}]]
        /\ call' = call /\ pc' = [pc EXCEPT ![c] = "done"]
    BY <1>1, <1>4 DEF Answer, Nothing
  <2>2. requests[i].status = "PENDING" /\ requests[i] \in [from : Users, to : Users, status : Statuses]
    BY <1>1, <1>4 DEF StillPending, IInv, TypeOK, Row, NoRow
  <2>3. /\ requests'[i] = [from |-> requests[i].from, to |-> requests[i].to, status |-> s]
        /\ \A j \in RequestIds : j # i => requests'[j] = requests[j]
        /\ requests' \in [RequestIds -> Row]
    BY <1>1, <1>4, <2>2 DEF IInv, TypeOK, Row
  <2>4. TypeOK' /\ StepOf(c) /\ pc'[c] = "done"
        /\ answer'[c] = [code |-> 200, ids |-> {i}, friends |-> {}]
    <3>1. PairOf(i) \subseteq Users
      BY <2>2 DEF PairOf
    <3> QED BY <1>2, <1>4, <2>1, <2>3, <3>1 DEF IInv, TypeOK, StepOf
  <2>5. RowsKept
    BY <1>1, <1>4, <2>2, <2>3 DEF RowsKept, Exists, Statuses
  <2>6. \A j \in RequestIds : PairOf(j)' = PairOf(j)
    BY <2>3 DEF PairOf
  <2>7. OnePendingPerPair'
    BY <1>1, <2>3, <2>6 DEF OnePendingPerPair, IInv, Statuses
  <2>8. FriendsByConsent'
    <3>1. \A j \in RequestIds : Exists(j)' => requests'[j].from # requests'[j].to
      BY <1>1, <2>2, <2>3 DEF Exists, IInv, FriendsByConsent
    <3>2. \A j \in RequestIds : requests'[j].status = "ACCEPTED" <=>
            requests[j].status = "ACCEPTED" \/ (j = i /\ s = "ACCEPTED")
      BY <1>1, <2>2, <2>3
    <3>3. connections' = {PairOf(j) : j \in {k \in RequestIds : requests'[k].status = "ACCEPTED"}}
      BY <1>1, <1>4, <3>2 DEF IInv, FriendsByConsent, Connects
    <3> QED BY <2>6, <3>1, <3>3 DEF FriendsByConsent
  <2>9. InHandler(c)'
    BY <1>1, <2>1, <2>4 DEF InHandler
  <2>10. \A j \in RequestIds, d \in Calls : Won(c, j)' /\ Won(d, j) => d = c
    <3>1. \A j \in RequestIds : Won(c, j)' => j = i
      BY <2>1 DEF Won, i
    <3>2. \A d \in Calls : Won(d, i) => requests[i].status # "PENDING"
      <4> SUFFICES ASSUME NEW d \in Calls, Won(d, i)
                   PROVE  requests[i].status # "PENDING"
        OBVIOUS
      <4>1. requests[i].status = call[d].status /\ call[d].kind = "respond"
        BY <1>1 DEF IInv, AnswersTruthful, AnswersTrue, Won
      <4> QED BY <4>1 DEF IInv, TypeOK, Call, NoCall
    <3> QED BY <2>2, <3>1, <3>2
  <2>11. AnswersTrue(c)'
    <3>1. \A j \in RequestIds, d \in Calls : Won(c, j)' /\ Won(d, j)' => d = c
      <4> SUFFICES ASSUME NEW j \in RequestIds, NEW d \in Calls, d # c, Won(c, j)', Won(d, j)'
                   PROVE  FALSE
        OBVIOUS
      <4>1. Won(d, j)
        BY <2>4 DEF StepOf, Won
      <4> QED BY <2>10, <4>1
    <3>2. \A j \in RequestIds : Won(c, j)' => requests'[j].status = call'[c].status
      BY <2>1, <2>3 DEF Won, i, s
    <3> QED BY <1>1, <2>1, <2>4, <3>1, <3>2 DEF AnswersTrue
  <2> QED BY <2>4, <2>5, <2>7, <2>8, <2>9, <2>10, <2>11, Compose
<1> QED BY <1>3, <1>4 DEF ClaimRequest, i, s

LEMMA ListFriendsIInv ==
  ASSUME IInv, NEW c \in Calls, ListFriends(c)
  PROVE  IInv'
<1> DEFINE found == {v \in Users : {call[c].user, v} \in connections}
<1>1. /\ call[c].kind = "list" /\ call[c].pending \in BOOLEAN
      /\ answer[c] = Nothing
  BY DEF ListFriends, IInv, InHandler, TypeOK, NoCall, Call
<1>2. /\ Quiet /\ call' = call /\ active' = active
      /\ pc' = [pc EXCEPT ![c] = IF call[c].pending THEN "both" ELSE "done"]
      /\ answer' = [answer EXCEPT ![c] =
           [code |-> IF call[c].pending THEN 0 ELSE 200, ids |-> {}, friends |-> found]]
  BY DEF ListFriends, Quiet
<1>3. TypeOK' /\ StepOf(c)
  <2>1. [code |-> IF call[c].pending THEN 0 ELSE 200, ids |-> {}, friends |-> found]
          \in [code : Codes, ids : SUBSET RequestIds, friends : SUBSET Users]
    BY DEF Codes
  <2>2. (IF call[c].pending THEN "both" ELSE "done") \in Labels
    BY DEF Labels
  <2> HIDE DEF found
  <2> QED BY <1>2, <2>1, <2>2 DEF TypeOK, IInv, StepOf, Quiet
<1>4. /\ answer'[c].code = (IF call[c].pending THEN 0 ELSE 200)
      /\ answer'[c].ids = {} /\ answer'[c].friends = found
      /\ pc'[c] = (IF call[c].pending THEN "both" ELSE "done")
  BY <1>2 DEF IInv, TypeOK
<1>5. InHandler(c)'
  BY <1>1, <1>2, <1>4 DEF InHandler
<1>6. AnswersTrue(c)'
  BY <1>1, <1>2, <1>4 DEF AnswersTrue, Won, Quiet
<1>7. ~ \E j \in RequestIds : Won(c, j)'
  BY <1>1, <1>2 DEF Won
<1> QED BY <1>2, <1>3, <1>5, <1>6, <1>7, Compose, QuietTables DEF IInv

LEMMA ListPendingIInv ==
  ASSUME IInv, NEW c \in Calls, ListPending(c)
  PROVE  IInv'
<1>1. call[c].kind = "list" /\ call[c].user \in Users /\ answer[c].code = 0
  BY DEF ListPending, IInv, InHandler, TypeOK, NoCall, Call
<1>2. PICK found \in SUBSET RequestIds, label \in {"from", "to", "done"}, code \in {0, 200} :
        /\ UNCHANGED tables /\ call' = call
        /\ \A i \in found : call[c].user \in PairOf(i)
        /\ code = 200 => label = "done"
        /\ label = "done" => code = 200
        /\ pc' = [pc EXCEPT ![c] = label]
        /\ answer' = [answer EXCEPT ![c] = [code |-> code, ids |-> answer[c].ids \cup found,
                                            friends |-> answer[c].friends]]
  <2>1. PICK side \in {"from", "to"} :
          LET found == PendingSide(call[c].user, side)
          IN  /\ UNCHANGED tables
              /\ \/ /\ pc[c] = "both"
                    /\ pc' = [pc EXCEPT ![c] = IF side = "from" THEN "to" ELSE "from"]
                    /\ answer' = [answer EXCEPT ![c] = [code |-> 0, ids |-> answer[c].ids \cup found,
                                                        friends |-> answer[c].friends]]
                    /\ UNCHANGED call
                 \/ /\ pc[c] = side
                    /\ Answer(c, 200, found)
    BY DEF ListPending
  <2> DEFINE found == PendingSide(call[c].user, side)
  <2>2. found \subseteq RequestIds /\ \A i \in found : call[c].user \in PairOf(i)
    BY DEF PendingSide, PairOf
  <2> HIDE DEF found
  <2>3. CASE /\ pc' = [pc EXCEPT ![c] = IF side = "from" THEN "to" ELSE "from"]
             /\ answer' = [answer EXCEPT ![c] = [code |-> 0, ids |-> answer[c].ids \cup found,
                                                        friends |-> answer[c].friends]]
             /\ UNCHANGED call
    <3> DEFINE label == IF side = "from" THEN "to" ELSE "from"
    <3>1. label \in {"from", "to", "done"} /\ label # "done" /\ 0 \in {0, 200} /\ 0 # 200
      OBVIOUS
    <3>2. pc' = [pc EXCEPT ![c] = label] /\ UNCHANGED tables
      BY <2>1, <2>3
    <3> HIDE DEF label
    <3> QED BY <2>2, <2>3, <3>1, <3>2
  <2>4. CASE Answer(c, 200, found)
    BY <2>1, <2>2, <2>4 DEF Answer
  <2> QED BY <2>1, <2>3, <2>4 DEF found
<1>3. answer[c] \in [code : Codes, ids : SUBSET RequestIds, friends : SUBSET Users]
  BY DEF IInv, TypeOK
<1>4. Quiet /\ active' = active
  BY <1>2 DEF tables, Quiet
<1>5. TypeOK' /\ StepOf(c)
  <2>1. [code |-> code, ids |-> answer[c].ids \cup found, friends |-> answer[c].friends]
          \in [code : Codes, ids : SUBSET RequestIds, friends : SUBSET Users]
    BY <1>3 DEF Codes
  <2>2. label \in Labels
    BY DEF Labels
  <2> QED BY <1>2, <1>4, <2>1, <2>2 DEF TypeOK, IInv, StepOf, Quiet
<1>6. /\ answer'[c].code = code /\ answer'[c].ids = answer[c].ids \cup found
      /\ answer'[c].friends = answer[c].friends /\ pc'[c] = label
  BY <1>2 DEF IInv, TypeOK
<1>7. InHandler(c)'
  BY <1>1, <1>2, <1>6 DEF InHandler
<1>8. ~ \E j \in RequestIds : Won(c, j)'
  BY <1>1, <1>2 DEF Won
<1>9. AnswersTrue(c)'
  <2>1. AnswersTrue(c)
    BY DEF IInv, AnswersTruthful
  <2> QED BY <1>1, <1>2, <1>4, <1>6, <1>8, <2>1 DEF AnswersTrue, Quiet, PairOf
<1> QED BY <1>4, <1>5, <1>7, <1>8, <1>9, Compose, QuietTables DEF IInv

LEMMA FailIInv ==
  ASSUME IInv, NEW c \in Calls, Fail(c)
  PROVE  IInv'
<1>1. /\ Quiet /\ call' = call /\ active' = active /\ pc' = [pc EXCEPT ![c] = "done"]
      /\ answer' = [answer EXCEPT ![c] = [code |-> 500, ids |-> {}, friends |-> {}]]
  BY DEF Fail, Quiet
<1>2. /\ "done" \in Labels
      /\ [code |-> 500, ids |-> {}, friends |-> {}] \in [code : Codes, ids : SUBSET RequestIds, friends : SUBSET Users]
  BY DEF Labels, Codes
<1>3. /\ TypeOK' /\ StepOf(c) /\ pc'[c] = "done"
      /\ answer'[c] = [code |-> 500, ids |-> {}, friends |-> {}]
  BY <1>1, <1>2 DEF TypeOK, IInv, StepOf, Quiet
<1>4. InHandler(c)'
  BY <1>1, <1>3 DEF InHandler
<1> QED BY <1>1, <1>3, <1>4, QuietStep

LEMMA ReceiveIInv ==
  ASSUME IInv, NEW c \in Calls, Receive(c)
  PROVE  IInv'
<1>1. PICK new \in Call, label \in {"receiver", "find", "friends"} :
        /\ Issue(c, new, label)
        /\ label = "receiver" => new.kind = "send"
        /\ label = "find" => new.kind = "respond"
        /\ label = "friends" => new.kind = "list"
  <2>1. CASE ReceiveSend(c)
    <3>1. PICK u, v \in Users : Issue(c, [kind |-> "send", user |-> u, peer |-> v], "receiver")
      BY <2>1 DEF ReceiveSend
    <3>2. [kind |-> "send", user |-> u, peer |-> v] \in Call
      BY DEF Call
    <3> QED BY <3>1, <3>2
  <2>2. CASE ReceiveRespond(c)
    <3>1. PICK u \in Users, i \in RequestIds, s \in Statuses \ {"PENDING"} :
            Issue(c, [kind |-> "respond", user |-> u, id |-> i, status |-> s], "find")
      BY <2>2 DEF ReceiveRespond
    <3>2. [kind |-> "respond", user |-> u, id |-> i, status |-> s] \in Call
      BY DEF Call
    <3> QED BY <3>1, <3>2
  <2>3. CASE ReceiveList(c)
    <3>1. PICK u \in Users, b \in BOOLEAN :
            Issue(c, [kind |-> "list", user |-> u, pending |-> b], "friends")
      BY <2>3 DEF ReceiveList
    <3>2. [kind |-> "list", user |-> u, pending |-> b] \in Call
      BY DEF Call
    <3> QED BY <3>1, <3>2
  <2> QED BY <2>1, <2>2, <2>3 DEF Receive
<1>2. /\ Quiet /\ active' = active /\ call' = [call EXCEPT ![c] = new]
      /\ pc' = [pc EXCEPT ![c] = label] /\ answer' = [answer EXCEPT ![c] = Nothing]
  BY <1>1 DEF Issue, tables, Quiet
<1>3. /\ label \in Labels
      /\ Nothing \in [code : Codes, ids : SUBSET RequestIds, friends : SUBSET Users]
  BY DEF Labels, Codes, Nothing
<1>4. /\ TypeOK' /\ StepOf(c) /\ pc'[c] = label /\ call'[c] = new /\ answer'[c] = Nothing
  BY <1>2, <1>3 DEF TypeOK, IInv, StepOf, Quiet
<1>5. InHandler(c)'
  BY <1>1, <1>4 DEF InHandler, Nothing
<1>6. answer'[c].code = 0 /\ answer'[c].ids = {} /\ answer'[c].friends = {}
  BY <1>4 DEF Nothing
<1> QED BY <1>2, <1>4, <1>5, <1>6, QuietStep

LEMMA IdleIInv ==
  ASSUME IInv, UNCHANGED <<requests, connections, call, pc, answer>>, active' \subseteq Users
  PROVE  IInv'
<1>1. Quiet /\ RowsKept /\ OnePendingPerPair' /\ FriendsByConsent'
  BY QuietTables DEF Quiet, IInv
<1>2. TypeOK'
  BY DEF IInv, TypeOK
<1>3. (\A c \in Calls : InHandler(c))' /\ AnswersTruthful'
  BY <1>1, Untouched, StaysTrue DEF Won, AnswersTruthful
<1> QED BY <1>1, <1>2, <1>3 DEF IInv

LEMMA StepIInv == IInv /\ [Next]_vars => IInv'
<1> SUFFICES ASSUME IInv, [Next]_vars PROVE IInv'
  OBVIOUS
<1>1. ASSUME NEW u \in Users, Deactivate(u) PROVE IInv'
  BY <1>1, IdleIInv DEF Deactivate, IInv, TypeOK
<1>2. ASSUME NEW c \in Calls, Receive(c) PROVE IInv'
  BY <1>2, ReceiveIInv
<1>3. ASSUME NEW c \in Calls, Handle(c) PROVE IInv'
  BY <1>3, SendReads, InsertIInv, FindIInv, ClaimIInv, ListFriendsIInv, ListPendingIInv,
     FailIInv DEF Handle
<1>4. CASE UNCHANGED vars
  BY <1>4, IdleIInv DEF vars, IInv, TypeOK
<1> QED BY <1>1, <1>2, <1>3, <1>4 DEF Next

(* The inductive invariant: types, tables, handlers and answers.           *)
THEOREM Invariant == Spec => []IInv
BY InitIInv, StepIInv, PTL DEF Spec

(* However the requests of two users race, one of them is pending.         *)
THEOREM OnePending == Spec => []OnePendingPerPair
<1>1. IInv => OnePendingPerPair
  BY DEF IInv
<1> QED BY <1>1, Invariant, PTL

(* Exactly the pairs with an accepted request are connected.               *)
THEOREM FriendsConsent == Spec => []FriendsByConsent
<1>1. IInv => FriendsByConsent
  BY DEF IInv
<1> QED BY <1>1, Invariant, PTL

(* What a caller of the API was told stays true.                           *)
THEOREM AnswersAreTrue == Spec => []AnswersTruthful
<1>1. IInv => AnswersTruthful
  BY DEF IInv
<1> QED BY <1>1, Invariant, PTL

-------------------------------------------------------------------------------
(* The action property and the refinement *)

(* What a step does to the requests: one is added, or one that is pending  *)
(* is settled by a call that may settle it.                                *)
LEMMA RequestSteps ==
  ASSUME IInv, [Next]_vars, requests' # requests
  PROVE  \E c \in Calls : InsertRequest(c) \/ (ClaimRequest(c) /\ StillPending(call[c].id))
<1>1. requests' = requests \/ \E c \in Calls : InsertRequest(c) \/ ClaimRequest(c)
  BY DEF Next, Deactivate, Receive, ReceiveSend, ReceiveRespond, ReceiveList, Issue, tables, vars,
     Handle, FindReceiver, FindConnection, FindPending, FindRequest, Query, ListFriends,
     ListPending, Fail
<1> QED BY <1>1 DEF ClaimRequest

LEMMA ResolvedStep ==
  ASSUME IInv, [Next]_vars, NEW i \in RequestIds, Exists(i), requests'[i] # requests[i]
  PROVE  /\ requests[i].status = "PENDING"
         /\ requests'[i] = [requests[i] EXCEPT !.status = requests'[i].status]
         /\ \E c \in Calls :
              /\ pc[c] = "claim" /\ pc'[c] = "done"
              /\ requests'[i].status = call[c].status
              /\ call[c].user = IF call[c].status = "CANCELLED" THEN requests[i].from
                                                                ELSE requests[i].to
<1>1. PICK c \in Calls : InsertRequest(c) \/ (ClaimRequest(c) /\ StillPending(call[c].id))
  BY RequestSteps
<1>2. CASE InsertRequest(c)
  BY <1>2 DEF InsertRequest, IInv, TypeOK
<1>3. CASE ClaimRequest(c) /\ StillPending(call[c].id)
  <2>1. /\ requests' = [requests EXCEPT ![call[c].id].status = call[c].status]
        /\ Answer(c, 200, {call[c].id}) /\ pc[c] = "claim"
    BY <1>3 DEF ClaimRequest
  <2>2. i = call[c].id
    BY <2>1 DEF IInv, TypeOK
  <2>3. requests[i].status = "PENDING" /\ pc'[c] = "done"
    BY <1>3, <2>1, <2>2 DEF StillPending, Answer, IInv, TypeOK
  <2>4. requests[i] \in [from : Users, to : Users, status : Statuses]
    BY <2>3 DEF IInv, TypeOK, Row, NoRow
  <2>5. requests'[i] = [requests[i] EXCEPT !.status = call[c].status]
    BY <2>1, <2>2 DEF IInv, TypeOK
  <2>6. requests'[i].status = call[c].status
    BY <2>4, <2>5
  <2>7. MayRespond(requests[i], call[c].user, call[c].status)
    BY <2>1, <2>2 DEF IInv, InHandler
  <2> QED BY <2>1, <2>3, <2>5, <2>6, <2>7 DEF MayRespond
<1> QED BY <1>1, <1>2, <1>3

(* A settled request stays as it was settled, by the party entitled to it. *)
THEOREM RequestsResolveOnce == Spec => ResolvedOnce
<1>1. IInv /\ [Next]_vars =>
        [\A i \in RequestIds : Exists(i) /\ requests'[i] # requests[i] =>
           /\ requests[i].status = "PENDING"
           /\ requests'[i] = [requests[i] EXCEPT !.status = requests'[i].status]
           /\ \E c \in Calls :
                /\ pc[c] = "claim" /\ pc'[c] = "done"
                /\ requests'[i].status = call[c].status
                /\ call[c].user = IF call[c].status = "CANCELLED" THEN requests[i].from
                                                                  ELSE requests[i].to]_vars
  BY ResolvedStep
<1> QED BY <1>1, Invariant, PTL DEF Spec, ResolvedOnce

LEMMA PendingUnique ==
  ASSUME OnePendingPerPair, NEW p, NEW i \in PendingOf(p)
  PROVE  PendingOf(p) = {i} /\ Asker(p) = requests[i].from
<1>1. PendingOf(p) = {i}
  BY DEF PendingOf, OnePendingPerPair
<1>2. (CHOOSE j \in PendingOf(p) : TRUE) = i
  BY <1>1
<1> QED BY <1>1, <1>2 DEF Asker

LEMMA InitMaps == Init => Abstract!Init
<1> SUFFICES ASSUME Init PROVE Abstract!Init
  OBVIOUS
<1>1. \A p : PendingOf(p) = {}
  BY DEF Init, PendingOf, NoRow
<1> QED BY <1>1 DEF Init, Abstract!Init, Asker, Pair, Abstract!Pairs

LEMMA InsertMaps ==
  ASSUME IInv, IInv', NEW c \in Calls, InsertRequest(c), requests' # requests
  PROVE  \E p \in Abstract!Pairs : Abstract!Ask(p)
<1>1. call[c] \in Call /\ call[c].kind = "send" /\ call[c].user # call[c].peer
  BY DEF InsertRequest, IInv, InHandler, TypeOK, NoCall
<1>2. PICK i \in RequestIds :
        /\ ~ Exists(i) /\ PairIndexAllows(Asked(c))
        /\ requests' = [requests EXCEPT ![i] =
             [from |-> call[c].user, to |-> call[c].peer, status |-> "PENDING"]]
        /\ connections' = connections
  BY DEF InsertRequest
<1>0. PICK p : p = Asked(c)
  OBVIOUS
<1>3. p \in Pair /\ call[c].user \in p
  BY <1>0, <1>1 DEF Call, Asked, Pair
<1>4. /\ requests'[i] = [from |-> call[c].user, to |-> call[c].peer, status |-> "PENDING"]
      /\ \A j \in RequestIds : j # i => requests'[j] = requests[j]
  BY <1>2 DEF IInv, TypeOK
<1>5. PendingOf(p) = {}
  BY <1>0, <1>2 DEF PairIndexAllows
<1>6. i \in PendingOf(p)'
  BY <1>0, <1>4 DEF PendingOf, PairOf, Asked
<1>7. Asker(p)' = call[c].user
  <2>1. OnePendingPerPair'
    BY DEF IInv
  <2>2. PendingOf(p)' = {i}
    BY <1>4, <1>5, <1>6, <2>1 DEF PendingOf, OnePendingPerPair
  <2>3. (CHOOSE j \in PendingOf(p)' : TRUE) = i
    BY <2>2
  <2>4. Asker(p)' = requests'[i].from
    BY <2>2, <2>3 DEF Asker
  <2> QED BY <1>4, <2>4
<1>8. \A q \in Pair : q # p => Asker(q)' = Asker(q)
  <2> SUFFICES ASSUME NEW q \in Pair, q # p PROVE Asker(q)' = Asker(q)
    OBVIOUS
  <2>1. PendingOf(q)' = PendingOf(q)
    BY <1>0, <1>2, <1>4 DEF PendingOf, PairOf, Asked, Exists
  <2>2. i \notin PendingOf(q) /\ PendingOf(q) \subseteq RequestIds
    BY <1>2 DEF PendingOf, Exists
  <2>3. CASE PendingOf(q) = {}
    BY <2>1, <2>3 DEF Asker
  <2>4. ASSUME PendingOf(q) # {} PROVE Asker(q)' = Asker(q)
    <3> DEFINE j == CHOOSE k \in PendingOf(q) : TRUE
    <3>1. j \in PendingOf(q)
      BY <2>4
    <3>2. (CHOOSE k \in PendingOf(q)' : TRUE) = j
      BY <2>1
    <3> HIDE DEF j
    <3>3. Asker(q)' = requests'[j].from
      BY <2>1, <2>4, <3>2 DEF Asker
    <3>4. Asker(q) = requests[j].from
      BY <2>4 DEF Asker, j
    <3> QED BY <1>4, <2>2, <3>1, <3>3, <3>4
  <2> QED BY <2>3, <2>4
<1>9. Asker(p) = NULL
  BY <1>5 DEF Asker
<1>10. Abstract!Ask(p)
  <2>1. [q \in Pair |-> Asker(q)]' = [[q \in Pair |-> Asker(q)] EXCEPT ![p] = call[c].user]
    BY <1>3, <1>7, <1>8
  <2> QED BY <1>2, <1>3, <1>9, <2>1 DEF Abstract!Ask
<1> QED BY <1>3, <1>10 DEF Pair, Abstract!Pairs

(* A pair whose pending request a step leaves alone has the asker it had.  *)
LEMMA SameAsker ==
  ASSUME NEW p, PendingOf(p)' = PendingOf(p),
         \A j \in PendingOf(p) : requests'[j].from = requests[j].from
  PROVE  Asker(p)' = Asker(p)
<1>1. CASE PendingOf(p) = {}
  BY <1>1 DEF Asker
<1>2. ASSUME PendingOf(p) # {} PROVE Asker(p)' = Asker(p)
  <2> DEFINE j == CHOOSE k \in PendingOf(p) : TRUE
  <2>1. j \in PendingOf(p)
    BY <1>2
  <2>2. (CHOOSE k \in PendingOf(p)' : TRUE) = j
    OBVIOUS
  <2> HIDE DEF j
  <2>3. Asker(p)' = requests'[j].from
    BY <1>2, <2>2 DEF Asker
  <2>4. Asker(p) = requests[j].from
    BY <1>2 DEF Asker, j
  <2> QED BY <2>1, <2>3, <2>4
<1> QED BY <1>1, <1>2

LEMMA ClaimMaps ==
  ASSUME IInv, NEW c \in Calls, ClaimRequest(c), StillPending(call[c].id)
  PROVE  \E p \in Abstract!Pairs : Abstract!Settle(p)
<1>1. PICK i \in RequestIds, s \in Statuses \ {"PENDING"} :
        /\ requests[i].status = "PENDING"
        /\ requests' = [requests EXCEPT ![i].status = s]
        /\ connections' = IF Connects(s) THEN connections \cup {PairOf(i)} ELSE connections
  <2>1. call[c].id \in RequestIds /\ call[c].status \in Statuses \ {"PENDING"}
    BY DEF ClaimRequest, IInv, InHandler, TypeOK, NoCall, Call
  <2> QED BY <2>1 DEF ClaimRequest, StillPending
<1>2. PICK p : p = PairOf(i)
  OBVIOUS
<1>3. requests[i] \in [from : Users, to : Users, status : Statuses]
  BY <1>1 DEF IInv, TypeOK, Row, NoRow
<1>4. p \in Pair
  BY <1>1, <1>2, <1>3 DEF IInv, FriendsByConsent, Exists, PairOf, Pair
<1>5. /\ requests'[i] = [from |-> requests[i].from, to |-> requests[i].to, status |-> s]
      /\ \A j \in RequestIds : j # i => requests'[j] = requests[j]
  BY <1>1, <1>3 DEF IInv, TypeOK
<1>6. i \in PendingOf(p)
  BY <1>1, <1>2 DEF PendingOf
<1>7. PendingOf(p) = {i} /\ Asker(p) = requests[i].from
  BY <1>6, PendingUnique DEF IInv
<1>8. PendingOf(p)' = {}
  BY <1>2, <1>5, <1>7 DEF PendingOf, PairOf, Statuses
<1>9. Asker(p)' = NULL
  BY <1>8 DEF Asker
<1>10. \A q \in Pair : q # p => Asker(q)' = Asker(q)
  <2> SUFFICES ASSUME NEW q \in Pair, q # p PROVE Asker(q)' = Asker(q)
    OBVIOUS
  <2>1. PendingOf(q)' = PendingOf(q)
    BY <1>1, <1>2, <1>5 DEF PendingOf, PairOf, Statuses
  <2>2. \A j \in PendingOf(q) : requests'[j].from = requests[j].from
    BY <1>2, <1>5 DEF PendingOf
  <2> QED BY <2>1, <2>2, SameAsker
<1>11. Abstract!Settle(p)
  <2>1. [q \in Pair |-> Asker(q)]' = [[q \in Pair |-> Asker(q)] EXCEPT ![p] = NULL]
    BY <1>4, <1>9, <1>10
  <2>2. [q \in Pair |-> Asker(q)][p] # NULL
    BY <1>3, <1>4, <1>7
  <2>3. connections' \in {connections, connections \cup {p}}
    BY <1>1, <1>2
  <2> QED BY <2>1, <2>2, <2>3 DEF Abstract!Settle
<1> QED BY <1>4, <1>11 DEF Pair, Abstract!Pairs

LEMMA StutterMaps ==
  ASSUME UNCHANGED <<requests, connections>>
  PROVE  UNCHANGED <<[p \in Pair |-> Asker(p)], connections>>
<1>1. \A p : PendingOf(p)' = PendingOf(p)
  BY DEF PendingOf, PairOf
<1>2. \A p : Asker(p)' = Asker(p)
  BY <1>1, SameAsker
<1> QED BY <1>2

LEMMA ConnectionSteps ==
  ASSUME IInv, [Next]_vars, requests' = requests
  PROVE  connections' = connections
<1>1. CASE \E c \in Calls : ClaimRequest(c)
  <2>1. PICK c \in Calls : ClaimRequest(c)
    BY <1>1
  <2>2. call[c].id \in RequestIds /\ call[c].status \in Statuses \ {"PENDING"}
    BY <2>1 DEF ClaimRequest, IInv, InHandler, TypeOK, NoCall, Call
  <2>3. ASSUME StillPending(call[c].id), requests' = [requests EXCEPT ![call[c].id].status = call[c].status]
        PROVE  FALSE
    <3>1. requests[call[c].id] \in [from : Users, to : Users, status : Statuses]
      BY <2>2, <2>3 DEF IInv, TypeOK, Row, NoRow, StillPending
    <3>2. requests'[call[c].id].status = call[c].status
      BY <2>2, <2>3, <3>1 DEF IInv, TypeOK
    <3> QED BY <2>2, <2>3, <3>2 DEF StillPending
  <2> QED BY <2>1, <2>3 DEF ClaimRequest
<1>2. CASE ~ \E c \in Calls : ClaimRequest(c)
  BY <1>2 DEF Next, Deactivate, Receive, ReceiveSend, ReceiveRespond, ReceiveList, Issue, tables,
     vars, Handle, FindReceiver, FindConnection, FindPending, FindRequest, InsertRequest, Query,
     ListFriends, ListPending, Fail
<1> QED BY <1>1, <1>2

(* The handlers implement the pairs of Friendship. *)
THEOREM Refinement == Spec => ImplementsFriendship
<1>1. IInv /\ IInv' /\ [Next]_vars
        => [Abstract!Next]_<<[p \in Pair |-> Asker(p)], connections>>
  <2> SUFFICES ASSUME IInv, IInv', [Next]_vars
               PROVE  [Abstract!Next]_<<[p \in Pair |-> Asker(p)], connections>>
    OBVIOUS
  <2>1. CASE requests' = requests
    BY <2>1, ConnectionSteps, StutterMaps
  <2>2. CASE requests' # requests
    BY <2>2, RequestSteps, InsertMaps, ClaimMaps DEF Abstract!Next
  <2> QED BY <2>1, <2>2
<1> QED BY <1>1, InitMaps, Invariant, PTL DEF Spec, ImplementsFriendship, Abstract!Spec
==============================================================================
